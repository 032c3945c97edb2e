---------------------------- MODULE ActorProofs -----------------------------
(***************************************************************************)
(* Theorems about the two actors of a session, about its telephone, about  *)
(* the runtime that all actors share, about the relay to an agent on the   *)
(* user's Mac and about the interviews, for every policy and any number of *)
(* attempts, background agents, calls, actors, tasks, restarts and lost    *)
(* answers.                                                                *)
(*                                                                         *)
(* SessionActor: the invariants of the run are not inductive: a timeout    *)
(* that is already in the mailbox carries an attempt count, and only its   *)
(* agreement with the actor's own count keeps the budget.                  *)
(*                                                                         *)
(* BackgroundAgentHost: the shutdown theorem rests on the progress of the  *)
(* runtime's own stopAll loop: every agent before the one it awaits is     *)
(* stopped.                                                                *)
(*                                                                         *)
(* PhoneCalls: who holds a call, its stream and its connection agree on    *)
(* the call that was admitted, whatever events of earlier calls come late. *)
(*                                                                         *)
(* ActorScheduling: an envelope is in one mailbox and behind the one that  *)
(* is handled, and the supervisor counts every grant of its window.        *)
(*                                                                         *)
(* SutandoRelay: the ledger is ahead of the Mac, so a task that is leased  *)
(* again was never executed, and a restart that reads the ledger misjudges *)
(* no task.                                                                *)
(*                                                                         *)
(* Interviews: each anchor has as many answers as questions, but the one   *)
(* that waits, so that what a late or cancelled call asks is never lost.   *)
(***************************************************************************)
EXTENDS BackgroundAgentHost, PhoneCalls, ActorScheduling, SutandoRelay, Interviews,
        FiniteSetTheorems, SequenceTheorems, TLAPS

IsTimeout(msg) == msg.type = "session.reconnect_timeout"

\* A fired timeout is handled before anything else and carries the live count.
PendingTimeout ==
  \A i \in 1..Len(sessionMail) :
    IsTimeout(sessionMail[i]) =>
      /\ i = 1
      /\ timers = 0
      /\ phase = "reconnecting"
      /\ sessionMail[i].attempt = attempt
      /\ ~upstreamHeld

AttemptsCounted == phase = "reconnecting" => triggers = attempt

HeldIsIdle == upstreamHeld => timers = 0 /\ triggers = 0 /\ attempt = 0

NotYetConnected ==
  phase \in {"created", "connecting"} =>
    \A i \in 1..Len(hostMail) : hostMail[i] # "session.connected"

IInv ==
  /\ TypeOK
  /\ OneTimerWhileReconnecting
  /\ PendingTimeout
  /\ AttemptsCounted
  /\ ReconnectBudget
  /\ HeldIsIdle
  /\ NotYetConnected
  /\ ConnectedOnce

-----------------------------------------------------------------------------
(* What the two ways of sending leave in a mailbox.                        *)

\* A message received is the head, and the rest moves up by one place.
LEMMA TailShifts ==
  ASSUME NEW S, NEW s \in Seq(S), s # <<>>
  PROVE  /\ Head(s) = s[1] /\ Head(s) \in S
         /\ Tail(s) \in Seq(S)
         /\ Len(Tail(s)) = Len(s) - 1
         /\ 1 \in 1..Len(s)
         /\ \A i \in 1..Len(Tail(s)) : i + 1 \in 1..Len(s) /\ Tail(s)[i] = s[i + 1]
  OBVIOUS

\* A message sent is the last one, and the others keep their places.
LEMMA AppendKeeps ==
  ASSUME NEW S, NEW s \in Seq(S), NEW e \in S
  PROVE  /\ Append(s, e) \in Seq(S)
         /\ Len(Append(s, e)) = Len(s) + 1
         /\ \A i \in 1..Len(s) : Append(s, e)[i] = s[i]
         /\ Append(s, e)[Len(s) + 1] = e
  OBVIOUS

\* What a handler finds in the mailbox, and what it leaves there.
LEMMA ReceiveLeaves ==
  ASSUME IInv, NEW type, Receive(type)
  PROVE  /\ sessionMail' \in Seq(SessionMsg)
         /\ \A i \in 1..Len(sessionMail') : ~IsTimeout(sessionMail'[i])
         /\ Head(sessionMail) = sessionMail[1] /\ Head(sessionMail) \in SessionMsg
         /\ 1 \in 1..Len(sessionMail)
  <1>1. sessionMail \in Seq(SessionMsg) /\ sessionMail # <<>> /\ sessionMail' = Tail(sessionMail)
    BY DEF IInv, TypeOK, Receive
  <1>2. ASSUME NEW i \in 1..Len(Tail(sessionMail))
        PROVE  ~IsTimeout(Tail(sessionMail)[i])
    BY <1>1, TailShifts DEF IInv, PendingTimeout
  <1> QED BY <1>1, <1>2, TailShifts

\* A fan-out to the host other than session.connected keeps its log.
LEMMA ToHostKeeps ==
  ASSUME IInv, NEW type \in HostMsg, type # "session.connected", ToHost(type)
  PROVE  /\ hostMail' \in Seq(HostMsg)
         /\ ConnectedOnce'
         /\ (\A i \in 1..Len(hostMail) : hostMail[i] # "session.connected")
              => (\A i \in 1..Len(hostMail') : hostMail'[i] # "session.connected")
  <1>1. hostMail \in Seq(HostMsg) /\ ConnectedOnce BY DEF IInv, TypeOK
  <1>2. CASE hostMail' = hostMail BY <1>1, <1>2 DEF ConnectedOnce
  <1>3. CASE hostMail' = Append(hostMail, type) BY <1>1, <1>3, AppendKeeps DEF ConnectedOnce
  <1> QED BY <1>2, <1>3 DEF ToHost

\* The one fan-out of session.connected comes before any other.
LEMMA ToHostConnects ==
  ASSUME IInv, FirstActivation, ToHost("session.connected")
  PROVE  hostMail' \in Seq(HostMsg) /\ ConnectedOnce'
  <1>1. /\ hostMail \in Seq(HostMsg) /\ "session.connected" \in HostMsg
        /\ \A i \in 1..Len(hostMail) : hostMail[i] # "session.connected"
    BY DEF IInv, TypeOK, NotYetConnected, FirstActivation, HostMsg
  <1>2. CASE hostMail' = hostMail BY <1>1, <1>2 DEF ConnectedOnce
  <1>3. CASE hostMail' = Append(hostMail, "session.connected")
    BY <1>1, <1>3, AppendKeeps DEF ConnectedOnce
  <1> QED BY <1>2, <1>3 DEF ToHost

\* An envelope from the environment is never a timeout.
LEMMA ToSessionKeeps ==
  ASSUME IInv, NEW type \in AdapterEvents \cup ControlEvents, ToSession(type),
         UNCHANGED <<upstreamHeld, phase, attempt, timers>>
  PROVE  sessionMail' \in Seq(SessionMsg) /\ PendingTimeout'
  <1> DEFINE msg == [type |-> type, attempt |-> 0]
  <1>1. sessionMail \in Seq(SessionMsg) /\ msg \in SessionMsg /\ ~IsTimeout(msg)
    BY DEF IInv, TypeOK, SessionMsg, IsTimeout, AdapterEvents, ControlEvents
  <1>2. CASE sessionMail' = sessionMail BY <1>1, <1>2 DEF IInv, PendingTimeout
  <1>3. CASE sessionMail' = Append(sessionMail, msg)
    <2>1. ASSUME NEW i \in 1..Len(sessionMail')
          PROVE  \/ i \in 1..Len(sessionMail) /\ sessionMail'[i] = sessionMail[i]
                 \/ sessionMail'[i] = msg
      BY <1>1, <1>3, AppendKeeps
    <2> QED BY <1>1, <2>1, <1>3, AppendKeeps DEF IInv, PendingTimeout
  <1> QED BY <1>2, <1>3 DEF ToSession

-----------------------------------------------------------------------------
(* The inductive invariant.                                                *)

LEMMA InitIInv ==
  ASSUME SessionAssumption, Init
  PROVE  IInv
  BY DEF SessionAssumption, Init, IInv, TypeOK, Phases, OneTimerWhileReconnecting,
         PendingTimeout, AttemptsCounted, ReconnectBudget, HeldIsIdle, NotYetConnected,
         ConnectedOnce

\* A handler of the SessionActor keeps the invariant: the mailbox it leaves holds
\* no timeout, so only its own fields and its fan-out matter.
LEMMA HandleIInv ==
  ASSUME SessionAssumption, IInv, Handle
  PROVE  IInv'
  <1> USE DEF SessionAssumption
  <1>1. ASSUME NEW type, Receive(type)
        PROVE  sessionMail' \in Seq(SessionMsg) /\ PendingTimeout'
    BY <1>1, ReceiveLeaves DEF PendingTimeout
  <1>2. CASE HandleSessionReady
    <2>1. sessionMail' \in Seq(SessionMsg) /\ PendingTimeout' BY <1>2, <1>1 DEF HandleSessionReady
    <2>2. hostMail' \in Seq(HostMsg) /\ ConnectedOnce'
      <3>1. CASE ToHost("session.reconnected") BY <3>1, ToHostKeeps DEF HostMsg
      <3>2. CASE FirstActivation /\ ToHost("session.connected") BY <3>2, ToHostConnects
      <3>3. CASE UNCHANGED hostMail BY <3>3 DEF IInv, TypeOK, ConnectedOnce
      <3> QED BY <1>2, <3>1, <3>2, <3>3 DEF HandleSessionReady
    <2> QED
      BY <1>2, <2>1, <2>2 DEF HandleSessionReady, FirstActivation, ClearTimers, IInv, TypeOK,
         Phases, OneTimerWhileReconnecting, AttemptsCounted, ReconnectBudget, HeldIsIdle,
         NotYetConnected
  <1>3. CASE HandleRecoverableError
    BY <1>3, <1>1 DEF HandleRecoverableError, HoldLoss, ScheduleReconnect, IInv, TypeOK, Phases,
        OneTimerWhileReconnecting, AttemptsCounted, ReconnectBudget, HeldIsIdle, NotYetConnected,
        ConnectedOnce
  <1>4. CASE HandleFatalError
    BY <1>4, <1>1 DEF HandleFatalError, HoldLoss, ClearTimers, IInv, TypeOK, Phases,
        OneTimerWhileReconnecting, AttemptsCounted, ReconnectBudget, HeldIsIdle, NotYetConnected,
        ConnectedOnce
  <1>5. CASE HandleTransportClosed
    <2>1. sessionMail' \in Seq(SessionMsg) /\ PendingTimeout'
      BY <1>5, <1>1 DEF HandleTransportClosed
    <2>2. hostMail' \in Seq(HostMsg) /\ ConnectedOnce'
      <3>1. CASE ToHost("transport.closed") BY <3>1, ToHostKeeps DEF HostMsg
      <3>2. CASE UNCHANGED hostMail BY <3>2 DEF IInv, TypeOK, ConnectedOnce
      <3> QED BY <1>5, <3>1, <3>2 DEF HandleTransportClosed, HoldLoss
    <2> QED
      BY <1>5, <2>1, <2>2 DEF HandleTransportClosed, HoldLoss, ClearTimers, IInv, TypeOK,
         Phases, OneTimerWhileReconnecting, AttemptsCounted, ReconnectBudget, HeldIsIdle,
         NotYetConnected
  <1>6. CASE HandleTransferCompleted
    BY <1>6, <1>1, ToHostKeeps DEF HandleTransferCompleted, HostMsg, IInv, TypeOK, Phases,
        OneTimerWhileReconnecting, AttemptsCounted, ReconnectBudget, HeldIsIdle, NotYetConnected
  <1>7. CASE HandleTransferFailed
    BY <1>7, <1>1 DEF HandleTransferFailed, ClearTimers, IInv, TypeOK, Phases,
        OneTimerWhileReconnecting, AttemptsCounted, ReconnectBudget, HeldIsIdle, NotYetConnected,
        ConnectedOnce
  <1>8. CASE HandleCloseRequested
    BY <1>8, <1>1, ToHostKeeps DEF HandleCloseRequested, HostMsg, ClearTimers, IInv, TypeOK,
        Phases, OneTimerWhileReconnecting, AttemptsCounted, ReconnectBudget, HeldIsIdle,
        NotYetConnected
  <1>9. CASE HandleReconnectTimeout
    <2>1. sessionMail' \in Seq(SessionMsg) /\ PendingTimeout'
      BY <1>9, <1>1 DEF HandleReconnectTimeout
    <2>2. /\ Head(sessionMail).attempt = attempt /\ timers = 0 /\ ~upstreamHeld
          /\ phase = "reconnecting" /\ triggers = attempt
      BY <1>9, ReceiveLeaves DEF HandleReconnectTimeout, Receive, IsTimeout, IInv, PendingTimeout,
         AttemptsCounted
    <2> QED
      BY <1>9, <2>1, <2>2 DEF HandleReconnectTimeout, BudgetSpent, ClearTimers,
         ScheduleReconnect, IInv, TypeOK, Phases, OneTimerWhileReconnecting, AttemptsCounted,
         ReconnectBudget, HeldIsIdle, NotYetConnected, ConnectedOnce
  <1> QED BY <1>2, <1>3, <1>4, <1>5, <1>6, <1>7, <1>8, <1>9 DEF Handle

\* A timer that fires puts a timeout with the live count into an empty mailbox.
LEMMA FireTimerIInv ==
  ASSUME SessionAssumption, IInv, FireTimer
  PROVE  IInv'
  <1> DEFINE msg == [type |-> "session.reconnect_timeout", attempt |-> attempt]
  <1>1. msg \in SessionMsg /\ timers = 1 /\ timers' = 0 /\ phase = "reconnecting" /\ ~upstreamHeld
    BY DEF FireTimer, IInv, TypeOK, SessionMsg, OneTimerWhileReconnecting, HeldIsIdle
  <1>2. sessionMail' \in Seq(SessionMsg) /\ PendingTimeout'
    <2>1. CASE sessionMail' = <<msg>> BY <1>1, <2>1 DEF FireTimer, PendingTimeout, IsTimeout
    <2>2. CASE sessionMail' = <<>> BY <2>2 DEF PendingTimeout
    <2> QED BY <2>1, <2>2 DEF FireTimer
  <1> QED
    BY <1>1, <1>2 DEF FireTimer, IInv, TypeOK, OneTimerWhileReconnecting, AttemptsCounted,
       ReconnectBudget, HeldIsIdle, NotYetConnected, ConnectedOnce

LEMMA EnvironmentIInv ==
  ASSUME SessionAssumption, IInv, Environment
  PROVE  IInv'
  <1>1. /\ \E type \in AdapterEvents \cup ControlEvents : ToSession(type)
        /\ UNCHANGED <<upstreamHeld, phase, attempt, timers, hostMail, triggers, running>>
        /\ events' = events + 1
    BY DEF Environment, AdapterEvent, ControlEvent
  <1>2. sessionMail' \in Seq(SessionMsg) /\ PendingTimeout' BY <1>1, ToSessionKeeps
  <1> QED
    BY <1>1, <1>2 DEF IInv, TypeOK, OneTimerWhileReconnecting, AttemptsCounted,
       ReconnectBudget, HeldIsIdle, NotYetConnected, ConnectedOnce

LEMMA StopIInv ==
  ASSUME SessionAssumption, IInv, StopSession
  PROVE  IInv'
  BY DEF StopSession, ClearTimers, IInv, TypeOK, OneTimerWhileReconnecting, PendingTimeout,
     AttemptsCounted, ReconnectBudget, HeldIsIdle, NotYetConnected, ConnectedOnce

LEMMA StutterIInv ==
  ASSUME IInv, UNCHANGED sessionVars
  PROVE  IInv'
  BY DEF sessionVars, IInv, TypeOK, OneTimerWhileReconnecting, PendingTimeout,
     AttemptsCounted, ReconnectBudget, HeldIsIdle, NotYetConnected, ConnectedOnce

\* The inductive invariant holds throughout every run of the SessionActor.
THEOREM Inductive == Spec => []IInv
  <1>1. Init => IInv BY SessionAssumption, InitIInv
  <1>2. IInv /\ [Next]_sessionVars => IInv'
    BY SessionAssumption, HandleIInv, FireTimerIInv, EnvironmentIInv, StopIInv, StutterIInv
       DEF Next
  <1> QED BY <1>1, <1>2, PTL DEF Spec

-----------------------------------------------------------------------------
(* What follows from it.                                                   *)

\* The fields of the SessionActor keep their types.
THEOREM TypeCorrect == Spec => []TypeOK
  <1>1. IInv => TypeOK BY DEF IInv
  <1> QED BY <1>1, Inductive, PTL

\* At most one reconnect timer is armed, and only while reconnecting.
THEOREM OneTimer == Spec => []OneTimerWhileReconnecting
  <1>1. IInv => OneTimerWhileReconnecting BY DEF IInv
  <1> QED BY <1>1, Inductive, PTL

\* One reconnect never triggers more than maxAttempts generations.
THEOREM BudgetKept == Spec => []ReconnectBudget
  <1>1. IInv => ReconnectBudget BY DEF IInv
  <1> QED BY <1>1, Inductive, PTL

\* The background agents are told of the first activation at most once.
THEOREM ConnectedAtMostOnce == Spec => []ConnectedOnce
  <1>1. IInv => ConnectedOnce BY DEF IInv
  <1> QED BY <1>1, Inductive, PTL

\* Under 'hold' the SessionActor never arms a timer and never redials.
THEOREM HeldNeverRedials == Spec => []HeldRedialsElsewhere
  <1>1. IInv => HeldRedialsElsewhere BY DEF IInv, HeldIsIdle, HeldRedialsElsewhere
  <1> QED BY <1>1, Inductive, PTL

\* A timer closes the session only after all of its attempts.
THEOREM GivesUpWhenSpent == Spec => GivesUpOnlyWhenSpent
  <1>1. ASSUME IInv, HandleReconnectTimeout, phase' = "closed", phase # "closed"
        PROVE  triggers = MaxAttempts
    BY <1>1, ReceiveLeaves, SessionAssumption DEF HandleReconnectTimeout, Receive, IsTimeout, IInv,
        PendingTimeout, AttemptsCounted, BudgetSpent, TypeOK, ReconnectBudget, SessionAssumption
  <1>2. IInv => (HandleReconnectTimeout /\ phase' = "closed" /\ phase # "closed"
                  => triggers = MaxAttempts)
    BY <1>1
  <1> QED BY <1>2, Inductive, PTL DEF GivesUpOnlyWhenSpent

\* Under 'hold' only a failed transfer or a close request closes the session.
THEOREM HeldOutlivesLoss == Spec => HeldSurvivesLoss
  <1> DEFINE Closes == upstreamHeld /\ phase' = "closed" /\ phase # "closed"
  <1>1. ASSUME IInv, Next, Closes
        PROVE  Head(sessionMail).type \in ControlEvents
    <2>1. ~HandleReconnectTimeout
      BY <1>1, ReceiveLeaves DEF HandleReconnectTimeout, Receive, IsTimeout, IInv, PendingTimeout
    <2>2. HandleTransferFailed \/ HandleCloseRequested
      BY <1>1, <2>1 DEF Next, Environment, AdapterEvent, ControlEvent, FireTimer, StopSession,
         Handle, HandleSessionReady, HandleRecoverableError, HandleFatalError,
         HandleTransportClosed, HandleTransferCompleted, HoldLoss
    <2> QED BY <2>2 DEF HandleTransferFailed, HandleCloseRequested, Receive, ControlEvents
  <1>2. IInv /\ [Next]_sessionVars => [Closes => Head(sessionMail).type \in ControlEvents]_sessionVars
    BY <1>1
  <1> QED BY <1>2, Inductive, PTL DEF Spec, HeldSurvivesLoss

\* A held session outlives every loss, any other gives up when its budget is spent.
THEOREM LossPolicyKept == Spec => LossesFollowThePolicy
  BY OneTimer, HeldOutlivesLoss, GivesUpWhenSpent DEF LossesFollowThePolicy

-----------------------------------------------------------------------------
(* The host of the background agents.                                      *)

\* The loop of the runtime's stopAll has stopped everything it has passed.
RuntimeProgress ==
  /\ at["runtime"].hook \in {"none", "onStop"}
  /\ stage \in {"up", "transport_stopped", "down"} => at["runtime"] = NoHook
  /\ stage = "host_stopping" /\ at["runtime"].hook = "onStop" =>
       \A j \in Agents : j < at["runtime"].agent => j \in stopped
  /\ stage = "host_stopping" /\ at["runtime"].hook = "none" => Agents \subseteq stopped
  /\ stage = "down" => Agents \subseteq stopped

StopsAborted ==
  /\ stopped \subseteq aborted
  /\ \A t \in Threads : at[t].hook = "onStop" => at[t].agent \in aborted

HostInv == IInv /\ HostTypeOK /\ RuntimeProgress /\ StopsAborted

-----------------------------------------------------------------------------

\* Whatever is left to do, a loop goes on at its first agent or ends: everything
\* before the agent it goes on at is done.
LEMMA StopFromAdvances ==
  ASSUME HostInv, NEW t \in Threads, NEW i \in Nat, NEW done \in SUBSET Agents,
         StopFrom(t, i, done)
  PROVE  /\ at' \in [Threads -> Hooks] /\ aborted' \subseteq Agents
         /\ stopCalls' \in [Agents -> Nat] /\ aborted \subseteq aborted'
         /\ \A u \in Threads \ {t} : at'[u] = at[u]
         /\ \/ at'[t] = NoHook /\ \A j \in Agents : j > i => j \in done
            \/ /\ at'[t].hook = "onStop" /\ at'[t].agent \in aborted' /\ at'[t].agent > i
               /\ \A j \in Agents : j > i /\ j < at'[t].agent => j \in done
  <1>1. /\ at \in [Threads -> Hooks] /\ aborted \subseteq Agents
        /\ stopCalls \in [Agents -> Nat] /\ Agents \subseteq Nat /\ NoHook \in Hooks
    BY HostAssumption DEF HostInv, HostTypeOK, Agents, Hooks, HostAssumption
  <1>2. CASE /\ ToStop(i, done) = {}
             /\ at' = [at EXCEPT ![t] = NoHook]
             /\ UNCHANGED <<aborted, stopCalls>>
    BY <1>1, <1>2 DEF ToStop, NoHook
  <1>3. ASSUME NEW j \in ToStop(i, done), First(j, ToStop(i, done)),
               at' = [at EXCEPT ![t] = [hook |-> "onStop", agent |-> j]],
               aborted' = aborted \cup {j},
               stopCalls' = [stopCalls EXCEPT ![j] = @ + 1]
        PROVE  /\ at' \in [Threads -> Hooks] /\ aborted' \subseteq Agents
               /\ stopCalls' \in [Agents -> Nat] /\ aborted \subseteq aborted'
               /\ \A u \in Threads \ {t} : at'[u] = at[u]
               /\ at'[t].hook = "onStop" /\ at'[t].agent \in aborted' /\ at'[t].agent > i
               /\ \A k \in Agents : k > i /\ k < at'[t].agent => k \in done
    <2>1. j \in Agents /\ j > i /\ \A k \in ToStop(i, done) : j <= k BY <1>3 DEF ToStop, First
    <2>4. ASSUME NEW k \in Agents, k > i, k < j PROVE k \in done BY <2>1, <2>4, <1>1 DEF ToStop
    <2> QED BY <1>3, <2>1, <2>4, <1>1 DEF Hooks
  <1> QED BY <1>2, <1>3 DEF StopFrom

\* A loop over the onStart hooks only moves the mailbox thread.
LEMMA StartFromAdvances ==
  ASSUME HostInv, NEW i \in Nat, NEW done \in SUBSET Agents, StartFrom(i, done)
  PROVE  /\ at' \in [Threads -> Hooks] /\ lateStarts' \subseteq Agents
         /\ at'["runtime"] = at["runtime"] /\ at'["mailbox"].hook # "onStop"
  <1>1. /\ at \in [Threads -> Hooks] /\ aborted \subseteq Agents /\ lateStarts \subseteq Agents
        /\ NoHook \in Hooks /\ {"mailbox", "runtime"} = Threads
    BY DEF HostInv, HostTypeOK, Hooks, Threads
  <1>2. CASE at' = [at EXCEPT !["mailbox"] = NoHook] /\ UNCHANGED lateStarts
    BY <1>1, <1>2 DEF NoHook
  <1>3. ASSUME NEW j \in ToStart(i, done),
               at' = [at EXCEPT !["mailbox"] = [hook |-> "onStart", agent |-> j]],
               lateStarts' = lateStarts \cup ({j} \cap aborted)
        PROVE  /\ at' \in [Threads -> Hooks] /\ lateStarts' \subseteq Agents
               /\ at'["runtime"] = at["runtime"] /\ at'["mailbox"].hook # "onStop"
    BY <1>3, <1>1 DEF Hooks, ToStart
  <1> QED BY <1>2, <1>3 DEF StartFrom

\* The SessionActor's invariant only looks at its own fields and the two mailboxes.
LEMMA SessionUntouched ==
  ASSUME IInv, UNCHANGED <<upstreamHeld, phase, attempt, timers, sessionMail, hostMail, triggers>>,
         running' \in SUBSET Actors, events' \in Nat
  PROVE  IInv'
  BY DEF IInv, TypeOK, OneTimerWhileReconnecting, PendingTimeout,
     AttemptsCounted, ReconnectBudget, HeldIsIdle, NotYetConnected, ConnectedOnce

LEMMA FanOutReceived ==
  ASSUME IInv, NEW type, ReceiveFanOut(type)
  PROVE  IInv'
  <1>1. /\ hostMail \in Seq(HostMsg) /\ hostMail # <<>> /\ hostMail' = Tail(hostMail)
        /\ UNCHANGED <<phase, attempt, timers, sessionMail, triggers, running, events, upstreamHeld>>
    BY DEF ReceiveFanOut, IInv, TypeOK
  <1>2. /\ hostMail' \in Seq(HostMsg)
        /\ \A i \in 1..Len(hostMail') : /\ i + 1 \in 1..Len(hostMail)
                                        /\ hostMail'[i] = hostMail[i + 1]
    BY <1>1, TailShifts
  <1>3. ConnectedOnce'
    <2>1. ASSUME NEW i \in 1..Len(hostMail'), NEW j \in 1..Len(hostMail'),
                 hostMail'[i] = "session.connected", hostMail'[j] = "session.connected"
          PROVE  i = j
      BY <1>2, <2>1 DEF IInv, ConnectedOnce
    <2> QED BY <2>1 DEF ConnectedOnce
  <1>4. NotYetConnected' BY <1>1, <1>2 DEF IInv, NotYetConnected
  <1> QED
    BY <1>1, <1>2, <1>3, <1>4 DEF IInv, TypeOK, OneTimerWhileReconnecting, PendingTimeout,
       AttemptsCounted, ReconnectBudget, HeldIsIdle

-----------------------------------------------------------------------------
(* The inductive invariant.                                                *)

LEMMA HostInitInv ==
  ASSUME HostInit
  PROVE  HostInv
  <1>1. IInv BY SessionAssumption, InitIInv DEF HostInit
  <1> QED
    BY <1>1 DEF HostInit, HostInv, IInv, HostTypeOK, RuntimeProgress, StopsAborted, Threads,
       Hooks, NoHook, Stages

LEMMA SessionStepInv ==
  ASSUME HostInv, SessionStep
  PROVE  HostInv'
  <1>1. IInv'
    BY SessionAssumption, HandleIInv, FireTimerIInv, EnvironmentIInv
       DEF HostInv, SessionStep, Environment
  <1> QED
    BY <1>1 DEF SessionStep, hostOwn, HostInv, IInv, HostTypeOK, RuntimeProgress, StopsAborted

LEMMA HostHandleInv ==
  ASSUME HostInv, HostHandle
  PROVE  HostInv'
  <1>1. IInv' /\ TypeOK' /\ UNCHANGED stage
    <2>1. PICK type : ReceiveFanOut(type)
      BY DEF HostHandle, HandleConnected, HandleReconnected, HandleTransfer, HandleClose
    <2> QED BY <2>1, FanOutReceived DEF ReceiveFanOut, HostInv, IInv
  <1>2. CASE HandleConnected
    BY <1>2, StartFromAdvances, <1>1 DEF HandleConnected, HostInv, HostTypeOK, RuntimeProgress,
        StopsAborted, Threads
  <1>3. CASE HandleReconnected
    BY <1>1, <1>3 DEF HandleReconnected, HostInv, HostTypeOK, RuntimeProgress, StopsAborted
  <1>4. CASE HandleTransfer
    <2> DEFINE cancelled == (started \ (stopped \cup failed)) \cap CancelOnTransfer
    <2> QED BY <1>1, <1>4 DEF HostInv, RuntimeProgress, HostTypeOK, StopsAborted, HandleTransfer
  <1>5. CASE HandleClose
    BY <1>5, StopFromAdvances, <1>1 DEF HandleClose, HostInv, HostTypeOK, Threads, NoHook,
        RuntimeProgress, StopsAborted
  <1> QED BY <1>2, <1>3, <1>4, <1>5 DEF HostHandle

LEMMA StartSettlesInv ==
  ASSUME HostInv, StartSettles
  PROVE  HostInv'
  <1> DEFINE i == at["mailbox"].agent
  <1>1. i \in Agents /\ i \in Nat
    BY HostAssumption DEF StartSettles, HostInv, HostTypeOK, Hooks, NoHook, Threads, Agents,
       HostAssumption
  <1>3. IInv' /\ TypeOK' BY SessionUntouched DEF StartSettles, sessionVars, HostInv, IInv, TypeOK
  <1> QED BY <1>1, <1>3, StartFromAdvances DEF StartSettles, HostInv, HostTypeOK, RuntimeProgress,
        StopsAborted, Threads

LEMMA StopSettlesInv ==
  ASSUME HostInv, NEW t \in Threads, StopSettles(t)
  PROVE  HostInv'
  <1> DEFINE i == at[t].agent
  <1>1. /\ i \in Agents /\ i \in Nat /\ i \in aborted /\ stopped \in SUBSET Agents
        /\ stopped' = stopped \cup {i} /\ StopFrom(t, i, stopped)
        /\ UNCHANGED <<cachePhase, started, failed, lateStarts, stage>>
    BY HostAssumption DEF StopSettles, HostInv, HostTypeOK, StopsAborted, Hooks, NoHook, Agents,
       HostAssumption
  <1>2. /\ at' \in [Threads -> Hooks] /\ aborted' \subseteq Agents
        /\ stopCalls' \in [Agents -> Nat] /\ aborted \subseteq aborted'
        /\ \A u \in Threads \ {t} : at'[u] = at[u]
        /\ \/ at'[t] = NoHook /\ \A j \in Agents : j > i => j \in stopped
           \/ /\ at'[t].hook = "onStop" /\ at'[t].agent \in aborted' /\ at'[t].agent > i
              /\ \A j \in Agents : j > i /\ j < at'[t].agent => j \in stopped
    BY <1>1, StopFromAdvances
  <1>3. IInv' /\ TypeOK' BY SessionUntouched DEF StopSettles, sessionVars, HostInv, IInv, TypeOK
  <1>5. RuntimeProgress'
    <2>1. CASE t = "mailbox" BY <1>1, <1>2, <2>1 DEF HostInv, RuntimeProgress, Threads
    <2>2. CASE t = "runtime"
      <3>1. stage = "host_stopping"
        BY <2>2 DEF StopSettles, HostInv, HostTypeOK, RuntimeProgress, Stages, NoHook
      <3>2. \A j \in Agents : j <= i => j \in stopped'
        BY <1>1, <2>2, <3>1, HostAssumption
           DEF StopSettles, HostInv, RuntimeProgress, Agents, HostAssumption
      <3>3. \A j \in Agents : j \in Nat BY HostAssumption DEF Agents, HostAssumption
      <3>4. CASE at'[t] = NoHook /\ \A j \in Agents : j > i => j \in stopped
        BY <1>1, <2>2, <3>1, <3>2, <3>3, <3>4 DEF RuntimeProgress, NoHook
      <3>5. CASE /\ at'[t].hook = "onStop"
                 /\ \A j \in Agents : j > i /\ j < at'[t].agent => j \in stopped
        BY <1>1, <2>2, <3>1, <3>2, <3>3, <3>5 DEF RuntimeProgress
      <3> QED BY <1>2, <3>4, <3>5
    <2> QED BY <2>1, <2>2 DEF Threads
  <1> QED BY <1>3, <1>5, <1>1, <1>2 DEF HostInv, HostTypeOK, StopsAborted, NoHook

LEMMA ShutdownInv ==
  ASSUME HostInv, StopTransport \/ Shutdown
  PROVE  HostInv'
  <1>1. CASE StopTransport
    BY <1>1, SessionUntouched DEF StopTransport, HostInv, IInv, TypeOK, hostOwn, HostTypeOK,
        RuntimeProgress, StopsAborted, Stages
  <1>2. CASE StopHost
    <2>1. IInv' /\ TypeOK' BY <1>2, SessionUntouched DEF StopHost, HostInv, IInv, TypeOK
    <2>2. /\ at' \in [Threads -> Hooks] /\ aborted' \subseteq Agents
          /\ stopCalls' \in [Agents -> Nat] /\ aborted \subseteq aborted'
          /\ at'["mailbox"] = at["mailbox"]
          /\ \/ at'["runtime"] = NoHook /\ \A j \in Agents : j > 0 => j \in stopped
             \/ /\ at'["runtime"].hook = "onStop" /\ at'["runtime"].agent \in aborted'
                /\ \A j \in Agents : j > 0 /\ j < at'["runtime"].agent => j \in stopped
      BY <1>2, StopFromAdvances DEF StopHost, HostInv, HostTypeOK, Threads
    <2>3. \A j \in Agents : j > 0 BY HostAssumption DEF Agents, HostAssumption
    <2> QED
      BY <1>2, <2>1, <2>2, <2>3 DEF StopHost, HostInv, HostTypeOK, RuntimeProgress,
         StopsAborted, Stages, Threads, NoHook
  <1>3. CASE StopLast
    BY <1>3, SessionAssumption, StopIInv DEF StopLast, HostInv, IInv, hostOwn, HostTypeOK,
        RuntimeProgress, StopsAborted, Stages, NoHook
  <1> QED BY <1>1, <1>2, <1>3 DEF Shutdown

\* The invariant holds throughout every run of the composition.
THEOREM HostInductive == HostSpec => []HostInv
  <1>1. HostInit => HostInv BY HostInitInv
  <1>2. HostInv /\ [HostNext]_vars => HostInv'
    <2>1. ASSUME HostInv, UNCHANGED vars
          PROVE  HostInv'
      BY <2>1, StutterIInv DEF vars, HostInv, IInv, hostOwn, HostTypeOK, RuntimeProgress,
          StopsAborted
    <2> QED
      BY <2>1, SessionStepInv, HostHandleInv, StartSettlesInv, StopSettlesInv, ShutdownInv
         DEF HostNext, HookSettles
  <1> QED BY <1>1, <1>2, PTL DEF HostSpec

\* The fields of the host and of the SessionActor keep their types.
THEOREM HostTypeCorrect == HostSpec => []HostTypeOK
  <1>1. HostInv => HostTypeOK BY DEF HostInv
  <1> QED BY <1>1, HostInductive, PTL

\* Once the runtime is down, every agent is aborted and stopped.
THEOREM ShutdownComplete == HostSpec => []ShutdownStopsAgents
  <1>1. HostInv => ShutdownStopsAgents
    BY DEF HostInv, RuntimeProgress, StopsAborted, ShutdownStopsAgents
  <1> QED BY <1>1, HostInductive, PTL

-----------------------------------------------------------------------------
(* The telephone: the calls a session makes and the calls it takes.        *)

HumanFields ==
  {"agent", "bridge", "sid", "server", "phone", "stream", "wired", "connects", "ends", "asks",
   "errors", "unheard"}

\* A stream opens once, and only its end is told; a bridge that ended without a call
\* that nobody could hang up has no call on any more; an agent that left has disposed
\* of its bridge, whose server it stopped.
HumanSound(h) ==
  /\ DOMAIN h = HumanFields
  /\ h.connects \in {0, 1} /\ h.ends \in {0, 1} /\ h.asks \in Nat /\ h.unheard \in BOOLEAN
  /\ h.phone \in {"none", "ringing"} => h.connects = 0 /\ h.stream = "none"
  /\ h.stream = "none" => h.ends = 0
  /\ h.stream = "open" => h.connects = 1 /\ h.ends = 0
  /\ h.ends = 1 => h.connects = 1 /\ h.asks # 0
  /\ h.wired => h.connects = 1
  /\ h.bridge \in {"ended", "disposed"} /\ h.unheard = FALSE => h.phone \in {"none", "over"}
  /\ h.bridge = "disposed" => h.agent = "left"
  /\ h.agent = "left" => h.bridge = "disposed" /\ ~h.server /\ h.stream # "open"

\* Nobody is called at first.
LEMMA HumanInitSound ==
  ASSUME HumanInit
  PROVE  HumanSound(human)
BY DEF HumanInit, HumanSound, HumanFields

\* Every action of the agent, its bridge, the phone and the stream.
LEMMA HumanStep ==
  ASSUME HumanSound(human), HumanNext
  PROVE  HumanSound(human')
<1>1. CASE EnterHuman BY <1>1 DEF EnterHuman, HumanSound, HumanFields
<1>2. CASE Dial BY <1>2 DEF Dial, HumanSound, HumanFields
<1>3. CASE TwilioCalls BY <1>3 DEF TwilioCalls, HumanSound, HumanFields
<1>4. CASE DialReturns BY <1>4 DEF DialReturns, HumanSound, HumanFields
<1>5. CASE DialFails BY <1>5 DEF DialFails, AskBack, HumanSound, HumanFields
<1>6. CASE StreamStarts BY <1>6 DEF StreamStarts, HumanSound, HumanFields
<1>7. CASE PhoneEnds BY <1>7 DEF PhoneEnds, HumanSound, HumanFields
<1>8. CASE MediaFails BY <1>8 DEF MediaFails, AskBack, HumanSound, HumanFields
<1>9. CASE LeaveHuman BY <1>9 DEF LeaveHuman, HumanSound, HumanFields
<1>10. CASE StreamStops BY <1>10 DEF StreamStops, AskBack, HumanSound, HumanFields
<1>11. CASE HangUpHuman BY <1>11 DEF HangUpHuman, HumanSound, HumanFields
<1>12. CASE DisposeBridge BY <1>12 DEF DisposeBridge, HumanSound, HumanFields
<1> QED BY <1>1, <1>2, <1>3, <1>4, <1>5, <1>6, <1>7, <1>8, <1>9, <1>10, <1>11, <1>12
        DEF HumanNext, HumanBridgeSteps

InboundFields ==
  {"nonce", "sid", "twilio", "agent", "timer", "phone", "stream", "conn", "cutOff", "misheard"}

InboundTyped(i) ==
  /\ DOMAIN i = InboundFields
  /\ i.nonce \in {0} \cup InboundCalls
  /\ DOMAIN i.phone = InboundCalls /\ DOMAIN i.stream = InboundCalls
          /\ DOMAIN i.conn = InboundCalls

\* What is held is of the call that was admitted.
Held(i) == i.twilio \in {0, i.nonce} /\ i.agent \in {0, i.nonce} /\ i.timer \in {0, i.nonce}

\* No connection that is to be used is forgotten.
Connected(i) == \A c \in InboundCalls : i.conn[c] \in {"connecting", "open"} => i.agent = c

\* The stream of a call that goes on is the one held, unless somebody ended it, and
\* the timer waits for one that is closing.
Streaming(i) ==
  /\ \A c \in InboundCalls :
       /\ i.phone[c] = "none" => i.stream[c] = "none"
       /\ i.stream[c] = "open" /\ i.phone[c] = "on" /\ ~i.cutOff => i.nonce = c /\ i.twilio = c
  /\ i.timer # 0 => i.stream[i.timer] \notin {"none", "open"}

InboundSound(i) == InboundTyped(i) /\ Held(i) /\ Connected(i) /\ Streaming(i)

\* No call has the number that stands for none.
LEMMA InboundCallsPositive == \A c \in InboundCalls : c # 0
BY PhoneCallsAssumption DEF InboundCalls

\* No call has come at first.
LEMMA InboundInitSound ==
  ASSUME InboundInit
  PROVE  InboundSound(inbound)
BY InboundCallsPositive DEF InboundInit, InboundSound, InboundTyped, InboundFields, Held,
   Connected, Streaming

\* A reset holds nothing, and closes the connection that was held.
LEMMA ResetForIs ==
  ASSUME NEW i, InboundTyped(i), Held(i), Connected(i), NEW c \in InboundCalls
  PROVE  LET y == ResetFor(i, c) IN
         /\ InboundTyped(y) /\ Held(y) /\ Connected(y) /\ y.timer = 0 /\ y.nonce = 0
         /\ y.phone = i.phone /\ y.stream = i.stream
         /\ ~y.cutOff => ~i.cutOff /\ ~(i.nonce \notin {0, c} /\ i.phone[i.nonce] = "on")
<1> DEFINE a == CloseAgent(i)
           r == ResetCallState(i)
           y == ResetFor(i, c)
<1>1. /\ DOMAIN a = InboundFields /\ a.phone = i.phone /\ a.stream = i.stream
      /\ a.cutOff = i.cutOff /\ DOMAIN a.conn = InboundCalls
  BY DEF CloseAgent, InboundTyped, InboundFields
<1>2. \A d \in InboundCalls : a.conn[d] \notin {"connecting", "open"}
  <2>1. CASE i.agent = 0 BY <2>1, InboundCallsPositive DEF CloseAgent, Connected
  <2>2. CASE i.agent # 0
    <3> DEFINE m == i.agent
               f == CASE i.conn[m] = "open" -> "closing" [] i.conn[m] = "connecting" -> "closed"
                      [] OTHER -> i.conn[m]
    <3>1. m \in InboundCalls BY <2>2 DEF Held, InboundTyped
    <3>2. a.conn = [i.conn EXCEPT ![m] = f] BY <2>2 DEF CloseAgent, InboundTyped, InboundFields
    <3>3. f \notin {"connecting", "open"} OBVIOUS
    <3> HIDE DEF a, m, f
    <3> QED BY <3>1, <3>2, <3>3 DEF InboundTyped, Connected, m
  <2> QED BY <2>1, <2>2
<1> HIDE DEF a
<1>3. /\ DOMAIN r = InboundFields /\ r.phone = a.phone /\ r.stream = a.stream /\ r.conn = a.conn
      /\ r.cutOff = a.cutOff /\ r.nonce = 0 /\ r.twilio = 0 /\ r.agent = 0 /\ r.timer = 0
  BY <1>1 DEF ResetCallState, InboundFields, a
<1> HIDE DEF r
<1>4. /\ DOMAIN y = InboundFields /\ y.phone = r.phone /\ y.stream = r.stream /\ y.conn = r.conn
      /\ y.nonce = 0 /\ y.twilio = 0 /\ y.agent = 0 /\ y.timer = 0
      /\ y.cutOff = (r.cutOff \/ (i.nonce \notin {0, c} /\ i.phone[i.nonce] = "on"))
  BY <1>3 DEF ResetFor, InboundFields, r
<1> HIDE DEF y
<1> QED BY <1>1, <1>3, <1>4, <1>2 DEF y, InboundTyped, Held, Connected

\* A call is admitted, or turned away while one goes on.
LEMMA HandleVoiceStep ==
  ASSUME InboundSound(inbound), HandleVoice
  PROVE  InboundSound(inbound')
BY InboundCallsPositive
   DEF HandleVoice, InboundSound, InboundTyped, InboundFields, Held, Connected, Streaming

\* The caller is gone before anybody is told.
LEMMA CallerHangsUpStep ==
  ASSUME InboundSound(inbound), CallerHangsUp
  PROVE  InboundSound(inbound')
BY InboundCallsPositive
   DEF CallerHangsUp, InboundSound, InboundTyped, InboundFields, Held, Connected, Streaming

\* Steps of one connection to its agent.
LEMMA PlainStep ==
  ASSUME InboundSound(inbound), StatusInitiated \/ AgentOpens \/ AgentSays
  PROVE  InboundSound(inbound')
BY InboundCallsPositive
   DEF StatusInitiated, AgentOpens, AgentSays, InboundSound, InboundTyped, InboundFields, Held,
       Connected, Streaming

\* The status callback of an ended call.
LEMMA StatusTerminalStep ==
  ASSUME InboundSound(inbound), StatusTerminal
  PROVE  InboundSound(inbound')
<1>1. PICK c \in InboundCalls :
        /\ inbound.phone[c] \in {"off", "rejected"}
        /\ LET over == [inbound EXCEPT !.phone[c] = "over"]
           IN inbound' = IF inbound.sid \in {0, c} THEN ResetFor(over, c) ELSE over
  BY DEF StatusTerminal
<1> DEFINE over == [inbound EXCEPT !.phone[c] = "over"]
           y == ResetFor(over, c)
<1>2. /\ InboundTyped(over) /\ Held(over) /\ Connected(over) /\ Streaming(over)
      /\ over.phone[c] = "over" /\ over.nonce = inbound.nonce
  BY <1>1 DEF InboundSound, InboundTyped, InboundFields, Held, Connected, Streaming
<1> HIDE DEF over
<1>3. /\ InboundTyped(y) /\ Held(y) /\ Connected(y) /\ y.timer = 0 /\ y.nonce = 0
      /\ y.phone = over.phone /\ y.stream = over.stream
      /\ ~y.cutOff => ~over.cutOff /\ ~(over.nonce \notin {0, c} /\ over.phone[over.nonce] = "on")
  BY <1>2, ResetForIs
<1>4. inbound' = y \/ inbound' = over BY <1>1 DEF over
<1> HIDE DEF y
<1>5. Streaming(y) BY <1>2, <1>3, InboundCallsPositive DEF Streaming
<1> QED BY <1>2, <1>3, <1>4, <1>5 DEF InboundSound

\* The media stream of the admitted call.
LEMMA InboundStreamStartsStep ==
  ASSUME InboundSound(inbound), InboundStreamStarts
  PROVE  InboundSound(inbound')
<1>1. PICK c \in InboundCalls :
        /\ inbound.phone[c] = "on" /\ inbound.stream[c] = "none"
        /\ inbound' = IF inbound.nonce # c THEN [inbound EXCEPT !.stream[c] = "closed"]
                      ELSE [inbound EXCEPT !.stream[c] = "open", !.twilio = c, !.agent = c,
                                           !.conn[c] = "connecting"]
  BY DEF InboundStreamStarts
<1>2. CASE inbound.nonce # c
  BY <1>1, <1>2, InboundCallsPositive
     DEF InboundSound, InboundTyped, InboundFields, Held, Connected, Streaming
<1>3. CASE inbound.nonce = c
  BY <1>1, <1>3, InboundCallsPositive
     DEF InboundSound, InboundTyped, InboundFields, Held, Connected, Streaming
<1> QED BY <1>2, <1>3

\* Its stop, and what it closes.
LEMMA InboundStreamStopsStep ==
  ASSUME InboundSound(inbound), InboundStreamStops
  PROVE  InboundSound(inbound')
<1>1. PICK c \in InboundCalls :
        /\ inbound.stream[c] = "open" /\ inbound.phone[c] # "on"
        /\ inbound' = ResetFor([inbound EXCEPT !.stream[c] = "stopped"], c)
  BY DEF InboundStreamStops
<1> DEFINE x == [inbound EXCEPT !.stream[c] = "stopped"]
           y == ResetFor(x, c)
<1>2. /\ InboundTyped(x) /\ Held(x) /\ Connected(x) /\ Streaming(x) /\ x.phone[c] # "on"
  BY <1>1 DEF InboundSound, InboundTyped, InboundFields, Held, Connected, Streaming
<1> HIDE DEF x
<1>3. /\ InboundTyped(y) /\ Held(y) /\ Connected(y) /\ y.timer = 0 /\ y.nonce = 0
      /\ y.phone = x.phone /\ y.stream = x.stream
      /\ ~y.cutOff => ~x.cutOff /\ ~(x.nonce \notin {0, c} /\ x.phone[x.nonce] = "on")
  BY <1>2, ResetForIs
<1>4. inbound' = y BY <1>1 DEF x
<1> HIDE DEF y
<1>5. Streaming(y) BY <1>2, <1>3, InboundCallsPositive DEF Streaming
<1> QED BY <1>3, <1>4, <1>5 DEF InboundSound

\* The close of a stream, of now or of an earlier call.
LEMMA InboundStreamClosesStep ==
  ASSUME InboundSound(inbound), InboundStreamCloses
  PROVE  InboundSound(inbound')
<1>1. PICK c \in InboundCalls :
        /\ inbound.stream[c] \in {"open", "stopped", "closing"}
        /\ LET closed == [inbound EXCEPT !.stream[c] = "closed"]
           IN inbound' = IF inbound.twilio = c THEN ResetFor(closed, c) ELSE closed
  BY DEF InboundStreamCloses
<1> DEFINE x == [inbound EXCEPT !.stream[c] = "closed"]
           y == ResetFor(x, c)
<1>2. /\ InboundTyped(x) /\ Held(x) /\ Connected(x) /\ Streaming(x) /\ x.stream[c] = "closed"
      /\ x.twilio = inbound.twilio
  BY <1>1 DEF InboundSound, InboundTyped, InboundFields, Held, Connected, Streaming
<1> HIDE DEF x
<1>3. /\ InboundTyped(y) /\ Held(y) /\ Connected(y) /\ y.timer = 0 /\ y.nonce = 0
      /\ y.phone = x.phone /\ y.stream = x.stream
      /\ ~y.cutOff => ~x.cutOff /\ ~(x.nonce \notin {0, c} /\ x.phone[x.nonce] = "on")
  BY <1>2, ResetForIs
<1>4. (inbound' = y /\ x.twilio = c) \/ inbound' = x BY <1>1, <1>2 DEF x
<1> HIDE DEF y
<1> QED BY <1>2, <1>3, <1>4, InboundCallsPositive DEF InboundSound, Streaming, Held

\* The stream that is held is closed, if it was open.
LEMMA CloseStreamIs ==
  ASSUME NEW i, InboundSound(i)
  PROVE  LET y == CloseStream(i) IN
         /\ InboundSound(y) /\ y.nonce = i.nonce /\ y.agent = i.agent /\ y.twilio = i.twilio
         /\ y.conn = i.conn /\ y.timer = i.timer
         /\ y.twilio # 0 => y.stream[y.twilio] # "open" /\ y.stream[y.twilio] =
              IF i.stream[i.twilio] = "open" THEN "closing" ELSE i.stream[i.twilio]
BY InboundCallsPositive
   DEF CloseStream, InboundSound, InboundTyped, InboundFields, Held, Connected, Streaming

\* The connection to the agent closes.
LEMMA AgentClosesStep ==
  ASSUME InboundSound(inbound), AgentCloses
  PROVE  InboundSound(inbound')
<1>1. PICK c \in InboundCalls :
        /\ inbound.conn[c] \in {"open", "closing"}
        /\ LET gone == [inbound EXCEPT !.conn[c] = "closed"]
               open == inbound.twilio # 0 /\ inbound.stream[inbound.twilio] = "open"
           IN inbound' = IF inbound.agent # c THEN gone
                         ELSE [CloseStream(gone) EXCEPT !.agent = 0,
                           !.timer = IF open THEN c ELSE @]
  BY DEF AgentCloses
<1> DEFINE gone == [inbound EXCEPT !.conn[c] = "closed"]
           s == CloseStream(gone)
           open == inbound.twilio # 0 /\ inbound.stream[inbound.twilio] = "open"
           y == [s EXCEPT !.agent = 0, !.timer = IF open THEN c ELSE @]
<1>2. /\ InboundSound(gone) /\ gone.conn[c] = "closed" /\ gone.agent = inbound.agent
      /\ gone.twilio = inbound.twilio /\ gone.stream = inbound.stream
  BY <1>1, InboundCallsPositive
     DEF InboundSound, InboundTyped, InboundFields, Held, Connected, Streaming
<1>3. inbound' = gone \/ (inbound' = y /\ inbound.agent = c) BY <1>1
<1> HIDE DEF gone
<1>4. /\ InboundSound(s) /\ s.nonce = gone.nonce /\ s.agent = gone.agent /\ s.twilio = gone.twilio
      /\ s.conn = gone.conn /\ s.timer = gone.timer
      /\ s.twilio # 0 => s.stream[s.twilio] # "open" /\ s.stream[s.twilio] =
           IF gone.stream[gone.twilio] = "open" THEN "closing" ELSE gone.stream[gone.twilio]
  BY <1>2, CloseStreamIs
<1> HIDE DEF s
<1>5. ASSUME inbound.agent = c PROVE InboundSound(y)
  <2>1. /\ DOMAIN y = InboundFields /\ y.nonce = s.nonce /\ y.twilio = s.twilio /\ y.agent = 0
        /\ y.phone = s.phone /\ y.stream = s.stream /\ y.conn = s.conn /\ y.cutOff = s.cutOff
        /\ y.timer = IF open THEN c ELSE s.timer
    BY <1>4 DEF InboundSound, InboundTyped, InboundFields
  <2> HIDE DEF y
  <2>2. s.nonce = c BY <1>2, <1>4, <1>5, InboundCallsPositive DEF InboundSound, Held
  <2> QED BY <1>4, <2>1, <2>2, <1>2, <1>5 DEF InboundSound, InboundTyped, Held, Connected, Streaming
<1> QED BY <1>2, <1>3, <1>5

\* The connection to the agent fails.
LEMMA AgentErrorsStep ==
  ASSUME InboundSound(inbound), AgentErrors
  PROVE  InboundSound(inbound')
<1>1. PICK c \in InboundCalls :
        inbound' = ResetFor(CloseStream([inbound EXCEPT !.conn[c] = "closed"]), c)
  BY DEF AgentErrors
<1> DEFINE gone == [inbound EXCEPT !.conn[c] = "closed"]
           x == CloseStream(gone)
           y == ResetFor(x, c)
<1>2. InboundSound(gone)
  BY InboundCallsPositive
     DEF InboundSound, InboundTyped, InboundFields, Held, Connected, Streaming
<1>3. inbound' = y BY <1>1
<1> HIDE DEF gone
<1>4. InboundSound(x) /\ (x.twilio # 0 => x.stream[x.twilio] # "open") BY <1>2, CloseStreamIs
<1> HIDE DEF x
<1>5. /\ InboundTyped(y) /\ Held(y) /\ Connected(y) /\ y.timer = 0 /\ y.nonce = 0
      /\ y.phone = x.phone /\ y.stream = x.stream
      /\ ~y.cutOff => ~x.cutOff /\ ~(x.nonce \notin {0, c} /\ x.phone[x.nonce] = "on")
  BY <1>4, ResetForIs DEF InboundSound
<1> HIDE DEF y
<1> QED BY <1>3, <1>5, <1>4, InboundCallsPositive DEF InboundSound, Streaming

\* The timer of a call whose agent is gone.
LEMMA CleanupTimerStep ==
  ASSUME InboundSound(inbound), CleanupTimerFires
  PROVE  InboundSound(inbound')
<1> DEFINE c == inbound.timer
           y == ResetFor(inbound, c)
           z == [inbound EXCEPT !.timer = 0]
<1>1. c # 0 /\ (inbound' = y \/ inbound' = z) BY DEF CleanupTimerFires
<1>2. c \in InboundCalls /\ inbound.nonce = c BY <1>1 DEF InboundSound, InboundTyped, Held
<1>3. InboundSound(z) BY DEF InboundSound, InboundTyped, InboundFields, Held, Connected, Streaming
<1>4. inbound.stream[c] # "open" BY <1>1 DEF InboundSound, Streaming
<1> HIDE DEF c, z
<1>5. /\ InboundTyped(y) /\ Held(y) /\ Connected(y) /\ y.timer = 0 /\ y.nonce = 0
      /\ y.phone = inbound.phone /\ y.stream = inbound.stream
      /\ ~y.cutOff => ~inbound.cutOff /\ ~(inbound.nonce \notin {0, c}
              /\ inbound.phone[inbound.nonce] = "on")
  BY <1>2, ResetForIs DEF InboundSound
<1> HIDE DEF y
<1> QED BY <1>1, <1>3, <1>5, <1>2, <1>4, InboundCallsPositive DEF InboundSound, Streaming

\* The invariants of both kinds of call are inductive, for any number of calls.
THEOREM PhoneCallsInductive == PhoneCallsSpec => [](HumanSound(human) /\ InboundSound(inbound))
<1> DEFINE Inv == HumanSound(human) /\ InboundSound(inbound)
<1>1. PhoneCallsInit => Inv BY HumanInitSound, InboundInitSound DEF PhoneCallsInit
<1>2. Inv /\ [(HumanNext /\ UNCHANGED inbound) \/ (InboundNext /\ UNCHANGED human)]_phoneVars
      => Inv'
  <2> SUFFICES ASSUME Inv, [(HumanNext /\ UNCHANGED inbound)
               \/ (InboundNext /\ UNCHANGED human)]_phoneVars
               PROVE  HumanSound(human') /\ InboundSound(inbound')
    OBVIOUS
  <2>1. CASE HumanNext /\ UNCHANGED inbound BY <2>1, HumanStep
  <2>2. CASE InboundNext /\ UNCHANGED human
    BY <2>2, HandleVoiceStep, CallerHangsUpStep, PlainStep, StatusTerminalStep,
       InboundStreamStartsStep, InboundStreamStopsStep, InboundStreamClosesStep, AgentClosesStep,
       AgentErrorsStep, CleanupTimerStep DEF InboundNext
  <2>3. CASE UNCHANGED phoneVars BY <2>3 DEF phoneVars
  <2> QED BY <2>1, <2>2, <2>3
<1> QED BY <1>1, <1>2, PTL DEF PhoneCallsSpec

\* A bridge that reported its end has no call left on, unless nobody heard of it, and no
\* stream outlives its agent; a call that goes on has the one stream that is open: the
\* property PhoneCallsAreKeptApart.
THEOREM PhoneCallsKept == PhoneCallsSpec => []PhoneCallsAreKeptApart
<1>1. HumanSound(human) => HumanCallIsBooked BY DEF HumanSound, HumanCallIsBooked
<1>2. InboundSound(inbound) => InboundIsOneCall
  <2> SUFFICES ASSUME InboundSound(inbound) PROVE InboundIsOneCall OBVIOUS
  <2> DEFINE S == {c \in InboundCalls : inbound.stream[c] = "open" /\ inbound.phone[c] = "on"
                                        /\ ~inbound.cutOff}
  <2>2. Cardinality(S) <= 1
    <3>1. Cardinality({}) = 0 /\ Cardinality({inbound.nonce}) = 1 BY FS_EmptySet, FS_Singleton
    <3> QED BY <3>1 DEF InboundSound, Streaming
  <2> QED BY <2>2 DEF InboundSound, Held, Connected, InboundIsOneCall
<1> QED BY <1>1, <1>2, PhoneCallsInductive, PTL DEF PhoneCallsAreKeptApart

-----------------------------------------------------------------------------
(* The scheduling of the actors.                                           *)

\* Mailboxes, and the envelopes that one holds.
Boxes == [listed : BOOLEAN, queue : Seq(Nat), handling : SUBSET Nat, stops : Nat, starts : Nat,
          stamps : SUBSET Nat, granted : Seq(Nat)]

InBox(b) == b.handling \cup {b.queue[i] : i \in DOMAIN b.queue}

InBoxes(bs) == UNION {InBox(bs[a]) : a \in Ids}

\* The grants that a window ending at t holds.
Granted(b, t) == {i \in 1..Len(b.granted) : b.granted[i] <= t /\ t - b.granted[i] < RestartWindow}

\* One envelope is handled at a time, before those that wait, in order, and
\* none is newer than the newest sent.
Serial(b, sent) ==
  /\ \A m, n \in b.handling : m = n
  /\ \A n \in b.handling : \A i \in 1..Len(b.queue) : n < b.queue[i]
  /\ \A i, j \in 1..Len(b.queue) : i < j => b.queue[i] < b.queue[j]
  /\ \A n \in InBox(b) : n \in 1..sent

\* The supervisor counts every grant of the window that ends now.
Counted(b, now) ==
  /\ \A i \in 1..Len(b.granted) :
       b.granted[i] <= now /\ (now - b.granted[i] < RestartWindow => i \in b.stamps)
  /\ b.stamps \subseteq 1..Len(b.granted)
  /\ \A t \in Nat : Cardinality(Granted(b, t)) <= MaxActorRestarts

BoxSound(b, sent, now) ==
  /\ b \in Boxes /\ Serial(b, sent) /\ Counted(b, now)
  /\ b.queue # <<>> => b.handling # {}

\* No two mailboxes hold an envelope, and with what was handled or was never
\* delivered they hold all that was sent.
Accounted(bs, m) ==
  /\ m \in [sent : Nat, dead : Nat, done : Nat] /\ m.sent <= MaxMail
  /\ \A a, b \in Ids : a # b => InBox(bs[a]) \cap InBox(bs[b]) = {}
  /\ Cardinality(InBoxes(bs)) + m.dead + m.done = m.sent

AllSound(bs, m, now) ==
  /\ DOMAIN bs = Ids /\ bs = [a \in Ids |-> bs[a]]
  /\ \A a \in Ids : BoxSound(bs[a], m.sent, now)
  /\ Accounted(bs, m)

Transfers ==
  [active : DeskAgents, to : DeskAgents, wire : DeskAgents, asked : Nat, completed : Nat,
   failed : Nat, thrown : Nat, queue : Seq(DeskAgents \cup {Stranger}), step : {"idle", "exit", "enter"}]

\* The inductive invariant of the runtime, its main agent and its gateway.
SchedInv ==
  /\ clock \in Nat
  /\ policies \in [Ids -> Actions]
  /\ orch \in [phase : {"new", "starting", "running", "stopping", "stopped"}, at : 0..NumActors]
  /\ AllSound(boxes, mail, clock)

DeskInv ==
  /\ desk \in Transfers /\ TransfersAreAnswered
  /\ gateway \in [notified : SUBSET GatewayCalls, told : [GatewayCalls -> Nat]]
  /\ \A c \in GatewayCalls : gateway.told[c] = IF c \in gateway.notified THEN 1 ELSE 0

ActorsInv == SchedInv /\ DeskInv

\* What a mailbox holds is finite.
LEMMA BoxesAreFinite ==
  ASSUME NEW bs, NEW m, NEW now, AllSound(bs, m, now)
  PROVE  /\ IsFiniteSet(InBoxes(bs))
         /\ \A a \in Ids : \A n \in InBox(bs[a]) : n \in 1..m.sent
         /\ m.sent \in Nat
<1>1. m.sent \in Nat BY DEF AllSound, Accounted
<1>4. IsFiniteSet(1..m.sent) BY <1>1, FS_Interval
<1> QED BY <1>1, <1>4, FS_Subset DEF InBoxes, AllSound, BoxSound, Serial

\* The next envelope is handled when none is.
LEMMA ProcessNextSound ==
  ASSUME NEW b \in Boxes, NEW sent \in Nat, NEW now \in Nat, Serial(b, sent), Counted(b, now),
         b.handling = {}, NEW y, y = ProcessNext(b)
  PROVE  BoxSound(y, sent, now) /\ InBox(y) = InBox(b) /\ y.listed = b.listed
<1>1. CASE b.queue = <<>> BY <1>1 DEF ProcessNext, BoxSound
<1>2. CASE b.queue # <<>>
  <2> DEFINE q == Tail(b.queue)
             n == Head(b.queue)
  <2>1. b.queue \in Seq(Nat) BY DEF Boxes
  <2>2. /\ q \in Seq(Nat) /\ Len(q) = Len(b.queue) - 1 /\ n = b.queue[1] /\ n \in Nat
        /\ \A i \in 1..Len(q) : q[i] = b.queue[i + 1]
        /\ Len(b.queue) \in Nat /\ Len(b.queue) >= 1
    BY <1>2, <2>1, HeadTailProperties, LenProperties, EmptySeq
  <2>3. y = [b EXCEPT !.handling = {n}, !.queue = q] BY <1>2 DEF ProcessNext, Boxes
  <2> HIDE DEF q, n
  <2> DEFINE h == {n}
  <2>0. y = [b EXCEPT !.handling = h, !.queue = q] /\ h \in SUBSET Nat BY <2>2, <2>3
  <2> HIDE DEF h
  <2>4. y \in Boxes /\ y.handling = h /\ y.queue = q /\ y.listed = b.listed
        /\ y.granted = b.granted /\ y.stamps = b.stamps
    BY <2>0, <2>2 DEF Boxes
  <2> USE DEF h
  <2>5. \A k : k \in InBox(b) <=> \E i \in 1..Len(b.queue) : b.queue[i] = k
    BY <2>1, LenProperties DEF InBox
  <2>6. \A k : k \in InBox(y) <=> k = n \/ \E i \in 1..Len(q) : q[i] = k
    BY <2>2, <2>4, LenProperties DEF InBox
  <2>7. \A k : k \in InBox(b) <=> k \in InBox(y)
    <3>1. ASSUME NEW i \in 1..Len(b.queue) PROVE b.queue[i] \in InBox(y)
      <4>1. CASE i = 1 BY <4>1, <2>2, <2>6
      <4>2. CASE i # 1
        <5>1. i - 1 \in 1..Len(q) /\ q[i - 1] = b.queue[i - 1 + 1] /\ i - 1 + 1 = i BY <4>2, <2>2
        <5> QED BY <5>1, <2>6
      <4> QED BY <4>1, <4>2
    <3>2. ASSUME NEW i \in 1..Len(q) PROVE q[i] \in InBox(b)
      <4> DEFINE j == i + 1
      <4>1. b.queue[j] = q[i] /\ j \in 1..Len(b.queue) BY <2>2
      <4> HIDE DEF j
      <4> QED BY <2>5, <4>1
    <3>3. n \in InBox(b) BY <2>2, <2>5
    <3> QED BY <3>1, <3>2, <3>3, <2>5, <2>6
  <2>8. Serial(y, sent)
    <3>1. \A i, j \in 1..Len(b.queue) : i < j => b.queue[i] < b.queue[j] BY DEF Serial
    <3>4. \A k \in InBox(y) : k \in 1..sent BY <2>7 DEF Serial
    <3> QED BY <2>4, <3>4, <2>2, <3>1 DEF Serial
  <2>10. InBox(y) = InBox(b) BY <2>7
  <2> QED BY <2>4, <2>8, <2>10 DEF BoxSound, Counted, Granted
<1> QED BY <1>1, <1>2

\* A new envelope is put into a mailbox.
LEMMA PutSound ==
  ASSUME NEW b, NEW sent \in Nat, NEW now \in Nat, BoxSound(b, sent, now), NEW n, n = sent + 1,
         NEW y, y = Put(b, n)
  PROVE  BoxSound(y, n, now) /\ InBox(y) = InBox(b) \cup {n} /\ y.listed = b.listed
<1> DEFINE q == Append(b.queue, n)
           p == [b EXCEPT !.queue = q]
<1>1. b \in Boxes /\ b.queue \in Seq(Nat) /\ Serial(b, sent) /\ Counted(b, now)
  BY DEF BoxSound, Boxes
<1>0. n \in Nat OBVIOUS
<1>2. /\ q \in Seq(Nat) /\ Len(q) = Len(b.queue) + 1 /\ q[Len(b.queue) + 1] = n
      /\ \A i \in 1..Len(b.queue) : q[i] = b.queue[i]
      /\ Len(b.queue) \in Nat /\ q # <<>>
  <2>1. q \in Seq(Nat) /\ Len(q) = Len(b.queue) + 1 /\ q[Len(b.queue) + 1] = n
        /\ \A i \in 1..Len(b.queue) : q[i] = b.queue[i]
    BY <1>0, <1>1, AppendProperties
  <2>2. Len(b.queue) \in Nat BY <1>1, LenProperties
  <2>3. q # <<>>
    <3>1. Len(q) # 0 BY <2>1, <2>2
    <3> QED BY <2>1, <3>1, EmptySeq
  <2> QED BY <2>1, <2>2, <2>3
<1>3. y = IF b.handling = {} THEN ProcessNext(p) ELSE p BY DEF Put
<1> HIDE DEF q
<1>4. p \in Boxes /\ p.queue = q /\ p.handling = b.handling /\ p.listed = b.listed
      /\ p.granted = b.granted /\ p.stamps = b.stamps
  BY <1>1, <1>2 DEF Boxes
<1> HIDE DEF p
<1>5. InBox(p) = InBox(b) \cup {n}
  <2>1. \A k : k \in InBox(b) <=> k \in b.handling \/ \E i \in 1..Len(b.queue) : b.queue[i] = k
    BY <1>1, LenProperties DEF InBox
  <2>2. \A k : k \in InBox(p) <=> k \in b.handling \/ \E i \in 1..Len(q) : q[i] = k
    BY <1>2, <1>4, LenProperties DEF InBox
  <2>3. \A k : (\E i \in 1..Len(q) : q[i] = k) <=> k = n
        \/ \E i \in 1..Len(b.queue) : b.queue[i] = k
    <3>1. \A i \in 1..Len(q) : i = Len(b.queue) + 1 \/ i \in 1..Len(b.queue) BY <1>2
    <3>2. Len(b.queue) + 1 \in 1..Len(q) /\ \A i \in 1..Len(b.queue) : i \in 1..Len(q) BY <1>2
    <3> QED BY <1>2, <3>1, <3>2
  <2> QED BY <2>1, <2>2, <2>3
<1>6. Serial(p, n)
  <2>1. \A k \in InBox(b) : k \in 1..sent BY <1>1 DEF Serial
  <2>2. \A k \in InBox(p) : k \in 1..n BY <2>1, <1>5
  <2>3. \A i \in 1..Len(b.queue) : b.queue[i] < n
    <3>1. \A i \in 1..Len(b.queue) : b.queue[i] \in InBox(b) BY <1>1, LenProperties DEF InBox
    <3> QED BY <2>1, <3>1
  <2>4. \A k \in b.handling : k < n BY <2>1 DEF InBox
  <2>5. \A i \in 1..Len(q) : i = Len(b.queue) + 1 \/ i \in 1..Len(b.queue) BY <1>2
  <2>6. \A k \in b.handling : \A i \in 1..Len(q) : k < q[i] BY <1>1, <1>2, <2>4, <2>5 DEF Serial
  <2>7. \A i, j \in 1..Len(q) : i < j => q[i] < q[j]
    <3> SUFFICES ASSUME NEW i \in 1..Len(q), NEW j \in 1..Len(q), i < j PROVE q[i] < q[j] OBVIOUS
    <3>4. i \in 1..Len(b.queue) BY <1>2, <2>5
    <3>1. i \in 1..Len(b.queue) /\ q[i] = b.queue[i] BY <1>2, <3>4
    <3>2. CASE j = Len(b.queue) + 1 BY <1>2, <2>3, <3>1, <3>2
    <3>3. CASE j \in 1..Len(b.queue) BY <1>1, <1>2, <3>1, <3>3 DEF Serial
    <3> QED BY <2>5, <3>2, <3>3
  <2> QED BY <1>4, <2>2, <2>6, <2>7, <1>1 DEF Serial
<1>7. Counted(p, now) BY <1>1, <1>4 DEF Counted, Granted
<1>8. CASE b.handling = {} BY <1>3, <1>4, <1>8, <1>5, <1>6, <1>7, ProcessNextSound
<1>9. CASE b.handling # {} BY <1>3, <1>4, <1>5, <1>6, <1>7, <1>9 DEF BoxSound
<1> QED BY <1>8, <1>9

\* An envelope is sent: it joins a mailbox, or is a dead letter.
LEMMA SendToSound ==
  ASSUME SchedulingAssumption, NEW bs, NEW m, NEW now \in Nat, AllSound(bs, m, now),
         NEW a \in Ids,
         m.sent < MaxMail, NEW z, z = SendTo(bs, m, a)
  PROVE  AllSound(z.boxes, z.mail, now) /\ \A c \in Ids : z.boxes[c].listed = bs[c].listed
<1> DEFINE n == m.sent + 1
           y == Put(bs[a], n)
           held == InBoxes(bs)
<1>1. /\ IsFiniteSet(held) /\ m.sent \in Nat /\ n \in Nat /\ MaxMail \in Nat
      /\ \A c \in Ids : \A k \in InBox(bs[c]) : k \in 1..m.sent
  BY BoxesAreFinite DEF SchedulingAssumption
<1>2. /\ m \in [sent : Nat, dead : Nat, done : Nat] /\ DOMAIN bs = Ids
           /\ bs = [c \in Ids |-> bs[c]]
      /\ \A c \in Ids : BoxSound(bs[c], m.sent, now)
      /\ Cardinality(held) + m.dead + m.done = m.sent /\ Cardinality(held) \in Nat
  BY <1>1, FS_CardinalityType DEF AllSound, Accounted
<1>3. \A c \in Ids : BoxSound(bs[c], n, now)
  <2> SUFFICES ASSUME NEW c \in Ids PROVE BoxSound(bs[c], n, now) OBVIOUS
  <2>1. \A k \in InBox(bs[c]) : k \in 1..n BY <1>1
  <2> QED BY <1>2, <2>1 DEF BoxSound, Serial
<1>4. CASE bs[a].listed
  <2>1. z = [boxes |-> [bs EXCEPT ![a] = y], mail |-> [m EXCEPT !.sent = n]] BY <1>4 DEF SendTo
  <2>2. BoxSound(y, n, now) /\ InBox(y) = InBox(bs[a]) \cup {n} /\ y.listed = bs[a].listed
    <3>1. BoxSound(bs[a], m.sent, now) BY <1>2
    <3> HIDE DEF y
    <3> QED BY <1>1, <3>1, PutSound DEF y
  <2> DEFINE ys == z.boxes
             mm == z.mail
  <2> HIDE DEF y
  <2>3. /\ DOMAIN ys = Ids /\ ys = [c \in Ids |-> ys[c]] /\ ys[a] = y
        /\ \A c \in Ids : c # a => ys[c] = bs[c]
    <3>1. ys = [bs EXCEPT ![a] = y] BY <2>1
    <3> HIDE DEF ys, mm
    <3> QED BY <1>2, <3>1
  <2>4. mm \in [sent : Nat, dead : Nat, done : Nat] /\ mm.sent = n /\ mm.dead = m.dead
        /\ mm.done = m.done
    <3>1. mm = [m EXCEPT !.sent = n] BY <2>1
    <3> HIDE DEF ys, mm, n
    <3> QED BY <1>1, <1>2, <3>1
  <2> HIDE DEF ys, mm, n, held
  <2>5. \A c \in Ids : BoxSound(ys[c], n, now) BY <1>3, <2>2, <2>3
  <2>6. InBoxes(ys) = held \cup {n} /\ n \notin held BY <1>1, <2>2, <2>3 DEF n, held, InBoxes
  <2>7. Cardinality(InBoxes(ys)) = Cardinality(held) + 1 BY <1>1, <2>6, FS_AddElement
  <2>8. \A b, c \in Ids : b # c => InBox(ys[b]) \cap InBox(ys[c]) = {}
    <3> SUFFICES ASSUME NEW b \in Ids, NEW c \in Ids,
                 b # c PROVE InBox(ys[b]) \cap InBox(ys[c]) = {}
      OBVIOUS
    <3>1. InBox(bs[b]) \cap InBox(bs[c]) = {} BY DEF AllSound, Accounted
    <3>2. n \notin InBox(bs[b]) /\ n \notin InBox(bs[c]) BY <1>1 DEF n
    <3>3. \A x \in {b, c} : InBox(ys[x]) = IF x = a THEN InBox(bs[x]) \cup {n} ELSE InBox(bs[x])
      BY <2>2, <2>3
    <3>4. CASE b = a BY <3>3, <3>4, <3>1, <3>2
    <3>5. CASE b # a BY <3>3, <3>5, <3>1, <3>2
    <3> QED BY <3>4, <3>5
  <2>10. Accounted(ys, mm) BY <2>4, <2>7, <2>8, <1>1, <1>2 DEF Accounted, n
  <2> QED BY <2>3, <2>4, <2>5, <2>10, <2>2 DEF ys, mm, AllSound
<1>5. CASE ~bs[a].listed
  <2>1. z = [boxes |-> bs, mail |-> [m EXCEPT !.sent = n, !.dead = @ + 1]] BY <1>5 DEF SendTo
  <2> DEFINE mm == z.mail
  <2>2. z.boxes = bs BY <2>1
  <2>3. mm \in [sent : Nat, dead : Nat, done : Nat] /\ mm.sent = n /\ mm.dead = m.dead + 1
        /\ mm.done = m.done
    <3> DEFINE d == m.dead + 1
    <3>1. mm = [m EXCEPT !.sent = n, !.dead = d] /\ d \in Nat BY <1>2, <2>1
    <3> HIDE DEF mm, n, d
    <3> QED BY <1>1, <1>2, <3>1 DEF d
  <2> HIDE DEF mm, held
  <2>5. Accounted(bs, mm) BY <2>3, <1>1, <1>2 DEF Accounted, AllSound, held
  <2> HIDE DEF n
  <2> QED BY <2>2, <1>2, <1>3, <2>3, <2>5 DEF mm, AllSound
<1> QED BY <1>4, <1>5

\* An actor greets the first, when it is not the first.
LEMMA GreetingSound ==
  ASSUME SchedulingAssumption, NEW bs, NEW m, NEW now \in Nat, AllSound(bs, m, now),
         NEW a \in Ids,
         m.sent + (IF a > 1 THEN 1 ELSE 0) <= MaxMail, NEW z,
           z = Greeting(a, [boxes |-> bs, mail |-> m])
  PROVE  AllSound(z.boxes, z.mail, now)
<1>1. m.sent \in Nat /\ MaxMail \in Nat /\ NumActors \in Nat \ {0}
  BY DEF SchedulingAssumption, AllSound, Accounted
<1>2. CASE a > 1 BY <1>1, <1>2, SendToSound DEF Greeting, Ids
<1>3. CASE ~(a > 1) BY <1>3 DEF Greeting
<1> QED BY <1>2, <1>3

\* One mailbox changes, and keeps what it holds or gives up what was handled.
LEMMA BoxChanges ==
  ASSUME NEW bs, NEW m, NEW now \in Nat, AllSound(bs, m, now), NEW a \in Ids, NEW y,
         BoxSound(y, m.sent, now), NEW gone, gone = {} \/ \E n \in InBox(bs[a]) : gone = {n},
         InBox(y) = InBox(bs[a]) \ gone,
         NEW ys, ys = [bs EXCEPT ![a] = y],
         NEW mm, mm = IF gone = {} THEN m ELSE [m EXCEPT !.done = @ + 1]
  PROVE  AllSound(ys, mm, now)
<1> DEFINE held == InBoxes(bs)
<1>1. /\ IsFiniteSet(held) /\ m \in [sent : Nat, dead : Nat, done : Nat] /\ m.sent <= MaxMail
      /\ Cardinality(held) + m.dead + m.done = m.sent /\ Cardinality(held) \in Nat
      /\ \A b, c \in Ids : b # c => InBox(bs[b]) \cap InBox(bs[c]) = {}
  BY BoxesAreFinite, FS_CardinalityType DEF AllSound, Accounted
<1>2. /\ DOMAIN ys = Ids /\ ys = [c \in Ids |-> ys[c]] /\ ys[a] = y
      /\ \A c \in Ids : c # a => ys[c] = bs[c]
  BY DEF AllSound
<1> DEFINE left == InBoxes(ys)
<1>3. \A c \in Ids : InBox(ys[c]) = IF c = a THEN InBox(bs[a]) \ gone ELSE InBox(bs[c]) BY <1>2
<1>4. left = held \ gone
  <2>1. \A k : k \in left <=> \E c \in Ids : k \in InBox(ys[c]) BY DEF InBoxes
  <2>2. \A k : k \in held <=> \E c \in Ids : k \in InBox(bs[c]) BY DEF InBoxes
  <2> HIDE DEF left, held
  <2> QED BY <1>1, <1>3, <2>1, <2>2
<1>5. \A b, c \in Ids : b # c => InBox(ys[b]) \cap InBox(ys[c]) = {}
  <2>1. \A c \in Ids : InBox(ys[c]) \subseteq InBox(bs[c]) BY <1>3
  <2> SUFFICES ASSUME NEW b \in Ids, NEW c \in Ids,
               b # c PROVE InBox(ys[b]) \cap InBox(ys[c]) = {}
    OBVIOUS
  <2> QED BY <2>1, <1>1
<1>6. mm \in [sent : Nat, dead : Nat, done : Nat] /\ mm.sent = m.sent /\ mm.dead = m.dead BY <1>1
<1>7. Cardinality(left) + mm.dead + mm.done = mm.sent
  <2>1. CASE gone = {} BY <1>1, <1>4, <2>1
  <2>2. CASE gone # {}
    <3>1. PICK n \in InBox(bs[a]) : gone = {n} BY <2>2
    <3>2. n \in held /\ left = held \ {n} /\ mm.done = m.done + 1
      BY <1>1, <1>4, <2>2, <3>1 DEF InBoxes
    <3> HIDE DEF held, left
    <3>3. Cardinality(left) = Cardinality(held) - 1 BY <1>1, <3>2, FS_RemoveElement
    <3> QED BY <1>1, <1>6, <3>2, <3>3
  <2> QED BY <2>1, <2>2
<1> HIDE DEF held, left
<1>8. Accounted(ys, mm) BY <1>1, <1>5, <1>6, <1>7 DEF Accounted, left
<1> QED BY <1>2, <1>8, <1>6 DEF AllSound

\* What a mailbox counts and holds depends on these fields alone.
LEMMA BoxAlike ==
  ASSUME NEW b, NEW sent, NEW now, BoxSound(b, sent, now), NEW y \in Boxes, y.queue = b.queue,
         y.handling = b.handling, y.granted = b.granted, y.stamps = b.stamps
  PROVE  BoxSound(y, sent, now) /\ InBox(y) = InBox(b)
<1>1. InBox(y) = InBox(b) BY DEF InBox
<1> QED BY <1>1 DEF BoxSound, Serial, Counted, Granted

\* A restart is granted only when the window has room for it.
LEMMA HandleRestartSound ==
  ASSUME SchedulingAssumption, clock \in Nat, NEW b \in Boxes, Counted(b, clock),
         NEW y, y = HandleRestart(b)
  PROVE  /\ y \in Boxes /\ Counted(y, clock) /\ y.listed = b.listed
         /\ y.handling = b.handling /\ y.queue = b.queue
<1> DEFINE kept == Recent(b)
           g == Append(b.granted, clock)
           k == Len(b.granted) + 1
           st == kept \cup {k}
           n == b.stops + 1
<1>1. /\ b.granted \in Seq(Nat) /\ b.stamps \in SUBSET Nat /\ Len(b.granted) \in Nat
      /\ MaxActorRestarts \in Nat /\ RestartWindow \in Nat /\ n \in Nat /\ k \in Nat
  BY LenProperties DEF Boxes, SchedulingAssumption
<1>2. /\ \A i \in 1..Len(b.granted) :
           /\ b.granted[i] \in Nat
           /\ b.granted[i] <= clock /\ (clock - b.granted[i] < RestartWindow => i \in kept)
      /\ kept \subseteq 1..Len(b.granted) /\ kept \in SUBSET Nat
  BY <1>1, ElementOfSeq DEF Counted, Recent
<1>3. IsFiniteSet(kept) /\ Cardinality(kept) \in Nat
  <2>1. IsFiniteSet(1..Len(b.granted)) BY <1>1, FS_Interval
  <2> QED BY <1>2, <2>1, FS_Subset, FS_CardinalityType
<1>4. \A t \in Nat : Cardinality(Granted(b, t)) <= MaxActorRestarts BY DEF Counted
<1>5. CASE Cardinality(kept) >= MaxActorRestarts
  <2>1. y = [b EXCEPT !.stamps = kept] BY <1>5 DEF HandleRestart
  <2> HIDE DEF kept
  <2> QED BY <1>2, <1>4, <2>1 DEF Counted, Granted, Boxes
<1>6. CASE ~(Cardinality(kept) >= MaxActorRestarts)
  <2>1. y = [b EXCEPT !.stamps = st, !.granted = g, !.stops = n] BY <1>6 DEF HandleRestart
  <2>2. /\ g \in Seq(Nat) /\ Len(g) = k /\ g[k] = clock
        /\ \A i \in 1..Len(b.granted) : g[i] = b.granted[i]
    BY <1>1, AppendProperties
  <2>3. st \in SUBSET Nat BY <1>1, <1>2
  <2> HIDE DEF g, st, n
  <2>4. /\ y \in Boxes /\ y.granted = g /\ y.stamps = st /\ y.listed = b.listed
        /\ y.handling = b.handling /\ y.queue = b.queue
    BY <1>1, <2>1, <2>2, <2>3 DEF Boxes
  <2> HIDE DEF kept
  <2>5. \A i \in 1..k : i = k \/ i \in 1..Len(b.granted) BY <1>1
  <2>6. ASSUME NEW t \in Nat PROVE Cardinality(Granted(y, t)) <= MaxActorRestarts
    <3>1. CASE t < clock
      <4>1. Granted(y, t) = Granted(b, t)
        <5>1. k \notin Granted(y, t) BY <1>1, <2>2, <2>4, <3>1 DEF Granted
        <5>2. \A i \in 1..Len(b.granted) : i \in 1..Len(g) BY <1>1, <2>2
        <5> QED BY <2>2, <2>4, <2>5, <5>1, <5>2 DEF Granted
      <4> QED BY <1>4, <4>1
    <3>2. CASE t >= clock
      <4>1. \A i \in Granted(y, t) : i \in st
        <5> SUFFICES ASSUME NEW i \in Granted(y, t) PROVE i \in st OBVIOUS
        <5>1. i \in 1..k /\ t - g[i] < RestartWindow BY <2>2, <2>4 DEF Granted
        <5>2. CASE i = k BY <5>2 DEF st
        <5>3. CASE i \in 1..Len(b.granted)
          <6>1. g[i] = b.granted[i] /\ b.granted[i] \in Nat BY <1>2, <2>2, <5>3
          <6> DEFINE x == b.granted[i]
          <6>3. x \in Nat /\ t - x < RestartWindow BY <5>1, <6>1
          <6> HIDE DEF x
          <6>2. clock - b.granted[i] < RestartWindow BY <1>1, <3>2, <6>3 DEF x
          <6> QED BY <1>2, <5>3, <6>2 DEF st
        <5> QED BY <2>5, <5>1, <5>2, <5>3
      <4>2. IsFiniteSet(st) /\ Cardinality(st) = Cardinality(kept) + 1
        <5>1. k \notin kept BY <1>1, <1>2
        <5> QED BY <1>3, <5>1, FS_AddElement DEF st
      <4> QED BY <1>1, <1>3, <1>6, <4>2, FS_CardinalityType, <4>1, FS_Subset
    <3> QED BY <3>1, <3>2
  <2>7. \A i \in 1..k : g[i] <= clock /\ (clock - g[i] < RestartWindow => i \in st)
    <3> SUFFICES ASSUME NEW i \in 1..k
                 PROVE  g[i] <= clock /\ (clock - g[i] < RestartWindow => i \in st)
      OBVIOUS
    <3>1. CASE i = k BY <2>2, <3>1 DEF st
    <3>2. CASE i \in 1..Len(b.granted) BY <2>2, <3>2, <1>2 DEF st
    <3> QED BY <2>5, <3>1, <3>2
  <2>8. st \subseteq 1..k
    <3>1. \A i \in 1..Len(b.granted) : i \in 1..k BY <1>1
    <3>2. k \in 1..k BY <1>1
    <3> QED BY <1>2, <3>1, <3>2 DEF st
  <2>9. Counted(y, clock) BY <2>2, <2>4, <2>6, <2>7, <2>8 DEF Counted
  <2> QED BY <2>4, <2>9
<1> QED BY <1>5, <1>6

\* Time goes by: fewer grants are recent.
LEMMA TickSound ==
  ASSUME SchedulingAssumption, NEW b, NEW sent, NEW now \in Nat, BoxSound(b, sent, now)
  PROVE  BoxSound(b, sent, now + 1)
<1>1. /\ \A i \in 1..Len(b.granted) : b.granted[i] \in Nat
      /\ RestartWindow \in Nat
  BY ElementOfSeq DEF SchedulingAssumption, BoxSound, Boxes
<1>2. Counted(b, now + 1)
  <2>1. /\ \A i \in 1..Len(b.granted) :
             b.granted[i] <= now /\ (now - b.granted[i] < RestartWindow => i \in b.stamps)
        /\ b.stamps \subseteq 1..Len(b.granted)
        /\ \A t \in Nat : Cardinality(Granted(b, t)) <= MaxActorRestarts
    BY DEF BoxSound, Counted
  <2>2. \A i \in 1..Len(b.granted) :
          b.granted[i] <= now + 1 /\ (now + 1 - b.granted[i] < RestartWindow => i \in b.stamps)
    BY <1>1, <2>1
  <2> DEFINE t == now + 1
  <2>3. \A i \in 1..Len(b.granted) :
          b.granted[i] <= t /\ (t - b.granted[i] < RestartWindow => i \in b.stamps)
    BY <1>1, <2>2
  <2> HIDE DEF t
  <2>4. Counted(b, t) BY <2>1, <2>3 DEF Counted
  <2> QED BY <2>4 DEF t
<1> QED BY <1>2 DEF BoxSound

\* One lemma per action.  Somebody tells an actor something.
LEMMA TellKeeps ==
  ASSUME SchedulingAssumption, SchedInv, NEW a \in Ids, TellActor(a)
  PROVE  SchedInv'
<1> DEFINE z == SendTo(boxes, mail, a)
<1>1. boxes' = z.boxes /\ mail' = z.mail /\ mail.sent < MaxMail BY DEF TellActor, Becomes
<1> HIDE DEF z
<1> QED BY <1>1, SendToSound DEF SchedInv, TellActor, z

\* A mailbox changes in what holds no mail, and its actor greets the first.
LEMMA GreetingKeeps ==
  ASSUME SchedulingAssumption, SchedInv, NEW a \in Ids, Room(a), NEW y \in Boxes,
         y.queue = boxes[a].queue, y.handling = boxes[a].handling, y.granted = boxes[a].granted,
         y.stamps = boxes[a].stamps, NEW ys, ys = [boxes EXCEPT ![a] = y],
         Becomes(Greeting(a, Post(ys)))
  PROVE  AllSound(boxes', mail', clock)
<1> DEFINE z == Greeting(a, Post(ys))
<1>1. AllSound(boxes, mail, clock) /\ clock \in Nat BY DEF SchedInv
<1>3. BoxSound(y, mail.sent, clock) /\ InBox(y) = InBox(boxes[a]) \ {}
  BY BoxAlike, <1>1 DEF AllSound
<1>4. AllSound(ys, mail, clock) BY <1>1, <1>3, BoxChanges
<1>5. z = Greeting(a, [boxes |-> ys, mail |-> mail]) /\ boxes' = z.boxes /\ mail' = z.mail
  BY DEF Post, Becomes
<1> HIDE DEF z
<1> QED BY <1>1, <1>4, <1>5, GreetingSound DEF Room

\* The onStop of a restart settles.
LEMMA RestartStopsKeeps ==
  ASSUME SchedulingAssumption, SchedInv, NEW a \in Ids, RestartStops(a)
  PROVE  SchedInv'
<1> DEFINE b == boxes[a]
           s == b.stops - 1
           t == b.starts + 1
           y == [b EXCEPT !.stops = s, !.starts = t]
           ys == [boxes EXCEPT ![a] = y]
<1>1. b \in Boxes /\ DOMAIN boxes = Ids BY DEF SchedInv, AllSound, BoxSound
<1>2. s \in Nat /\ t \in Nat BY <1>1 DEF RestartStops, Boxes
<1>4. Becomes(Greeting(a, Post(ys))) /\ Room(a) BY <1>1 DEF RestartStops, Boxes
<1> HIDE DEF s, t, ys
<1>5. y \in Boxes /\ y.queue = b.queue /\ y.handling = b.handling /\ y.granted = b.granted
      /\ y.stamps = b.stamps
  BY <1>1, <1>2 DEF Boxes
<1>6. ys = [boxes EXCEPT ![a] = y] BY DEF ys
<1> HIDE DEF y
<1> QED BY <1>4, <1>5, <1>6, GreetingKeeps DEF SchedInv, RestartStops

\* The onStart of a restart settles.
LEMMA RestartStartsKeeps ==
  ASSUME SchedulingAssumption, SchedInv, NEW a \in Ids, RestartStarts(a)
  PROVE  SchedInv'
<1> DEFINE b == boxes[a]
           t == b.starts - 1
           y == [b EXCEPT !.starts = t]
           none == {}
<1>1. b \in Boxes /\ DOMAIN boxes = Ids /\ BoxSound(b, mail.sent, clock) /\ clock \in Nat
  BY DEF SchedInv, AllSound, BoxSound
<1>2. t \in Nat BY <1>1 DEF RestartStarts, Boxes
<1>3. boxes' = [boxes EXCEPT ![a] = y] BY <1>1 DEF RestartStarts, Boxes
<1> HIDE DEF t
<1>4. y \in Boxes /\ y.queue = b.queue /\ y.handling = b.handling /\ y.granted = b.granted
      /\ y.stamps = b.stamps
  BY <1>1, <1>2 DEF Boxes
<1> HIDE DEF y
<1>5. BoxSound(y, mail.sent, clock) /\ InBox(y) = InBox(b) BY <1>1, <1>4, BoxAlike
<1>6. InBox(y) = InBox(boxes[a]) \ {} /\ AllSound(boxes, mail, clock) BY <1>5 DEF SchedInv
<1>7. AllSound(boxes', mail, clock) BY <1>1, <1>3, <1>5, <1>6, BoxChanges
<1> QED BY <1>7 DEF SchedInv, RestartStarts

\* The orchestrator starts an actor.
LEMMA StartActorKeeps ==
  ASSUME SchedulingAssumption, SchedInv, NEW a \in Ids, StartActor(a)
  PROVE  SchedInv'
<1> DEFINE b == boxes[a]
           y == [b EXCEPT !.listed = TRUE]
           ys == [boxes EXCEPT ![a] = y]
<1>1. b \in Boxes /\ DOMAIN boxes = Ids BY DEF SchedInv, AllSound, BoxSound
<1>3. Becomes(Greeting(a, Post(ys))) /\ Room(a) BY <1>1 DEF StartActor, Boxes
<1> HIDE DEF ys
<1>4. y \in Boxes /\ y.queue = b.queue /\ y.handling = b.handling /\ y.granted = b.granted
      /\ y.stamps = b.stamps
  BY <1>1 DEF Boxes
<1>5. ys = [boxes EXCEPT ![a] = y] BY DEF ys
<1> HIDE DEF y
<1>7. orch' \in [phase : {"new", "starting", "running", "stopping", "stopped"}, at : 0..NumActors]
  BY DEF StartActor, Ids, SchedulingAssumption
<1> QED BY <1>7, <1>3, <1>4, <1>5, GreetingKeeps DEF SchedInv, StartActor

\* The orchestrator stops an actor.
LEMMA StopActorKeeps ==
  ASSUME SchedulingAssumption, SchedInv, NEW a \in Ids, StopActor(a)
  PROVE  SchedInv'
<1> DEFINE b == boxes[a]
           y == [b EXCEPT !.listed = FALSE]
           ys == [boxes EXCEPT ![a] = y]
<1>1. b \in Boxes /\ DOMAIN boxes = Ids BY DEF SchedInv, AllSound, BoxSound
<1>3. Room(a) /\ (Becomes(Greeting(a, Post(ys))) \/ UNCHANGED <<boxes, mail>>)
  BY <1>1 DEF StopActor, Boxes
<1> HIDE DEF ys
<1>4. y \in Boxes /\ y.queue = b.queue /\ y.handling = b.handling /\ y.granted = b.granted
      /\ y.stamps = b.stamps
  BY <1>1 DEF Boxes
<1>5. ys = [boxes EXCEPT ![a] = y] BY DEF ys
<1> HIDE DEF y
<1>6. AllSound(boxes', mail', clock)
  <2>1. CASE Becomes(Greeting(a, Post(ys))) BY <1>3, <1>4, <1>5, <2>1, GreetingKeeps
  <2>2. CASE UNCHANGED <<boxes, mail>> BY <2>2 DEF SchedInv
  <2> QED BY <1>3, <2>1, <2>2
<1> QED BY <1>6 DEF SchedInv, StopActor, Ids, SchedulingAssumption

\* What a decision makes of a mailbox whose handler has settled.
LEMMA DecisionSound ==
  ASSUME SchedulingAssumption, clock \in Nat, policies \in [Ids -> Actions], NEW a \in Ids,
         NEW b \in Boxes, Counted(b, clock),
         NEW y, y = ApplyDecision(a, b)
  PROVE  y \in Boxes /\ Counted(y, clock) /\ y.handling = b.handling /\ y.queue = b.queue
<1>1. CASE policies[a] = "restart" /\ b.listed BY <1>1, HandleRestartSound DEF ApplyDecision
<1>2. CASE policies[a] = "restart" /\ ~b.listed
  <2> DEFINE h == HandleRestart(b)
  <2>1. y = [h EXCEPT !.stops = b.stops] BY <1>2 DEF ApplyDecision
  <2> HIDE DEF h
  <2>2. h \in Boxes /\ Counted(h, clock) /\ h.handling = b.handling /\ h.queue = b.queue
    BY HandleRestartSound DEF h
  <2>3. y \in Boxes /\ y.handling = h.handling /\ y.queue = h.queue /\ y.granted = h.granted
        /\ y.stamps = h.stamps
    BY <2>1, <2>2 DEF Boxes
  <2> QED BY <2>2, <2>3 DEF Counted, Granted
<1>3. CASE policies[a] # "restart"
  <2>2. y \in Boxes /\ y.handling = b.handling /\ y.queue = b.queue /\ y.granted = b.granted
        /\ y.stamps = b.stamps
    BY <1>3 DEF Boxes, ApplyDecision
  <2> QED BY <2>2 DEF Counted, Granted
<1> QED BY <1>1, <1>2, <1>3

\* What is left of a mailbox when its handler settles, and when it goes on.
Settled(a, n, ok) ==
  IF ok THEN [boxes[a] EXCEPT !.handling = @ \ {n}]
  ELSE ApplyDecision(a, [boxes[a] EXCEPT !.handling = @ \ {n}])

GoesOn(d) == IF d.handling = {} THEN ProcessNext(d) ELSE d

\* A handler settles: its envelope is done, and the next is handled.
LEMMA SettledSound ==
  ASSUME SchedulingAssumption, SchedInv, NEW a \in Ids, NEW n \in boxes[a].handling,
         NEW ok \in BOOLEAN,
         NEW d, d = Settled(a, n, ok), NEW y, y = GoesOn(d)
  PROVE  /\ BoxSound(y, mail.sent, clock) /\ InBox(y) = InBox(boxes[a]) \ {n}
              /\ y.listed = d.listed
         /\ n \in InBox(boxes[a])
<1> DEFINE b == boxes[a]
           h == b.handling \ {n}
           e == [b EXCEPT !.handling = h]
<1>1. /\ BoxSound(b, mail.sent, clock) /\ clock \in Nat /\ mail.sent \in Nat
      /\ policies \in [Ids -> Actions]
  BY DEF SchedInv, AllSound, Accounted
<1>2. b \in Boxes /\ Serial(b, mail.sent) /\ Counted(b, clock) /\ b.queue \in Seq(Nat)
  BY <1>1 DEF BoxSound, Boxes
<1>3. h = {} /\ h \in SUBSET Nat BY <1>2 DEF Serial, Boxes
<1>4. d = IF ok THEN e ELSE ApplyDecision(a, e) BY <1>2 DEF Boxes, Settled
<1> HIDE DEF h
<1>5. e \in Boxes /\ e.handling = {} /\ e.queue = b.queue /\ e.granted = b.granted
      /\ e.stamps = b.stamps
  BY <1>2, <1>3 DEF Boxes
<1> HIDE DEF e
<1>6. Counted(e, clock) BY <1>2, <1>5 DEF Counted, Granted
<1>7. d \in Boxes /\ d.handling = {} /\ d.queue = b.queue /\ Counted(d, clock)
  <2> DEFINE x == ApplyDecision(a, e)
  <2>1. x \in Boxes /\ x.handling = {} /\ x.queue = b.queue /\ Counted(x, clock)
    <3> HIDE DEF x
    <3> QED BY <1>1, <1>5, <1>6, DecisionSound DEF x
  <2> QED BY <1>4, <1>5, <1>6, <2>1
<1>8. /\ n \in InBox(b) /\ InBox(b) = {n} \cup {b.queue[i] : i \in DOMAIN b.queue}
      /\ \A k \in InBox(b) : k \in 1..mail.sent
      /\ \A i \in 1..Len(b.queue) : n < b.queue[i]
  BY <1>2 DEF InBox, Serial
<1>9. InBox(d) = InBox(b) \ {n}
  <2> DEFINE Q == {b.queue[i] : i \in DOMAIN b.queue}
  <2>1. InBox(d) = Q BY <1>7 DEF InBox
  <2>2. n \notin Q
    <3>3. \A i \in 1..Len(b.queue) : b.queue[i] # n BY <1>8, <1>2, ElementOfSeq DEF Boxes
    <3> QED BY <3>3, <1>2, LenProperties
  <2>3. InBox(b) = {n} \cup Q BY <1>8
  <2> HIDE DEF Q
  <2> QED BY <2>1, <2>2, <2>3
<1> QED BY <1>8, <1>9, <1>1, <1>7, ProcessNextSound, <1>2 DEF Serial, GoesOn

\* A handler settles, and the supervisor decides on a failure.
LEMMA HandlerKeeps ==
  ASSUME SchedulingAssumption, SchedInv, NEW a \in Ids, NEW n \in 1..MaxMail, NEW ok \in BOOLEAN,
         HandlerSettles(a, n, ok)
  PROVE  SchedInv'
<1> DEFINE s == [boxes[a] EXCEPT !.handling = @ \ {n}]
           d == IF ok THEN s ELSE ApplyDecision(a, s)
           acted == d.stops # s.stops \/ (s.listed /\ ~d.listed)
           bs == [boxes EXCEPT ![a] = d]
           told == IF acted THEN Greeting(a, Post(bs)) ELSE Post(bs)
           y == IF d.handling = {} THEN ProcessNext(d) ELSE d
           ys == [boxes EXCEPT ![a] = y]
           gone == {n}
           mm == [mail EXCEPT !.done = @ + 1]
<1>1. /\ n \in boxes[a].handling /\ (acted => Room(a))
      /\ boxes' = [told.boxes EXCEPT ![a] = IF @.handling = {} THEN ProcessNext(@) ELSE @]
      /\ mail' = [told.mail EXCEPT !.done = @ + 1]
      /\ UNCHANGED <<orch, policies, clock>>
  BY DEF HandlerSettles
<1>2. /\ BoxSound(y, mail.sent, clock) /\ InBox(y) = InBox(boxes[a]) \ gone /\ y.listed = d.listed
      /\ n \in InBox(boxes[a])
  <2>1. d = Settled(a, n, ok) /\ y = GoesOn(d) BY DEF Settled, GoesOn
  <2>2. n \in boxes[a].handling BY <1>1
  <2> HIDE DEF y, d, s, bs, told, ys, mm, acted, gone
  <2> QED BY <2>1, <2>2, SettledSound DEF gone
<1>3. /\ AllSound(boxes, mail, clock) /\ clock \in Nat /\ DOMAIN boxes = Ids
      /\ mail \in [sent : Nat, dead : Nat, done : Nat]
  BY DEF SchedInv, AllSound, Accounted
<1>4. mm = IF gone = {} THEN mail ELSE [mail EXCEPT !.done = @ + 1] OBVIOUS
<1> HIDE DEF y, d, acted, gone
<1>5. AllSound(ys, mm, clock)
  <2>1. gone = {} \/ \E k \in InBox(boxes[a]) : gone = {k} BY <1>2 DEF gone
  <2> HIDE DEF ys, mm
  <2> QED BY <1>2, <1>3, <1>4, <2>1, BoxChanges DEF ys, mm
<1>6. /\ mm \in [sent : Nat, dead : Nat, done : Nat] /\ mm.sent = mail.sent
      /\ mm.dead = mail.dead /\ mm.done = mail.done + 1
  BY <1>3
<1>7. bs[a] = d /\ DOMAIN bs = Ids /\ DOMAIN ys = Ids /\ ys[a] = y
      /\ (\A c \in Ids : c # a => bs[c] = boxes[c] /\ ys[c] = boxes[c])
      /\ [bs EXCEPT ![a] = y] = ys
  BY <1>3
<1>8. CASE ~acted \/ ~(a > 1)
  <2>1. told = Post(bs) BY <1>8 DEF Greeting
  <2>2. told.boxes = bs /\ told.mail = mail
    <3> HIDE DEF told, bs
    <3> QED BY <2>1 DEF Post
  <2>3. boxes' = ys /\ mail' = mm
    <3>1. boxes' = [bs EXCEPT ![a] = y]
      <4> HIDE DEF bs, ys, told
      <4> QED BY <1>1, <1>7, <2>2 DEF y
    <3> QED BY <1>1, <1>7, <2>2, <3>1
  <2> QED BY <1>1, <1>5, <2>3 DEF SchedInv
<1>9. CASE acted /\ a > 1
  <2> DEFINE z == SendTo(ys, mm, 1)
             k == mail.sent + 1
  <2>1. 1 \in Ids /\ 1 # a /\ mm.sent < MaxMail
    <3>1. Room(a) /\ NumActors \in Nat \ {0} /\ MaxMail \in Nat /\ mail.sent \in Nat
      BY <1>1, <1>3, <1>9 DEF SchedulingAssumption
    <3> QED BY <1>6, <3>1, <1>9 DEF Ids, Room
  <2>2. AllSound(z.boxes, z.mail, clock)
    <3> HIDE DEF z, ys, mm
    <3> QED BY <1>3, <1>5, <2>1, SendToSound DEF z
  <2>3. told = SendTo(bs, mail, 1) BY <1>9 DEF Greeting, Post
  <2>4. bs[1] = ys[1] BY <1>7, <2>1
  <2>5. CASE bs[1].listed
    <3> DEFINE p == Put(bs[1], k)
    <3>1. told = [boxes |-> [bs EXCEPT ![1] = p], mail |-> [mail EXCEPT !.sent = k]]
      BY <2>3, <2>5 DEF SendTo
    <3>2. z = [boxes |-> [ys EXCEPT ![1] = p], mail |-> [mm EXCEPT !.sent = k]]
      BY <1>6, <2>4, <2>5 DEF SendTo
    <3> HIDE DEF p, told, z, ys, bs, mm
    <3>3. told.boxes = [bs EXCEPT ![1] = p] /\ z.boxes = [ys EXCEPT ![1] = p] BY <3>1, <3>2
    <3>5. boxes' = [[bs EXCEPT ![1] = p] EXCEPT ![a] = y] BY <1>1, <3>3, <1>7, <2>1 DEF y
    <3>6. boxes' = z.boxes
      <4> DEFINE l == [[bs EXCEPT ![1] = p] EXCEPT ![a] = y]
                 r == [ys EXCEPT ![1] = p]
      <4>1. DOMAIN l = Ids /\ DOMAIN r = Ids BY <1>7
      <4>2. \A c \in Ids : l[c] = r[c] BY <1>7, <2>1
      <4>3. l = [c \in Ids |-> l[c]] /\ r = [c \in Ids |-> r[c]] BY <1>7
      <4> HIDE DEF l, r
      <4>4. l = r BY <4>2, <4>3
      <4> QED BY <3>3, <3>5, <4>4 DEF l, r
    <3>7. mail' = z.mail BY <1>1, <1>3, <3>1, <3>2 DEF mm
    <3> QED BY <1>1, <2>2, <3>6, <3>7 DEF SchedInv
  <2>6. CASE ~bs[1].listed
    <3> DEFINE e == mail.dead + 1
    <3>1. told = [boxes |-> bs, mail |-> [mail EXCEPT !.sent = k, !.dead = e]]
      BY <1>3, <2>3, <2>6 DEF SendTo
    <3>2. z = [boxes |-> ys, mail |-> [mm EXCEPT !.sent = k, !.dead = e]]
      BY <1>6, <2>4, <2>6 DEF SendTo
    <3> HIDE DEF told, z, ys, bs, e
    <3>3. boxes' = ys BY <1>1, <1>7, <3>1 DEF y
    <3>4. mail' = z.mail BY <1>1, <1>3, <3>1, <3>2
    <3>5. z.boxes = ys BY <3>2
    <3> QED BY <1>1, <2>2, <3>3, <3>4, <3>5 DEF SchedInv
  <2> QED BY <2>5, <2>6
<1> QED BY <1>8, <1>9

\* Time goes by.
LEMMA TickKeeps ==
  ASSUME SchedulingAssumption, SchedInv, Tick
  PROVE  SchedInv'
<1> QED BY TickSound DEF SchedInv, Tick, AllSound

\* The runtime keeps its part of the invariant.
LEMMA SchedKeeps ==
  ASSUME SchedulingAssumption, SchedInv, SchedNext
  PROVE  SchedInv'
BY TellKeeps, RestartStopsKeeps, RestartStartsKeeps, StartActorKeeps, StopActorKeeps,
   HandlerKeeps,
   TickKeeps DEF SchedNext

\* How many transfers are under way.
UnderWay(d) == IF d.step = "idle" THEN 0 ELSE 1

\* It is a number.
LEMMA UnderWayIsNat == ASSUME NEW d PROVE UnderWay(d) \in Nat
BY DEF UnderWay

\* The books of the transfers, after one that was under way is answered.
LEMMA TransferSums ==
  ASSUME NEW a \in Nat, NEW b \in Nat, NEW t \in Nat, NEW l \in Nat, NEW n \in Nat,
         a + b + l + 1 = n + t, t <= a, t <= b, NEW k, NEW f, NEW r,
         \/ k = a + 1 /\ f = b /\ r = t
         \/ k = a /\ f = b + 1 /\ r = t
         \/ k = a + 1 /\ f = b + 1 /\ r = t + 1
  PROVE  /\ k \in Nat /\ f \in Nat /\ r \in Nat
         /\ k + f + l + 0 = n + r /\ r <= k /\ r <= f
OBVIOUS

\* The main agent and the gateway keep theirs.
LEMMA DeskKeeps ==
  ASSUME SchedulingAssumption, DeskInv, DeskNext
  PROVE  DeskInv'
<1> DEFINE S == DeskAgents \cup {Stranger}
           a == desk.completed
           b == desk.failed
           t == desk.thrown
           l == Len(desk.queue)
           u == UnderWay(desk)
           n == desk.asked
<1>1. /\ desk \in Transfers /\ desk.queue \in Seq(S) /\ desk.to \in DeskAgents
      /\ desk.active \in DeskAgents /\ desk.active = desk.wire
      /\ a \in Nat /\ b \in Nat /\ t \in Nat /\ l \in Nat /\ u \in Nat /\ n \in Nat
      /\ a + b + l + u = n + t /\ t <= a /\ t <= b
  BY LenProperties, UnderWayIsNat DEF DeskInv, TransfersAreAnswered, UnderWay, Transfers
<1>2. ASSUME NEW y \in Transfers, desk' = y, UNCHANGED gateway, y.active = y.wire,
             y.completed + y.failed + Len(y.queue) + UnderWay(y) = y.asked + y.thrown,
             y.thrown <= y.completed, y.thrown <= y.failed
      PROVE  DeskInv'
  BY <1>2 DEF DeskInv, TransfersAreAnswered, UnderWay
<1> HIDE DEF S
<1>3. ASSUME NEW to \in S, TransferRequested(to), UNCHANGED gateway PROVE DeskInv'
  <2> DEFINE m == desk.asked + 1
             q == Append(desk.queue, to)
             y == [desk EXCEPT !.asked = m, !.queue = q]
  <2>1. m \in Nat /\ q \in Seq(S) /\ Len(q) = l + 1 /\ m = n + 1 /\ desk' = y
    BY <1>1, <1>3, AppendProperties DEF TransferRequested
  <2> HIDE DEF m, q
  <2>2. /\ y \in Transfers /\ y.active = desk.active /\ y.wire = desk.wire /\ y.asked = m
        /\ y.completed = desk.completed /\ y.failed = desk.failed /\ y.thrown = desk.thrown
        /\ y.queue = q /\ y.step = desk.step
    BY <1>1, <2>1 DEF Transfers, S
  <2> HIDE DEF y
  <2>3. UnderWay(y) = u BY <2>2 DEF UnderWay
  <2> HIDE DEF a, b, t, l, u, n
  <2>4. a + b + (l + 1) + u = (n + 1) + t BY <1>1
  <2> QED BY <1>1, <1>2, <1>3, <2>1, <2>2, <2>3, <2>4 DEF a, b, t
<1>4. ASSUME TransferBegins, UNCHANGED gateway PROVE DeskInv'
  <2> DEFINE q == Tail(desk.queue)
             h == Head(desk.queue)
             f == desk.failed + 1
  <2>1. q \in Seq(S) /\ l = Len(q) + 1 /\ Len(q) \in Nat /\ f \in Nat /\ f = b + 1 /\ u = 0
    BY <1>1, <1>4, HeadTailProperties DEF TransferBegins, UnderWay
  <2>2. CASE h \in DeskAgents
    <3> DEFINE y == [desk EXCEPT !.to = h, !.queue = q, !.step = "exit"]
    <3>1. desk' = y BY <1>4, <2>2 DEF TransferBegins
    <3> HIDE DEF q, h
    <3>2. /\ y \in Transfers /\ y.active = desk.active /\ y.wire = desk.wire /\ y.asked = desk.asked
          /\ y.completed = desk.completed /\ y.failed = desk.failed /\ y.thrown = desk.thrown
          /\ y.queue = q /\ y.step = "exit"
      BY <1>1, <2>1, <2>2 DEF Transfers, S
    <3> HIDE DEF y
    <3>3. UnderWay(y) = 1 BY <3>2 DEF UnderWay
    <3> HIDE DEF a, b, t, l, u, n
    <3>4. a + b + Len(q) + 1 = n + t BY <1>1, <2>1
    <3> QED BY <1>1, <1>2, <1>4, <3>1, <3>2, <3>3, <3>4 DEF a, b, t, n
  <2>3. CASE h \notin DeskAgents
    <3> DEFINE y == [desk EXCEPT !.queue = q, !.failed = f]
    <3>1. desk' = y BY <1>4, <2>3 DEF TransferBegins
    <3> HIDE DEF q, h, f
    <3>2. /\ y \in Transfers /\ y.active = desk.active /\ y.wire = desk.wire /\ y.asked = desk.asked
          /\ y.completed = desk.completed /\ y.failed = f /\ y.thrown = desk.thrown
          /\ y.queue = q /\ y.step = desk.step
      BY <1>1, <2>1, <2>3 DEF Transfers, S
    <3> HIDE DEF y
    <3>3. UnderWay(y) = u BY <3>2 DEF UnderWay
    <3> HIDE DEF a, b, t, l, u, n
    <3>4. a + f + Len(q) + u = n + t /\ t <= f BY <1>1, <2>1
    <3> QED BY <1>1, <1>2, <1>4, <3>1, <3>2, <3>3, <3>4 DEF a, b, t, n
  <2> QED BY <2>2, <2>3
<1>5. ASSUME NEW ok \in BOOLEAN, ExitSettles(ok), UNCHANGED gateway PROVE DeskInv'
  <2>1. u = 1 BY <1>5 DEF ExitSettles, UnderWay
  <2>2. CASE ok
    <3> DEFINE y == [desk EXCEPT !.wire = desk.to, !.active = desk.to, !.step = "enter"]
    <3>1. desk' = y BY <1>5, <2>2 DEF ExitSettles
    <3>2. /\ y \in Transfers /\ y.active = desk.to /\ y.wire = desk.to /\ y.asked = desk.asked
          /\ y.completed = desk.completed /\ y.failed = desk.failed /\ y.thrown = desk.thrown
          /\ y.queue = desk.queue /\ y.step = "enter"
      BY <1>1 DEF Transfers
    <3> HIDE DEF y
    <3>3. UnderWay(y) = 1 BY <3>2 DEF UnderWay
    <3> QED BY <1>1, <1>2, <1>5, <2>1, <3>1, <3>2, <3>3
  <2>3. CASE ~ok
    <3> DEFINE f == desk.failed + 1
               y == [desk EXCEPT !.failed = f, !.step = "idle"]
    <3>1. desk' = y /\ f \in Nat /\ f = b + 1 BY <1>1, <1>5, <2>3 DEF ExitSettles
    <3> HIDE DEF f
    <3>2. /\ y \in Transfers /\ y.active = desk.active /\ y.wire = desk.wire /\ y.asked = desk.asked
          /\ y.completed = desk.completed /\ y.failed = f /\ y.thrown = desk.thrown
          /\ y.queue = desk.queue /\ y.step = "idle"
      BY <1>1, <3>1 DEF Transfers
    <3> HIDE DEF y
    <3>3. UnderWay(y) = 0 BY <3>2 DEF UnderWay
    <3> HIDE DEF a, b, t, l, u, n
    <3>4. a + f + l + 0 = n + t /\ t <= f BY <1>1, <2>1, <3>1
    <3> QED BY <1>1, <1>2, <1>5, <3>1, <3>2, <3>3, <3>4 DEF a, b, t, n, l
  <2> QED BY <2>2, <2>3
<1>6. ASSUME NEW how, how \in {"entered", "enter throws", "hook throws"}, EnterSettles(how),
             UNCHANGED gateway
      PROVE  DeskInv'
  <2> DEFINE k == desk.completed + (IF how = "enter throws" THEN 0 ELSE 1)
             f == desk.failed + (IF how = "entered" THEN 0 ELSE 1)
             r == desk.thrown + (IF how = "hook throws" THEN 1 ELSE 0)
             y == [desk EXCEPT !.completed = k, !.failed = f, !.thrown = r, !.step = "idle"]
  <2>0. /\ a \in Nat /\ b \in Nat /\ t \in Nat /\ l \in Nat /\ n \in Nat
        /\ a + b + l + 1 = n + t /\ t <= a /\ t <= b
    <3>1. u = 1 BY <1>6 DEF EnterSettles, UnderWay
    <3> HIDE DEF a, b, t, l, n, u
    <3> QED BY <1>1, <3>1
  <2>1. /\ desk' = y /\ u = 1
        /\ k \in Nat /\ f \in Nat /\ r \in Nat
        /\ \/ k = a + 1 /\ f = b /\ r = t
           \/ k = a /\ f = b + 1 /\ r = t
           \/ k = a + 1 /\ f = b + 1 /\ r = t + 1
    <3>1. desk' = y /\ u = 1 BY <1>6 DEF EnterSettles, UnderWay
    <3>2. \/ k = a + 1 /\ f = b + 0 /\ r = t + 0
          \/ k = a + 0 /\ f = b + 1 /\ r = t + 0
          \/ k = a + 1 /\ f = b + 1 /\ r = t + 1
      BY <1>6
    <3> HIDE DEF a, b, t, k, f, r, l, n, u, y
    <3>3. a + 0 = a /\ b + 0 = b /\ t + 0 = t BY <2>0
    <3>4. \/ k = a + 1 /\ f = b /\ r = t
          \/ k = a /\ f = b + 1 /\ r = t
          \/ k = a + 1 /\ f = b + 1 /\ r = t + 1
      BY <3>2, <3>3
    <3>5. k \in Nat /\ f \in Nat /\ r \in Nat BY <2>0, <3>4, TransferSums
    <3> QED BY <3>1, <3>4, <3>5
  <2> HIDE DEF k, f, r
  <2>2. /\ y \in Transfers /\ y.active = desk.active /\ y.wire = desk.wire /\ y.asked = desk.asked
        /\ y.completed = k /\ y.failed = f /\ y.thrown = r
        /\ y.queue = desk.queue /\ y.step = "idle"
    BY <1>1, <2>1 DEF Transfers
  <2> HIDE DEF y
  <2>3. UnderWay(y) = 0 BY <2>2 DEF UnderWay
  <2> HIDE DEF a, b, t, l, u, n
  <2>4. k + f + l + 0 = n + r /\ r <= k /\ r <= f BY <2>0, <2>1, TransferSums
  <2> QED BY <1>1, <1>2, <1>6, <2>1, <2>2, <2>3, <2>4 DEF n, l
<1>7. ASSUME NEW c \in GatewayCalls, SubagentTerminal(c) PROVE DeskInv'
  <2> DEFINE g == gateway.notified \cup {c}
             v == [gateway.told EXCEPT ![c] = @ + 1]
  <2>2. gateway' = [notified |-> g, told |-> v] /\ c \notin gateway.notified /\ UNCHANGED desk
    BY <1>7 DEF SubagentTerminal
  <2>3. g \in SUBSET GatewayCalls /\ v \in [GatewayCalls -> Nat]
        /\ \A i \in GatewayCalls : v[i] = IF i \in g THEN 1 ELSE 0
    BY <2>2 DEF DeskInv
  <2> HIDE DEF g, v
  <2> QED BY <2>2, <2>3 DEF DeskInv, TransfersAreAnswered
<1> QED BY <1>3, <1>4, <1>5, <1>6, <1>7 DEF DeskNext, S

\* The invariant holds at first.
LEMMA ActorsStart == ASSUME SchedulingAssumption, ActorSchedulingInit PROVE ActorsInv
<1> DEFINE e == <<>>
           none == {}
           z == 0
           b == [listed |-> FALSE, queue |-> e, handling |-> none, stops |-> z, starts |-> z,
                 stamps |-> none, granted |-> e]
<1>0. NewBox = b BY DEF NewBox
<1>1. e \in Seq(Nat) /\ e \in Seq(DeskAgents \cup {Stranger}) /\ Len(e) = z /\ none \in SUBSET Nat /\ z \in Nat
      /\ z = 0 /\ Cardinality(none) = z /\ none = {}
  BY EmptySeq, FS_EmptySet
<1> HIDE DEF e, none, z
<1>2. b \in Boxes /\ b.queue = e /\ b.granted = e /\ b.handling = none /\ b.stamps = none
  BY <1>1 DEF Boxes
<1> HIDE DEF b
<1>3. InBox(b) = none BY <1>1, LenProperties, <1>2 DEF InBox
<1>4. /\ mail = [sent |-> z, dead |-> z, done |-> z] /\ clock = z /\ boxes = [a \in Ids |-> b]
      /\ orch = [phase |-> "new", at |-> z] /\ policies \in [Ids -> Actions]
  BY <1>0 DEF ActorSchedulingInit, SchedInit, z
<1>5. Serial(b, z) BY <1>1, <1>2, <1>3 DEF Serial
<1>6. Counted(b, z) BY <1>1, <1>2 DEF Granted, SchedulingAssumption, Counted
<1>7. BoxSound(b, z, z) BY <1>2, <1>5, <1>6 DEF BoxSound, e
<1>8. AllSound(boxes, mail, clock)
  <2>1. InBoxes(boxes) = none BY <1>1, <1>3, <1>4 DEF InBoxes
  <2>2. mail \in [sent : Nat, dead : Nat, done : Nat] /\ mail.sent = z /\ mail.dead = z
        /\ mail.done = z
    BY <1>1, <1>4
  <2>3. Cardinality(InBoxes(boxes)) + mail.dead + mail.done = mail.sent /\ mail.sent <= MaxMail
    BY <1>1, <2>1, <2>2 DEF SchedulingAssumption
  <2> QED BY <1>4, <1>7, <2>2, <2>3, <1>1, <1>3 DEF AllSound, Accounted
<1>9. SchedInv BY <1>4, <1>1, <1>8 DEF SchedulingAssumption, SchedInv
<1>10. DeskInv
  <2>1. /\ desk.active \in DeskAgents /\ desk.to \in DeskAgents /\ desk.wire = desk.active
        /\ desk.asked = 0 /\ desk.completed = 0 /\ desk.failed = 0 /\ desk.thrown = 0 /\ desk.queue = <<>>
        /\ desk.step = "idle" /\ desk \in Transfers
        /\ gateway = [notified |-> {}, told |-> [c \in GatewayCalls |-> 0]]
    <3>1. /\ desk \in [active : DeskAgents, asked : {0}, queue : {<<>>}, step : {"idle"},
               to : DeskAgents,
                       wire : DeskAgents, completed : {0}, failed : {0}, thrown : {0}]
          /\ desk.to = desk.active /\ desk.wire = desk.active
          /\ gateway = [notified |-> {}, told |-> [c \in GatewayCalls |-> 0]]
      BY DEF ActorSchedulingInit, DeskInit
    <3>2. /\ desk.active \in DeskAgents /\ desk.to \in DeskAgents /\ desk.wire \in DeskAgents
          /\ desk.asked = 0 /\ desk.completed = 0 /\ desk.failed = 0 /\ desk.thrown = 0
          /\ desk.queue = <<>> /\ desk.step = "idle"
          /\ desk = [active |-> desk.active, asked |-> desk.asked, queue |-> desk.queue,
                  step |-> desk.step,
                     to |-> desk.to, wire |-> desk.wire, completed |-> desk.completed,
                       failed |-> desk.failed, thrown |-> desk.thrown]
      BY <3>1
    <3>3. <<>> \in Seq(DeskAgents \cup {Stranger}) BY EmptySeq
    <3>4. desk \in Transfers
      <4> DEFINE n == 0
                 q == <<>>
                 i == "idle"
      <4>1. desk = [active |-> desk.active, asked |-> n, queue |-> q, step |-> i, to |-> desk.to,
                    wire |-> desk.wire, completed |-> n, failed |-> n, thrown |-> n]
        BY <3>2
      <4>2. n \in Nat /\ q \in Seq(DeskAgents \cup {Stranger}) /\ i \in {"idle", "exit", "enter"}
        BY <3>3
      <4> HIDE DEF n, q, i
      <4> QED BY <3>2, <4>1, <4>2 DEF Transfers
    <3> QED BY <3>1, <3>2, <3>4
  <2> QED BY <2>1, <1>1 DEF DeskInv, TransfersAreAnswered, e, z
<1> QED BY <1>9, <1>10 DEF ActorsInv

\* The inductive invariant of the actors' runtime: every mailbox drains in order,
\* nobody else holds what it holds, and every recent grant is counted.
THEOREM ActorsInductive == ActorSchedulingSpec => []ActorsInv
<1>1. ActorSchedulingInit => ActorsInv BY SchedulingAssumption, ActorsStart
<1>2. ActorsInv /\ [ActorSchedulingNext]_actorSchedulingVars => ActorsInv'
  <2> SUFFICES ASSUME ActorsInv, [ActorSchedulingNext]_actorSchedulingVars PROVE ActorsInv' OBVIOUS
  <2>1. SchedInv /\ DeskInv BY DEF ActorsInv
  <2>2. ASSUME UNCHANGED <<desk, gateway>> PROVE DeskInv'
    BY <2>1, <2>2 DEF DeskInv, TransfersAreAnswered
  <2>3. ASSUME UNCHANGED schedVars PROVE SchedInv' BY <2>1, <2>3 DEF SchedInv, schedVars
  <2>4. CASE SchedNext /\ UNCHANGED <<desk, gateway>>
    BY <2>1, <2>2, <2>4, SchedulingAssumption, SchedKeeps DEF ActorsInv
  <2>5. CASE DeskNext /\ UNCHANGED schedVars
    BY <2>1, <2>3, <2>5, SchedulingAssumption, DeskKeeps DEF ActorsInv
  <2>6. CASE UNCHANGED actorSchedulingVars
    BY <2>2, <2>3, <2>6 DEF actorSchedulingVars, schedVars, ActorsInv
  <2> QED BY <2>4, <2>5, <2>6 DEF ActorSchedulingNext
<1> QED BY <1>1, <1>2, PTL DEF ActorSchedulingSpec

\* The runtime keeps its promises to every actor, whatever fails and whenever the
\* orchestrator stops (mailbox, supervisor, main agent, gateway): ActorsAreScheduled.
THEOREM ActorsScheduled == ActorSchedulingSpec => []ActorsAreScheduled
<1>1. ActorsInv => ActorsAreScheduled
  <2> SUFFICES ASSUME ActorsInv PROVE ActorsAreScheduled OBVIOUS
  <2>1. SchedInv /\ DeskInv /\ AllSound(boxes, mail, clock) BY DEF ActorsInv, SchedInv
  <2>2. /\ \A a \in Ids : BoxSound(boxes[a], mail.sent, clock)
        /\ mail \in [sent : Nat, dead : Nat, done : Nat] /\ mail.sent <= MaxMail
        /\ Cardinality(InBoxes(boxes)) + mail.dead + mail.done = mail.sent
        /\ \A a, b \in Ids : a # b => InBox(boxes[a]) \cap InBox(boxes[b]) = {}
    BY <2>1 DEF AllSound, Accounted
  <2>3. IsFiniteSet(InBoxes(boxes)) /\ Cardinality(InBoxes(boxes)) \in Nat
        /\ MaxMail \in Nat
    BY <2>1, BoxesAreFinite, FS_CardinalityType, SchedulingAssumption DEF SchedulingAssumption
  <2>4. ASSUME NEW a \in Ids
        PROVE  /\ boxes[a] \in Boxes /\ Serial(boxes[a], mail.sent)
               /\ boxes[a].queue \in Seq(Nat) /\ Counted(boxes[a], clock)
               /\ InBox(boxes[a]) = boxes[a].handling \cup Queued(a)
               /\ DOMAIN boxes[a].queue = 1..Len(boxes[a].queue)
               /\ boxes[a].queue # <<>> => boxes[a].handling # {}
               /\ DOMAIN boxes[a].granted = 1..Len(boxes[a].granted)
    BY <2>2, LenProperties DEF BoxSound, Boxes, InBox, Queued
  <2>5. ActorSchedulingTypeOK
    <3>1. ASSUME NEW a \in Ids PROVE boxes[a].handling \subseteq 1..MaxMail
                 /\ boxes[a].queue \in Seq(1..MaxMail)
      <4>1. \A k \in InBox(boxes[a]) : k \in 1..MaxMail
        <5>2. \A k \in 1..mail.sent : k \in 1..MaxMail BY <2>2, <2>3
        <5> QED BY <2>4, <5>2 DEF Serial
      <4>3. /\ boxes[a].queue = [i \in 1..Len(boxes[a].queue) |-> boxes[a].queue[i]]
            /\ Len(boxes[a].queue) \in Nat
        BY <2>4, LenProperties
      <4>4. boxes[a].queue \in [1..Len(boxes[a].queue) -> 1..MaxMail]
        BY <4>3, <2>4, <4>1 DEF Queued
      <4>5. boxes[a].queue \in Seq(1..MaxMail) BY <4>3, <4>4, SeqDef
      <4> QED BY <2>4, <4>1, <4>5
    <3> QED BY <2>1, <3>1, <2>2, <2>3 DEF ActorSchedulingTypeOK, SchedInv, DeskInv, Transfers
  <2>6. MailboxesAreSerial
    <3> SUFFICES ASSUME NEW a \in Ids
                 PROVE  /\ Cardinality(boxes[a].handling) <= 1
                        /\ boxes[a].queue # <<>> => boxes[a].handling # {}
                        /\ \A n \in boxes[a].handling, q \in Queued(a) : n < q
                        /\ \A i, j \in DOMAIN boxes[a].queue :
                             i < j => boxes[a].queue[i] < boxes[a].queue[j]
      BY DEF MailboxesAreSerial
    <3>1. Cardinality(boxes[a].handling) <= 1
      <4>1. CASE boxes[a].handling = {} BY FS_EmptySet, <4>1
      <4>2. CASE boxes[a].handling # {}
        <5>1. PICK n : n \in boxes[a].handling BY <4>2
        <5>2. boxes[a].handling = {n} BY <2>4, <5>1 DEF Serial
        <5> QED BY <5>2, FS_Singleton
      <4> QED BY <4>1, <4>2
    <3>2. ASSUME NEW n \in boxes[a].handling, NEW q \in Queued(a) PROVE n < q
      <4>1. PICK i \in 1..Len(boxes[a].queue) : q = boxes[a].queue[i] BY <2>4 DEF Queued
      <4> QED BY <2>4, <4>1 DEF Serial
    <3> QED BY <2>4, <3>1, <3>2 DEF Serial
  <2>7. MailIsAccounted
    <3>1. \A a \in Ids : InBox(boxes[a]) = boxes[a].handling \cup Queued(a) BY <2>4
    <3>2. UNION {boxes[a].handling \cup Queued(a) : a \in Ids} = InBoxes(boxes) BY <3>1 DEF InBoxes
    <3> QED BY <2>2, <3>1, <3>2 DEF MailIsAccounted
  <2>8. RestartsAreBounded
    <3> SUFFICES ASSUME NEW a \in Ids, NEW t \in 0..MaxTicks
                 PROVE  Cardinality({i \in DOMAIN boxes[a].granted :
                                       boxes[a].granted[i] <= t
                                       /\ t - boxes[a].granted[i] < RestartWindow}) <= MaxActorRestarts
      BY DEF RestartsAreBounded
    <3>1. t \in Nat BY SchedulingAssumption DEF SchedulingAssumption
    <3> QED BY <2>4, <3>1 DEF Granted, Counted
  <2> QED BY <2>1, <2>5, <2>6, <2>7, <2>8 DEF ActorsAreScheduled, DeskInv
<1> QED BY <1>1, ActorsInductive, PTL

-----------------------------------------------------------------------------
(* The relay to an agent on the user's Mac.                                *)

USE SutandoAssumption DEF SutandoAssumption

\* The relay server, the Mac, the calls, and what is recorded of each task.
Notices == [kind : {"none", "unclaimed", "dropped"}, by : NoticeSessions \cup {0}]

\* The server, the Mac and the calls as records.
RelayRecord ==
  [state : [TaskIds -> RelayTaskState \cup {"none"}], waiter : SUBSET TaskIds, parked : Nat,
   recovered : SUBSET TaskIds, notice : [TaskIds -> Notices], fresh : BOOLEAN,
   orphans : SUBSET TaskIds]

\* What the Mac holds.
MacRecord == [has : SUBSET TaskIds, running : SUBSET TaskIds, done : SUBSET TaskIds,
              posted : SUBSET TaskIds, again : BOOLEAN]

\* How a call ends.
Ends == {"none", "refused", "cancelled", "watchdog_expired", "session_closed", "answer", "stale",
         "lost"}

\* The calls of the instance.
CallsRecord ==
  [st : [Delegations -> {"none", "chained", "running", "done"}], got : [Delegations -> Ends],
   watchdog : SUBSET Delegations, disposed : BOOLEAN, stops : [Delegations -> Nat]]

\* A state of the whole.
Worlds == [relay : RelayRecord, ledger : [TaskIds -> SUBSET LedgerState], mac : MacRecord,
           calls : CallsRecord]

\* What settles a task of an earlier life.
SettledStates == {"completed", "notice_consumed"} \cup Intents

\* Nobody has heard of task x.
FreshTask(w, x) ==
  /\ w.relay.state[x] = "none" /\ w.ledger[x] = {} /\ w.relay.notice[x] = NoNotice
  /\ x \notin w.mac.running \cup w.mac.done

\* The server, the ledger and the Mac agree on task x.
TaskSound(w, x) ==
  /\ w.relay.state[x] \in {"queued", "leased", "expired", "cancelled"}
          => "acked" \notin w.ledger[x]
  /\ x \in w.mac.running \cup w.mac.done => "acked" \in w.ledger[x]
  /\ x \in w.mac.posted => x \in w.mac.done
  /\ x \in w.relay.orphans => x \in w.mac.posted
  /\ "acked" \in w.ledger[x] /\ x \notin w.mac.posted
     => \/ w.relay.state[x] \in {"acked", "orphaned"}
        \/ w.relay.state[x] = "none" /\ x \in w.relay.recovered
  /\ "completed" \in w.ledger[x] => x \in w.mac.posted
  /\ w.relay.notice[x].kind = "dropped" => "acked" \notin w.ledger[x] /\ w.relay.state[x] = "none"
  /\ w.relay.state[x] = "none" /\ w.ledger[x] # {} /\ w.ledger[x] \cap SettledStates = {}
     => w.relay.notice[x].kind # "none"

\* The call of task t, its waiter, its clocks and the instruction to stop it.
CallSound(w, t) ==
  /\ w.calls.st[t] \in {"none", "chained"} => FreshTask(w, t)
  /\ w.calls.st[t] # "done" => w.calls.got[t] = "none" /\ w.calls.stops[t] = 0
  /\ w.calls.got[t] = "answer" => t \in w.mac.posted
  /\ t \in w.mac.posted => (t \in w.relay.orphans) # (w.calls.got[t] = "answer")
  /\ w.calls.stops[t] <= 1
  /\ w.calls.stops[t] = 0 => FreshTask(w, StopOf(t))
  /\ t \in w.relay.waiter <=> w.calls.st[t] = "running"
  /\ w.calls.st[t] = "running" => \/ w.relay.state[t] \in {"queued", "leased"}
                                  \/ w.relay.state[t] = "acked" /\ t \in w.calls.watchdog
  /\ w.relay.state[t] \in {"queued", "leased"} => w.calls.st[t] = "running"

\* Calls start in their order, each once those before it are done.
InTurn(st) ==
  \A t \in Delegations : \A u \in 1..(t - 1) :
    /\ st[t] # "none" => st[u] # "none"
    /\ st[t] \in {"running", "done"} => st[u] = "done"

\* The parts together.
RelaySound(w) ==
  /\ w \in Worlds
  /\ \A x \in TaskIds : TaskSound(w, x)
  /\ \A t \in Delegations : CallSound(w, t)
  /\ InTurn(w.calls.st) /\ ~w.mac.again

\* What a step leaves alone of a task, up to its lease, and of a call.
SameTask(w, y, x) ==
  /\ \/ y.relay.state[x] = w.relay.state[x]
     \/ {y.relay.state[x], w.relay.state[x]} \subseteq {"queued", "leased"}
  /\ y.ledger[x] = w.ledger[x]
  /\ y.relay.notice[x].kind = w.relay.notice[x].kind
  /\ w.relay.notice[x] = NoNotice => y.relay.notice[x] = NoNotice
  /\ x \in y.mac.running \cup y.mac.done <=> x \in w.mac.running \cup w.mac.done
  /\ x \in w.mac.done => x \in y.mac.done
  /\ x \in y.mac.posted <=> x \in w.mac.posted
  /\ x \in y.relay.orphans <=> x \in w.relay.orphans
  /\ x \in y.relay.recovered <=> x \in w.relay.recovered

\* And of a call.
SameCall(w, y, t) ==
  /\ y.calls.st[t] = w.calls.st[t] /\ y.calls.got[t] = w.calls.got[t]
  /\ y.calls.stops[t] = w.calls.stops[t]
  /\ t \in y.relay.waiter <=> t \in w.relay.waiter
  /\ t \in w.calls.watchdog => t \in y.calls.watchdog

\* The instructions to stop are tasks of their own.
LEMMA TaskNumbers ==
  /\ Delegations \subseteq TaskIds /\ 0 \notin NoticeSessions
  /\ \A t \in Delegations : StopOf(t) \in TaskIds /\ StopOf(t) \notin Delegations
  /\ \A t, u \in Delegations : t # u => StopOf(t) # StopOf(u)
<1> QED BY DEF Delegations, TaskIds, StopOf

\* A task nobody has heard of stays so where nothing changes.
LEMMA FreshKept ==
  ASSUME NEW w, NEW y, NEW x, FreshTask(w, x), SameTask(w, y, x)
  PROVE  FreshTask(y, x)
<1> QED BY DEF FreshTask, SameTask

\* The server, the ledger and the Mac still agree on it.
LEMMA TaskKept ==
  ASSUME NEW w, NEW y, NEW x, TaskSound(w, x), SameTask(w, y, x)
  PROVE  TaskSound(y, x)
<1>1. CASE y.relay.state[x] = w.relay.state[x] BY <1>1 DEF TaskSound, SameTask
<1>2. CASE {y.relay.state[x], w.relay.state[x]} \subseteq {"queued", "leased"}
  BY <1>2 DEF TaskSound, SameTask
<1> QED BY <1>1, <1>2 DEF SameTask

\* And so does its call.
LEMMA CallKept ==
  ASSUME NEW w, NEW y, NEW t, CallSound(w, t), SameTask(w, y, t), SameCall(w, y, t),
         SameTask(w, y, StopOf(t)) \/ w.calls.stops[t] # 0
  PROVE  CallSound(y, t)
<1>1. w.calls.st[t] \in {"none", "chained"} => FreshTask(y, t) BY FreshKept DEF CallSound
<1>2. w.calls.stops[t] = 0 => FreshTask(y, StopOf(t)) BY FreshKept DEF CallSound
<1>3. /\ t \in y.mac.posted <=> t \in w.mac.posted
      /\ t \in y.relay.orphans <=> t \in w.relay.orphans
      /\ \/ y.relay.state[t] = w.relay.state[t]
         \/ {y.relay.state[t], w.relay.state[t]} \subseteq {"queued", "leased"}
  BY DEF SameTask
<1>4. CASE y.relay.state[t] = w.relay.state[t] BY <1>1, <1>2, <1>3, <1>4 DEF CallSound, SameCall
<1>5. CASE {y.relay.state[t], w.relay.state[t]} \subseteq {"queued", "leased"}
  BY <1>1, <1>2, <1>3, <1>5 DEF CallSound, SameCall
<1> QED BY <1>3, <1>4, <1>5

\* A step is checked where it changes something.
LEMMA Frame ==
  ASSUME NEW w, RelaySound(w), NEW y \in Worlds,
         \A x \in TaskIds : SameTask(w, y, x) \/ TaskSound(y, x),
         \A t \in Delegations : \/ CallSound(y, t)
                                \/ /\ SameTask(w, y, t) /\ SameCall(w, y, t)
                                   /\ SameTask(w, y, StopOf(t)) \/ w.calls.stops[t] # 0,
         InTurn(y.calls.st), ~y.mac.again
  PROVE  RelaySound(y)
<1>1. ASSUME NEW x \in TaskIds PROVE TaskSound(y, x) BY TaskKept DEF RelaySound
<1>2. ASSUME NEW t \in Delegations PROVE CallSound(y, t) BY CallKept DEF RelaySound
<1> QED BY <1>1, <1>2 DEF RelaySound

\* The parts of a state.
LEMMA WorldParts ==
  ASSUME NEW w \in Worlds
  PROVE  /\ w.relay \in RelayRecord /\ w.mac \in MacRecord /\ w.calls \in CallsRecord
         /\ w.ledger \in [TaskIds -> SUBSET LedgerState]
         /\ w.relay.state \in [TaskIds -> RelayTaskState \cup {"none"}]
         /\ w.relay.waiter \in SUBSET TaskIds /\ w.relay.recovered \in SUBSET TaskIds
         /\ w.relay.orphans \in SUBSET TaskIds /\ w.relay.notice \in [TaskIds -> Notices]
         /\ w.relay.parked \in Nat /\ w.relay.fresh \in BOOLEAN
         /\ w.calls.st \in [Delegations -> {"none", "chained", "running", "done"}]
         /\ w.calls.got \in [Delegations -> Ends] /\ w.calls.watchdog \in SUBSET Delegations
         /\ w.calls.stops \in [Delegations -> Nat] /\ w.calls.disposed \in BOOLEAN
         /\ w.mac.has \in SUBSET TaskIds /\ w.mac.running \in SUBSET TaskIds
         /\ w.mac.done \in SUBSET TaskIds /\ w.mac.posted \in SUBSET TaskIds
         /\ w.mac.again \in BOOLEAN
BY DEF Worlds, RelayRecord, MacRecord, CallsRecord

\* A step that changes nothing; and two steps in a row.
LEMMA SameSelf ==
  ASSUME NEW w, NEW x PROVE SameTask(w, w, x) /\ SameCall(w, w, x)
BY DEF SameTask, SameCall

\* Two steps in a row.
LEMMA SameTwice ==
  ASSUME NEW w, NEW v, NEW y, NEW x, SameTask(w, v, x), SameTask(v, y, x)
  PROVE  SameTask(w, y, x)
<1> QED BY DEF SameTask

-----------------------------------------------------------------------------
\* Queued tasks may have been leased, and nothing else happened.
Leased(w, y) ==
  /\ y.ledger = w.ledger /\ y.calls = w.calls /\ y.relay.waiter = w.relay.waiter
  /\ y.relay.recovered = w.relay.recovered /\ y.relay.notice = w.relay.notice
  /\ y.relay.orphans = w.relay.orphans /\ y.mac.running = w.mac.running /\ y.mac.done = w.mac.done
  /\ y.mac.posted = w.mac.posted /\ y.mac.again = w.mac.again
  /\ \A x \in TaskIds : \/ y.relay.state[x] = w.relay.state[x]
                        \/ w.relay.state[x] = "queued" /\ y.relay.state[x] = "leased"

\* A lease disturbs neither tasks nor calls.
LEMMA LeasedSame ==
  ASSUME NEW w, NEW y, Leased(w, y)
  PROVE  /\ \A x \in TaskIds : SameTask(w, y, x)
         /\ \A t \in Delegations : SameCall(w, y, t)
BY DEF Leased, SameTask, SameCall

\* So it keeps the invariant.
LEMMA LeasedSound ==
  ASSUME NEW w, RelaySound(w), NEW y \in Worlds, Leased(w, y)
  PROVE  RelaySound(y)
<1> QED BY LeasedSame, Frame, TaskNumbers DEF RelaySound, Leased

\* A poll that is answered leases what is queued.
LEMMA LeaseQueuedIs ==
  ASSUME NEW w \in Worlds, NEW got \in BOOLEAN, NEW y, y = LeaseQueued(w, got)
  PROVE  y \in Worlds /\ Leased(w, y)
<1> DEFINE st == [t \in TaskIds |-> IF t \in QueuedTasks(w) THEN "leased" ELSE w.relay.state[t]]
           has == IF got THEN w.mac.has \cup QueuedTasks(w) ELSE w.mac.has
           r == [w.relay EXCEPT !.state = st]
           m == [w.mac EXCEPT !.has = has]
<1>1. /\ w.relay \in RelayRecord /\ w.mac \in MacRecord /\ w.mac.has \in SUBSET TaskIds
      /\ w.relay.state \in [TaskIds -> RelayTaskState \cup {"none"}]
  BY WorldParts
<1>2. st \in [TaskIds -> RelayTaskState \cup {"none"}]
      /\ \A x \in TaskIds : \/ st[x] = w.relay.state[x]
                            \/ w.relay.state[x] = "queued" /\ st[x] = "leased"
  BY <1>1 DEF RelayTaskState, QueuedTasks
<1>3. has \in SUBSET TaskIds BY <1>1 DEF QueuedTasks
<1>4. y = [w EXCEPT !.relay = r, !.mac = m] BY <1>1 DEF LeaseQueued, Worlds, RelayRecord, MacRecord
<1> HIDE DEF st, has
<1>5. /\ r \in RelayRecord /\ r.state = st /\ r.waiter = w.relay.waiter
      /\ r.recovered = w.relay.recovered /\ r.notice = w.relay.notice
      /\ r.orphans = w.relay.orphans
  BY <1>1, <1>2 DEF RelayRecord
<1>6. /\ m \in MacRecord /\ m.running = w.mac.running /\ m.done = w.mac.done
      /\ m.posted = w.mac.posted /\ m.again = w.mac.again
  BY <1>1, <1>3 DEF MacRecord
<1> HIDE DEF r, m
<1>7. y \in Worlds /\ y.relay = r /\ y.mac = m /\ y.ledger = w.ledger /\ y.calls = w.calls
  BY <1>4, <1>5, <1>6 DEF Worlds
<1> QED BY <1>2, <1>5, <1>6, <1>7 DEF Leased

\* And so does a parked poll that is woken.
LEMMA WakePollersIs ==
  ASSUME NEW w \in Worlds, NEW y, y = WakePollers(w)
  PROVE  y \in Worlds /\ Leased(w, y)
<1>1. CASE w.relay.parked = 0 BY <1>1 DEF WakePollers, Leased
<1>2. CASE w.relay.parked # 0
  <2> DEFINE r == [w.relay EXCEPT !.parked = 0]
             v == [w EXCEPT !.relay = r]
  <2>1. y = LeaseQueued(v, TRUE) BY <1>2 DEF Worlds, WakePollers
  <2>2. /\ r \in RelayRecord /\ r.state = w.relay.state /\ r.waiter = w.relay.waiter
        /\ r.recovered = w.relay.recovered /\ r.notice = w.relay.notice
        /\ r.orphans = w.relay.orphans
    BY WorldParts DEF RelayRecord
  <2> HIDE DEF r
  <2>3. v \in Worlds /\ v.relay = r /\ v.mac = w.mac /\ v.ledger = w.ledger /\ v.calls = w.calls
    BY <2>2 DEF Worlds
  <2> HIDE DEF v
  <2>4. y \in Worlds /\ Leased(v, y) BY <2>1, <2>3, LeaseQueuedIs
  <2> QED BY <2>2, <2>3, <2>4 DEF Leased
<1> QED BY <1>1, <1>2

\* A state is recorded of task x.
Writes(w, x, s) == [w EXCEPT !.ledger[x] = @ \cup {s}]

\* Recording a state of a task changes the ledger alone.
LEMMA Recorded ==
  ASSUME NEW w \in Worlds, NEW x \in TaskIds, NEW s \in LedgerState,
         NEW y, y = Writes(w, x, s)
  PROVE  /\ y \in Worlds /\ y.relay = w.relay /\ y.mac = w.mac /\ y.calls = w.calls
         /\ y.ledger[x] = w.ledger[x] \cup {s}
         /\ \A z \in TaskIds \ {x} : y.ledger[z] = w.ledger[z]
<1> DEFINE l == [w.ledger EXCEPT ![x] = w.ledger[x] \cup {s}]
<1>1. y = [w EXCEPT !.ledger = l] BY DEF Writes, Worlds
<1>2. l \in [TaskIds -> SUBSET LedgerState] /\ l[x] = w.ledger[x] \cup {s}
      /\ \A z \in TaskIds \ {x} : l[z] = w.ledger[z]
  BY WorldParts
<1> HIDE DEF l
<1> QED BY <1>2, <1>1 DEF Worlds

\* An append that may fail.
LEMMA LedgerAppendIs ==
  ASSUME NEW w \in Worlds, NEW x \in TaskIds, NEW s \in LedgerState,
         NEW y, y = w \/ y = Writes(w, x, s)
  PROVE  /\ y \in Worlds /\ y.relay = w.relay /\ y.mac = w.mac /\ y.calls = w.calls
         /\ y.ledger[x] \in {w.ledger[x], w.ledger[x] \cup {s}}
         /\ \A z \in TaskIds \ {x} : y.ledger[z] = w.ledger[z]
<1>1. CASE y = w BY <1>1
<1>2. CASE y = Writes(w, x, s) BY <1>2, Recorded
<1> QED BY <1>1, <1>2

\* What submit() leaves alone.
Submitted(w, y, x) ==
  /\ y \in Worlds /\ y.calls = w.calls /\ y.relay.waiter = w.relay.waiter \cup {x}
  /\ y.relay.state[x] \in {"queued", "leased"}
          /\ y.ledger[x] \subseteq w.ledger[x] \cup {"submitted"}
  /\ \A z \in TaskIds \ {x} : SameTask(w, y, z)
  /\ y.relay.recovered = w.relay.recovered /\ y.relay.notice = w.relay.notice
  /\ y.relay.orphans = w.relay.orphans /\ y.mac.running = w.mac.running /\ y.mac.done = w.mac.done
  /\ y.mac.posted = w.mac.posted /\ y.mac.again = w.mac.again

\* A task that is submitted.
LEMMA SubmitTaskIs ==
  ASSUME NEW w \in Worlds, NEW x \in TaskIds, NEW ok \in BOOLEAN, NEW y, y = SubmitTask(w, x, ok)
  PROVE  Submitted(w, y, x)
<1> DEFINE v == LedgerAppend(w, x, "submitted", ok)
           r == [v.relay EXCEPT !.state = [v.relay.state EXCEPT ![x] = "queued"],
                                !.waiter = v.relay.waiter \cup {x}]
           z == [v EXCEPT !.relay = r]
<1>1. /\ v \in Worlds /\ v.relay = w.relay /\ v.mac = w.mac /\ v.calls = w.calls
      /\ v.ledger[x] \subseteq w.ledger[x] \cup {"submitted"}
      /\ \A a \in TaskIds \ {x} : v.ledger[a] = w.ledger[a]
  <2> DEFINE s == "submitted"
  <2>1. s \in LedgerState BY DEF LedgerState
  <2> HIDE DEF s
  <2>2. v = w \/ v = Writes(w, x, s) BY DEF s, LedgerAppend, Writes
  <2> HIDE DEF v
  <2> QED BY <2>1, <2>2, LedgerAppendIs DEF s
<1>2. y = WakePollers([v EXCEPT !.relay.state[x] = "queued", !.relay.waiter = @ \cup {x}])
  BY DEF SubmitTask
<1> HIDE DEF v
<1>4. y = WakePollers(z) BY <1>2, <1>1 DEF Worlds, RelayRecord
<1>5. /\ r \in RelayRecord /\ r.state[x] = "queued" /\ r.waiter = w.relay.waiter \cup {x}
      /\ \A a \in TaskIds \ {x} : r.state[a] = w.relay.state[a]
      /\ r.recovered = w.relay.recovered /\ r.notice = w.relay.notice
      /\ r.orphans = w.relay.orphans
  <2> DEFINE s == [v.relay.state EXCEPT ![x] = "queued"]
             u == v.relay.waiter \cup {x}
  <2>1. v.relay \in RelayRecord /\ v.relay.state \in [TaskIds -> RelayTaskState \cup {"none"}]
        /\ v.relay.waiter \in SUBSET TaskIds
    BY <1>1, WorldParts
  <2>2. s \in [TaskIds -> RelayTaskState \cup {"none"}] /\ u \in SUBSET TaskIds /\ s[x] = "queued"
        /\ \A a \in TaskIds \ {x} : s[a] = v.relay.state[a]
    BY <2>1 DEF RelayTaskState
  <2>4. r = [v.relay EXCEPT !.state = s, !.waiter = u] OBVIOUS
  <2> HIDE DEF s, u, r
  <2> QED BY <1>1, <2>2, <2>1, <2>4 DEF u, RelayRecord
<1> HIDE DEF r
<1>6. z \in Worlds /\ z.relay = r /\ z.mac = w.mac /\ z.calls = w.calls /\ z.ledger = v.ledger
  BY <1>1, <1>5 DEF Worlds
<1> HIDE DEF z
<1>7. y \in Worlds /\ Leased(z, y) BY <1>4, <1>6, WakePollersIs
<1>8. \A a \in TaskIds \ {x} : SameTask(w, y, a)
  <2>1. ASSUME NEW a \in TaskIds \ {x} PROVE SameTask(w, z, a) BY <1>1, <1>5, <1>6 DEF SameTask
  <2> QED BY <1>7, <2>1, LeasedSame, SameTwice
<1> QED BY <1>1, <1>5, <1>6, <1>7, <1>8 DEF Leased, Submitted

\* Nobody had heard of it, so all agree on it.
LEMMA SubmittedSound ==
  ASSUME NEW w, NEW x \in TaskIds, TaskSound(w, x), FreshTask(w, x), NEW y, Submitted(w, y, x)
  PROVE  TaskSound(y, x) /\ x \notin y.mac.posted /\ x \notin y.relay.orphans
<1> QED BY DEF TaskSound, Submitted, FreshTask, NoNotice

\* The call of t ends, and nothing else happens.
Ended(w, y, t, got) ==
  /\ y \in Worlds /\ y.ledger = w.ledger /\ y.mac = w.mac
  /\ y.relay.waiter = w.relay.waiter \ {t} /\ y.relay.state = w.relay.state
  /\ y.relay.recovered = w.relay.recovered /\ y.relay.notice = w.relay.notice
  /\ y.relay.orphans = w.relay.orphans
  /\ y.calls.st = [w.calls.st EXCEPT ![t] = "done"]
          /\ y.calls.got = [w.calls.got EXCEPT ![t] = got]
  /\ y.calls.stops = w.calls.stops /\ y.calls.watchdog = w.calls.watchdog \ {t}

\* What the end of a call changes.
LEMMA CallEndsIs ==
  ASSUME NEW w \in Worlds, NEW t \in Delegations, NEW got \in Ends, NEW y, y = CallEnds(w, t, got)
  PROVE  Ended(w, y, t, got)
<1> DEFINE st == [w.calls.st EXCEPT ![t] = "done"]
           g == [w.calls.got EXCEPT ![t] = got]
           wd == w.calls.watchdog \ {t}
           wt == w.relay.waiter \ {t}
           c == [w.calls EXCEPT !.st = st, !.got = g, !.watchdog = wd]
           r == [w.relay EXCEPT !.waiter = wt]
<1>1. /\ w.relay \in RelayRecord /\ w.calls \in CallsRecord
      /\ st \in [Delegations -> {"none", "chained", "running", "done"}]
      /\ g \in [Delegations -> Ends] /\ wd \in SUBSET Delegations /\ wt \in SUBSET TaskIds
  BY WorldParts
<1>2. y = [w EXCEPT !.calls = c, !.relay = r]
  BY <1>1 DEF CallEnds, Worlds, RelayRecord, CallsRecord
<1> HIDE DEF st, g, wd, wt
<1>3. c \in CallsRecord /\ c.st = st /\ c.got = g /\ c.watchdog = wd /\ c.stops = w.calls.stops
  BY <1>1 DEF CallsRecord
<1>4. /\ r \in RelayRecord /\ r.waiter = wt /\ r.state = w.relay.state
      /\ r.recovered = w.relay.recovered /\ r.notice = w.relay.notice
              /\ r.orphans = w.relay.orphans
  BY <1>1 DEF RelayRecord
<1> HIDE DEF c, r
<1> QED BY <1>3, <1>4, <1>2 DEF Ended, st, g, wd, wt, Worlds

\* The calls of an instance still take turns.
LEMMA NextInTurn ==
  ASSUME NEW st \in [Delegations -> {"none", "chained", "running", "done"}], InTurn(st),
         NEW t \in Delegations, st[t] # "done", \A u \in 1..(t - 1) : st[u] = "done",
         NEW a \in {"running", "done"}
  PROVE  InTurn([st EXCEPT ![t] = a])
<1> DEFINE s == [st EXCEPT ![t] = a]
<1>1. \A u \in Delegations : s[u] = IF u = t THEN a ELSE st[u] OBVIOUS
<1>2. \A u \in Delegations : \A v \in 1..(u - 1) : v \in Delegations BY DEF Delegations
<1> HIDE DEF s
<1>3. ASSUME NEW u \in Delegations, NEW v \in 1..(u - 1)
      PROVE  (s[u] # "none" => s[v] # "none") /\ (s[u] \in {"running", "done"} => s[v] = "done")
  <2>1. v \in Delegations /\ (st[u] # "none" => st[v] # "none")
        /\ (st[u] \in {"running", "done"} => st[v] = "done")
    BY <1>2 DEF InTurn
  <2>2. CASE u = t BY <2>2, <1>3, <1>1, <2>1 DEF Delegations
  <2>3. CASE u # t BY <1>1, <2>1, <2>3
  <2> QED BY <2>2, <2>3
<1> QED BY <1>3 DEF InTurn, s

\* The calls before one that runs are done.
LEMMA RunningInTurn ==
  ASSUME NEW st \in [Delegations -> {"none", "chained", "running", "done"}], InTurn(st),
         NEW t \in Delegations, st[t] = "running"
  PROVE  \A u \in 1..(t - 1) : st[u] = "done"
BY DEF InTurn

-----------------------------------------------------------------------------
\* A call that waits is given up: its task is revoked, or told to stop.
LEMMA GivesUpSound ==
  ASSUME NEW w, RelaySound(w), NEW t \in Delegations, w.calls.st[t] = "running",
         NEW reason \in Intents, NEW ok \in BOOLEAN,
         NEW y, y = CallEnds(CancelTask(w, t, reason, ok), t, reason)
  PROVE  RelaySound(y)
<1> DEFINE v == LedgerAppend(w, t, reason, ok)
           c == CancelTask(w, t, reason, ok)
<1>1. /\ w \in Worlds /\ t \in TaskIds /\ TaskSound(w, t) /\ CallSound(w, t)
      /\ InTurn(w.calls.st) /\ ~w.mac.again /\ reason \in LedgerState /\ reason \in Ends
      /\ reason \notin {"acked", "completed", "answer"} /\ reason \in SettledStates
  BY TaskNumbers DEF RelaySound, Intents, LedgerState, Ends, SettledStates
<1>2. /\ v \in Worlds /\ v.relay = w.relay /\ v.mac = w.mac /\ v.calls = w.calls
      /\ v.ledger[t] \in {w.ledger[t], w.ledger[t] \cup {reason}}
      /\ \A z \in TaskIds \ {t} : v.ledger[z] = w.ledger[z]
  <2>1. v = w \/ v = Writes(w, t, reason) BY DEF LedgerAppend, Writes
  <2> HIDE DEF v
  <2> QED BY <1>1, <2>1, LedgerAppendIs
<1>3. /\ w.calls.got[t] = "none" /\ w.calls.stops[t] = 0 /\ FreshTask(w, StopOf(t))
      /\ \/ w.relay.state[t] \in {"queued", "leased"}
         \/ w.relay.state[t] = "acked"
      /\ t \in w.mac.posted => t \in w.relay.orphans
  BY <1>1 DEF CallSound
<1>4. /\ StopOf(t) \in TaskIds /\ StopOf(t) \notin Delegations
      /\ \A u \in Delegations : StopOf(u) \in TaskIds /\ StopOf(u) # t
      /\ \A u \in Delegations : u \in TaskIds /\ u # StopOf(t) /\ (u # t => StopOf(u) # StopOf(t))
  BY TaskNumbers
<1>5. /\ w.calls.st \in [Delegations -> {"none", "chained", "running", "done"}]
      /\ w.calls.got \in [Delegations -> Ends] /\ w.calls.stops \in [Delegations -> Nat]
      /\ InTurn([w.calls.st EXCEPT ![t] = "done"])
      /\ w.relay \in RelayRecord /\ w.calls \in CallsRecord
  BY <1>1, WorldParts, RunningInTurn, NextInTurn
<1>6. CASE w.relay.state[t] \in {"queued", "leased"}
  <2>1. c = [v EXCEPT !.relay.state[t] = "cancelled", !.relay.waiter = @ \ {t}]
    BY <1>6 DEF CancelTask
  <2> HIDE DEF v
  <2>2. /\ c \in Worlds /\ c.mac = w.mac /\ c.calls = w.calls /\ c.ledger = v.ledger
        /\ c.relay.state = [w.relay.state EXCEPT ![t] = "cancelled"]
        /\ c.relay.waiter = w.relay.waiter \ {t}
        /\ c.relay.recovered = w.relay.recovered /\ c.relay.notice = w.relay.notice
        /\ c.relay.orphans = w.relay.orphans
    <3> DEFINE s == [w.relay.state EXCEPT ![t] = "cancelled"]
               u == w.relay.waiter \ {t}
               r == [w.relay EXCEPT !.state = s, !.waiter = u]
    <3>1. c = [v EXCEPT !.relay = r] BY <1>1, <1>2, <2>1 DEF Worlds, RelayRecord
    <3>2. s \in [TaskIds -> RelayTaskState \cup {"none"}] /\ u \in SUBSET TaskIds
      BY <1>1, WorldParts DEF RelayTaskState
    <3> HIDE DEF s, u
    <3>3. /\ r \in RelayRecord /\ r.state = s /\ r.waiter = u /\ r.recovered = w.relay.recovered
          /\ r.notice = w.relay.notice /\ r.orphans = w.relay.orphans
      BY <1>5, <3>2 DEF RelayRecord
    <3> HIDE DEF r, c
    <3> QED BY <1>2, <3>3, <3>1 DEF s, u, Worlds
  <2> HIDE DEF c
  <2>3. Ended(c, y, t, reason) BY <1>1, <2>2, CallEndsIs DEF c
  <2>4. /\ y \in Worlds /\ y.mac = w.mac /\ y.ledger = v.ledger
        /\ y.relay.state = [w.relay.state EXCEPT ![t] = "cancelled"]
        /\ y.relay.waiter = w.relay.waiter \ {t}
        /\ y.relay.recovered = w.relay.recovered /\ y.relay.notice = w.relay.notice
        /\ y.relay.orphans = w.relay.orphans
        /\ y.calls.st = [w.calls.st EXCEPT ![t] = "done"]
        /\ y.calls.got = [w.calls.got EXCEPT ![t] = reason]
        /\ y.calls.stops = w.calls.stops /\ y.calls.watchdog = w.calls.watchdog \ {t}
    BY <2>2, <2>3 DEF Ended
  <2>5. ASSUME NEW x \in TaskIds, x # t PROVE SameTask(w, y, x)
    BY <1>1, <1>2, <2>4, <2>5, WorldParts DEF SameTask
  <2>6. y.relay.state[t] = "cancelled" /\ y.calls.st[t] = "done" /\ y.calls.got[t] = reason
        /\ y.calls.stops[t] = 0 /\ t \notin y.relay.waiter
    BY <1>1, <1>3, <1>5, <2>4, WorldParts
  <2>7. TaskSound(y, t) BY <1>1, <1>2, <1>6, <2>4, <2>6 DEF TaskSound
  <2>9. CallSound(y, t) BY <1>1, <1>3, <2>4, <2>6, <1>4, <2>5, FreshKept DEF CallSound
  <2>10. ASSUME NEW u \in Delegations, u # t
         PROVE  SameTask(w, y, u) /\ SameCall(w, y, u) /\ SameTask(w, y, StopOf(u))
    BY <1>5, <2>4, <2>10, <1>4, <2>5 DEF SameCall
  <2> QED BY <1>1, <1>5, <2>4, <2>5, <2>7, <2>9, <2>10, Frame
<1>7. CASE w.relay.state[t] = "acked"
  <2> DEFINE z == [v EXCEPT !.relay.state[t] = "orphaned", !.relay.waiter = @ \ {t},
                            !.calls.stops[t] = @ + 1]
  <2>1. c = SubmitTask(z, StopOf(t), TRUE) BY <1>7 DEF CancelTask
  <2> HIDE DEF v, c
  <2>2. /\ z \in Worlds /\ z.mac = w.mac /\ z.ledger = v.ledger
        /\ z.relay.state = [w.relay.state EXCEPT ![t] = "orphaned"]
        /\ z.relay.waiter = w.relay.waiter \ {t}
        /\ z.relay.recovered = w.relay.recovered /\ z.relay.notice = w.relay.notice
        /\ z.relay.orphans = w.relay.orphans
        /\ z.calls.st = w.calls.st /\ z.calls.got = w.calls.got
        /\ z.calls.watchdog = w.calls.watchdog
        /\ z.calls.stops = [w.calls.stops EXCEPT ![t] = 1]
    <3> DEFINE s == [w.relay.state EXCEPT ![t] = "orphaned"]
               u == w.relay.waiter \ {t}
               k == [w.calls.stops EXCEPT ![t] = 1]
               r == [w.relay EXCEPT !.state = s, !.waiter = u]
               e == [w.calls EXCEPT !.stops = k]
    <3>1. z = [v EXCEPT !.relay = r, !.calls = e]
      <4>1. w.calls.stops[t] + 1 = 1 BY <1>3
      <4> QED BY <1>1, <1>2, <4>1 DEF Worlds, RelayRecord, CallsRecord
    <3>2. s \in [TaskIds -> RelayTaskState \cup {"none"}] /\ u \in SUBSET TaskIds
          /\ k \in [Delegations -> Nat]
      BY <1>1, WorldParts DEF RelayTaskState
    <3> HIDE DEF s, u, k
    <3>3. /\ r \in RelayRecord /\ r.state = s /\ r.waiter = u /\ r.recovered = w.relay.recovered
          /\ r.notice = w.relay.notice /\ r.orphans = w.relay.orphans
      BY <1>5, <3>2 DEF RelayRecord
    <3>4. /\ e \in CallsRecord /\ e.stops = k /\ e.st = w.calls.st /\ e.got = w.calls.got
          /\ e.watchdog = w.calls.watchdog
      BY <1>5, <3>2 DEF CallsRecord
    <3> HIDE DEF r, e, z
    <3> QED BY <1>2, <3>3, <3>4, <3>1 DEF s, u, k, Worlds
  <2> HIDE DEF z
  <2>3. Submitted(z, c, StopOf(t)) BY <1>4, <2>1, <2>2, SubmitTaskIs
  <2>4. Ended(c, y, t, reason) BY <1>1, <2>3, CallEndsIs DEF Submitted, c
  <2>5. ASSUME NEW x \in TaskIds, x # t PROVE SameTask(w, z, x)
    BY <1>1, <1>2, <2>2, <2>5, WorldParts DEF SameTask
  <2>6. \A x \in TaskIds : SameTask(c, y, x) BY <2>4 DEF Ended, SameTask
  <2>7. ASSUME NEW x \in TaskIds, x # t, x # StopOf(t) PROVE SameTask(w, y, x)
    BY <2>3, <2>5, <2>6, <2>7, SameTwice DEF Submitted
  <2>8. TaskSound(y, StopOf(t))
    BY <1>4, <2>5, <1>3, TaskKept, FreshKept, <2>3, SubmittedSound, <2>6 DEF RelaySound
  <2>9. /\ y.relay.state[t] = "orphaned" /\ y.ledger[t] = v.ledger[t]
        /\ y.relay.notice = w.relay.notice /\ y.relay.recovered = w.relay.recovered
        /\ y.relay.orphans = w.relay.orphans /\ y.mac.posted = w.mac.posted
        /\ y.mac.running = w.mac.running /\ y.mac.done = w.mac.done /\ y.mac.again = w.mac.again
    BY <1>1, <2>2, WorldParts, <1>4, <2>3, <2>4 DEF Submitted, SameTask, Ended
  <2>10. TaskSound(y, t) BY <1>1, <1>2, <1>7, <2>9 DEF TaskSound
  <2>11. /\ y \in Worlds /\ y.calls.st = [w.calls.st EXCEPT ![t] = "done"]
         /\ y.calls.got = [w.calls.got EXCEPT ![t] = reason]
         /\ y.calls.stops = [w.calls.stops EXCEPT ![t] = 1]
         /\ y.calls.watchdog = w.calls.watchdog \ {t}
         /\ y.relay.waiter = ((w.relay.waiter \ {t}) \cup {StopOf(t)}) \ {t}
    BY <2>2, <2>3, <2>4 DEF Submitted, Ended
  <2>12. CallSound(y, t) BY <1>5, <2>11, <1>1, <1>3, <2>9 DEF CallSound
  <2>13. ASSUME NEW u \in Delegations, u # t
         PROVE  SameTask(w, y, u) /\ SameCall(w, y, u) /\ SameTask(w, y, StopOf(u))
    BY <1>5, <2>11, <2>13, <1>4, <2>7 DEF SameCall
  <2>14. ~y.mac.again /\ InTurn(y.calls.st) BY <1>1, <1>5, <2>9, <2>11
  <2> QED BY <2>7, <2>8, <2>10, <2>11, <2>12, <2>13, <2>14, Frame
<1> QED BY <1>3, <1>6, <1>7

-----------------------------------------------------------------------------
\* The inductive invariant.
SutandoInv == RelaySound(World)

\* What the invariant says of the variables.
LEMMA WorldIs ==
  ASSUME SutandoInv
  PROVE  /\ RelaySound(World) /\ World \in Worlds /\ World.relay = relay /\ World.ledger = ledger
         /\ World.mac = mac /\ World.calls = calls /\ InTurn(calls.st) /\ ~mac.again
<1> QED BY DEF SutandoInv, RelaySound, World

\* A step to a state that is sound keeps the invariant.
LEMMA TurnsSound ==
  ASSUME NEW y, RelaySound(y), NEW ok, Turns(y, ok)
  PROVE  SutandoInv'
<1>2. World' = y BY DEF World, Turns, RelaySound, Worlds
<1> QED BY <1>2 DEF SutandoInv, RelaySound, TaskSound, CallSound, FreshTask, InTurn

\* One lemma per action.  A call is chained behind the others.
LEMMA InvokeSutandoKeeps ==
  ASSUME SutandoInv, NEW t \in Delegations, InvokeSutando(t)
  PROVE  SutandoInv'
<1> DEFINE st == [calls.st EXCEPT ![t] = "chained"]
           c == [calls EXCEPT !.st = st]
           y == [World EXCEPT !.calls = c]
<1>1. calls.st[t] = "none" /\ \A u \in 1..(t - 1) : calls.st[u] # "none" BY DEF InvokeSutando
<1>2. /\ RelaySound(World) /\ World \in Worlds /\ World.relay = relay /\ World.ledger = ledger
      /\ World.mac = mac /\ World.calls = calls /\ InTurn(calls.st) /\ ~mac.again
      /\ calls \in CallsRecord /\ calls.st \in [Delegations -> {"none", "chained", "running",
              "done"}]
  BY WorldIs, WorldParts
<1>3. Turns(y, TRUE) BY <1>2 DEF Worlds, CallsRecord, InvokeSutando
<1>4. st \in [Delegations -> {"none", "chained", "running", "done"}]
      /\ \A u \in Delegations : st[u] = IF u = t THEN "chained" ELSE calls.st[u]
  BY <1>2
<1>5. InTurn(st)
  <2>1. \A u \in Delegations : \A v \in 1..(u - 1) : v \in Delegations BY DEF Delegations
  <2> HIDE DEF st
  <2>2. ASSUME NEW u \in Delegations, NEW v \in 1..(u - 1)
        PROVE  (st[u] # "none" => st[v] # "none")
               /\ (st[u] \in {"running", "done"} => st[v] = "done")
    <3>1. v \in Delegations /\ (calls.st[u] # "none" => calls.st[v] # "none")
          /\ (calls.st[u] \in {"running", "done"} => calls.st[v] = "done")
      BY <1>2, <2>1 DEF InTurn
    <3>2. CASE u = t BY <1>1, <2>2, <3>2, <1>4, <3>1
    <3>3. CASE u # t BY <1>1, <1>4, <3>1, <3>3
    <3> QED BY <3>2, <3>3
  <2> QED BY <2>2 DEF InTurn
<1> HIDE DEF st
<1>6. c \in CallsRecord /\ c.st = st /\ c.got = calls.got /\ c.stops = calls.stops
      /\ c.watchdog = calls.watchdog
  BY <1>2, <1>4 DEF CallsRecord
<1> HIDE DEF c
<1>7. y \in Worlds /\ y.calls = c /\ y.relay = relay /\ y.ledger = ledger /\ y.mac = mac
  BY <1>2, <1>6 DEF Worlds
<1>8. \A x \in TaskIds : SameTask(World, y, x) BY <1>2, <1>7 DEF SameTask
<1>9. CallSound(y, t)
  BY <1>1, <1>2, TaskNumbers, <1>8, FreshKept, <1>4, <1>6, <1>7 DEF RelaySound, CallSound,
      FreshTask
<1>10. ASSUME NEW u \in Delegations, u # t PROVE SameCall(World, y, u)
  BY <1>2, <1>4, <1>6, <1>7, <1>10 DEF SameCall
<1> HIDE DEF y
<1>11. RelaySound(y) BY <1>2, <1>5, <1>6, <1>7, <1>8, <1>9, <1>10, TaskNumbers, Frame
<1> QED BY <1>3, <1>11, TurnsSound

\* The call at the head of the chain is refused, or submits its task.
LEMMA RunOneKeeps ==
  ASSUME SutandoInv, NEW t \in Delegations, RunOne(t)
  PROVE  SutandoInv'
<1> DEFINE w == World
<1>1. /\ RelaySound(w) /\ w \in Worlds /\ w.relay = relay /\ w.ledger = ledger
      /\ w.mac = mac /\ w.calls = calls /\ InTurn(calls.st) /\ ~mac.again
      /\ calls.st \in [Delegations -> {"none", "chained", "running", "done"}]
  BY WorldIs, WorldParts
<1>2. calls.st[t] = "chained" /\ \A u \in 1..(t - 1) : calls.st[u] = "done" BY DEF RunOne
<1>3. /\ TaskSound(w, t) /\ CallSound(w, t) /\ FreshTask(w, t) /\ t \in TaskIds
      /\ calls.got[t] = "none" /\ calls.stops[t] = 0 /\ FreshTask(w, StopOf(t))
      /\ t \notin mac.posted /\ t \notin relay.waiter
  BY <1>1, <1>2, TaskNumbers DEF RelaySound, CallSound, FreshTask, TaskSound
<1>4. /\ StopOf(t) \in TaskIds /\ StopOf(t) # t
      /\ \A u \in Delegations : u \in TaskIds /\ StopOf(u) \in TaskIds /\ StopOf(u) # t
  BY TaskNumbers
<1>5. PICK ok \in BOOLEAN, gone \in BOOLEAN :
        IF calls.disposed \/ gone THEN Turns(CallEnds(w, t, "refused"), TRUE) /\ ok
        ELSE LET v == [w EXCEPT !.calls.st[t] = "running"]
             IN  Turns(SubmitTask([v EXCEPT !.calls.watchdog =
                                     IF relay.fresh THEN @ \cup {t} ELSE @], t, ok), ok)
  BY DEF RunOne
<1>6. CASE calls.disposed \/ gone
  <2> DEFINE y == CallEnds(w, t, "refused")
  <2>1. Turns(y, TRUE) BY <1>5, <1>6
  <2>2. Ended(w, y, t, "refused")
    <3> DEFINE r == "refused"
    <3>1. r \in Ends BY DEF Ends
    <3> HIDE DEF r, w
    <3> QED BY <1>1, <3>1, CallEndsIs DEF r
  <2> HIDE DEF y, w
  <2>3. \A x \in TaskIds : SameTask(w, y, x) BY <2>2 DEF Ended, SameTask
  <2>5. CallSound(y, t)
    BY <1>3, <1>4, <2>3, FreshKept, <1>1, <2>2, WorldParts DEF Ended, CallSound, FreshTask
  <2>6. ASSUME NEW u \in Delegations, u # t PROVE SameCall(w, y, u)
    BY <1>1, <2>2, <2>6, WorldParts DEF Ended, SameCall
  <2>7. InTurn(y.calls.st) /\ ~y.mac.again
    <3> DEFINE d == "done"
    <3>1. d \in {"running", "done"} /\ calls.st[t] # "done" BY <1>2
    <3> HIDE DEF d
    <3>2. InTurn([calls.st EXCEPT ![t] = d]) BY <1>1, <1>2, <3>1, NextInTurn
    <3> QED BY <1>1, <2>2, <3>2 DEF Ended, d
  <2>8. RelaySound(y) BY <1>1, <1>4, <2>2, <2>3, <2>5, <2>6, <2>7, Frame DEF Ended
  <2> QED BY <2>1, <2>8, TurnsSound
<1>7. CASE ~(calls.disposed \/ gone)
  <2> DEFINE v == [w EXCEPT !.calls.st[t] = "running"]
             z == [v EXCEPT !.calls.watchdog = IF relay.fresh THEN @ \cup {t} ELSE @]
             y == SubmitTask(z, t, ok)
  <2>1. Turns(y, ok) BY <1>5, <1>7
  <2>2. /\ z \in Worlds /\ z.relay = relay /\ z.mac = mac /\ z.ledger = ledger
        /\ z.calls.st = [calls.st EXCEPT ![t] = "running"] /\ z.calls.got = calls.got
        /\ z.calls.stops = calls.stops /\ calls.watchdog \subseteq z.calls.watchdog
    <3> DEFINE s == [calls.st EXCEPT ![t] = "running"]
               d == IF relay.fresh THEN calls.watchdog \cup {t} ELSE calls.watchdog
               e == [calls EXCEPT !.st = s]
               f == [e EXCEPT !.watchdog = d]
    <3>1. s \in [Delegations -> {"none", "chained", "running", "done"}]
          /\ d \in SUBSET Delegations
          /\ calls.watchdog \subseteq d /\ calls \in CallsRecord
      BY <1>1, WorldParts
    <3>2. v = [w EXCEPT !.calls = e] BY <1>1 DEF Worlds, CallsRecord
    <3> HIDE DEF s, d, w
    <3>3. /\ e \in CallsRecord /\ e.st = s /\ e.got = calls.got /\ e.stops = calls.stops
          /\ e.watchdog = calls.watchdog
      BY <3>1 DEF CallsRecord
    <3> HIDE DEF e, v
    <3>4. /\ v \in Worlds /\ v.calls = e /\ v.relay = relay /\ v.mac = mac /\ v.ledger = ledger
      BY <1>1, <3>2, <3>3 DEF Worlds
    <3>5. z = [v EXCEPT !.calls = f] BY <3>3, <3>4 DEF Worlds, CallsRecord, d
    <3>6. /\ f \in CallsRecord /\ f.st = s /\ f.got = calls.got /\ f.stops = calls.stops
          /\ f.watchdog = d
      BY <3>1, <3>3 DEF CallsRecord
    <3> HIDE DEF f, z
    <3> QED BY <3>1, <3>6, <3>4, <3>5 DEF s, Worlds
  <2> HIDE DEF z, w
  <2>3. Submitted(z, y, t) BY <1>3, <2>2, SubmitTaskIs
  <2> HIDE DEF y
  <2>4. \A x \in TaskIds : SameTask(w, z, x) BY <1>1, <2>2 DEF SameTask
  <2>5. ASSUME NEW x \in TaskIds, x # t PROVE SameTask(w, y, x)
    BY <2>3, <2>5, <2>4, SameTwice DEF Submitted
  <2>6. TaskSound(y, t) /\ t \notin y.mac.posted /\ t \notin y.relay.orphans
    BY <1>3, <2>4, TaskKept, FreshKept, <2>3, SubmittedSound
  <2>7. CallSound(y, t)
    BY <1>3, <1>4, <2>5, FreshKept, <1>1, <2>2, <2>3, <2>6 DEF Submitted, CallSound
  <2>8. ASSUME NEW u \in Delegations, u # t PROVE SameCall(w, y, u)
    BY <1>1, <2>2, <2>3, <2>8 DEF Submitted, SameCall
  <2>9. InTurn(y.calls.st) /\ ~y.mac.again /\ y \in Worlds
    <3>1. InTurn([calls.st EXCEPT ![t] = "running"]) BY <1>1, <1>2, NextInTurn
    <3> QED BY <1>1, <2>2, <2>3, <3>1 DEF Submitted
  <2>10. RelaySound(y) BY <1>1, <1>4, <2>5, <2>6, <2>7, <2>8, <2>9, Frame
  <2> QED BY <2>1, <2>10, TurnsSound
<1> QED BY <1>6, <1>7

\* A call is aborted, or its watchdog fires.
LEMMA CallGivesUpKeeps ==
  ASSUME SutandoInv, NEW t \in Delegations, NEW reason \in {"cancelled", "watchdog_expired"},
         CallGivesUp(t, reason)
  PROVE  SutandoInv'
<1>1. RelaySound(World) /\ World.calls = calls BY WorldIs
<1>2. PICK ok \in BOOLEAN : Turns(CallEnds(CancelTask(World, t, reason, ok), t, reason), ok)
  BY DEF CallGivesUp
<1> QED BY <1>2, TurnsSound, <1>1, GivesUpSound DEF CallGivesUp, Intents

\* The instance is disposed, with the call that runs.
LEMMA DisposeSutandoKeeps ==
  ASSUME SutandoInv, DisposeSutando PROVE SutandoInv'
<1> DEFINE c == [calls EXCEPT !.disposed = TRUE]
           v == [World EXCEPT !.calls = c]
           gone == {t \in Delegations : calls.st[t] = "running"}
           t == CHOOSE t \in gone : TRUE
<1>1. /\ RelaySound(World) /\ World \in Worlds /\ World.relay = relay /\ World.ledger = ledger
      /\ World.mac = mac /\ World.calls = calls /\ InTurn(calls.st) /\ ~mac.again
      /\ calls \in CallsRecord
  BY WorldIs, WorldParts
<1>2. [World EXCEPT !.calls.disposed = TRUE] = v BY <1>1 DEF Worlds, CallsRecord
<1>3. PICK ok \in BOOLEAN :
        IF gone = {} THEN Turns(v, TRUE) /\ ok
        ELSE Turns(CallEnds(CancelTask(v, t, "session_closed", ok), t, "session_closed"), ok)
  BY <1>2 DEF DisposeSutando
<1>4. c \in CallsRecord /\ c.st = calls.st /\ c.got = calls.got /\ c.stops = calls.stops
      /\ c.watchdog = calls.watchdog
  BY <1>1 DEF CallsRecord
<1> HIDE DEF c
<1>5. v \in Worlds /\ v.calls = c /\ v.relay = relay /\ v.ledger = ledger /\ v.mac = mac
  BY <1>1, <1>4 DEF Worlds
<1>6. \A x \in TaskIds : SameTask(World, v, x) /\ (x \in Delegations => SameCall(World, v, x))
  BY <1>1, <1>4, <1>5 DEF SameTask, SameCall
<1> HIDE DEF v
<1>7. RelaySound(v) BY <1>1, <1>4, <1>5, <1>6, TaskNumbers, Frame
<1>8. CASE gone = {} BY <1>3, <1>7, <1>8, TurnsSound
<1>9. CASE gone # {}
  <2>1. t \in Delegations /\ v.calls.st[t] = "running" BY <1>4, <1>5, <1>9
  <2> DEFINE r == "session_closed"
  <2>2. r \in Intents BY DEF Intents
  <2>3. Turns(CallEnds(CancelTask(v, t, r, ok), t, r), ok) BY <1>3, <1>9
  <2> HIDE DEF r, t
  <2> QED BY <2>3, TurnsSound, <1>7, <2>1, <2>2, GivesUpSound
<1> QED BY <1>8, <1>9

\* The server with another number of parked polls, or another presence.
LEMMA OnlyParked ==
  ASSUME SutandoInv, NEW r \in RelayRecord, r.state = relay.state, r.waiter = relay.waiter,
         r.recovered = relay.recovered, r.notice = relay.notice, r.orphans = relay.orphans,
         NEW y, y = [World EXCEPT !.relay = r]
  PROVE  RelaySound(y)
<1>1. /\ RelaySound(World) /\ World \in Worlds /\ World.relay = relay /\ World.ledger = ledger
      /\ World.mac = mac /\ World.calls = calls /\ InTurn(calls.st) /\ ~mac.again
  BY WorldIs
<1>2. y \in Worlds /\ y.relay = r /\ y.mac = mac /\ y.calls = calls /\ y.ledger = ledger
  BY <1>1 DEF Worlds
<1>3. \A x \in TaskIds : SameTask(World, y, x) /\ (x \in Delegations => SameCall(World, y, x))
  BY <1>1, <1>2 DEF SameTask, SameCall
<1> QED BY <1>1, <1>2, <1>3, TaskNumbers, Frame

\* The Mac polls, a poll ends, the heartbeat comes or stays away.
LEMMA PollKeeps ==
  ASSUME SutandoInv, HandlePoll \/ PollEnds \/ Presence PROVE SutandoInv'
<1>1. /\ RelaySound(World) /\ World \in Worlds /\ World.relay = relay /\ relay \in RelayRecord
      /\ relay.parked \in Nat /\ relay.fresh \in BOOLEAN
  BY WorldIs, WorldParts
<1>2. ASSUME NEW got \in BOOLEAN, Turns(LeaseQueued(World, got), TRUE) PROVE SutandoInv'
  BY <1>1, LeaseQueuedIs, LeasedSound, <1>2, TurnsSound
<1>3. ASSUME NEW n \in Nat, Turns([World EXCEPT !.relay.parked = n], TRUE) PROVE SutandoInv'
  <2> DEFINE r == [relay EXCEPT !.parked = n]
  <2>1. [World EXCEPT !.relay.parked = n] = [World EXCEPT !.relay = r] BY <1>1 DEF Worlds
  <2>2. /\ r \in RelayRecord /\ r.state = relay.state /\ r.waiter = relay.waiter
        /\ r.recovered = relay.recovered /\ r.notice = relay.notice /\ r.orphans = relay.orphans
    BY <1>1 DEF RelayRecord
  <2> HIDE DEF r
  <2> QED BY <1>3, <2>1, TurnsSound, <2>2, OnlyParked
<1>4. CASE HandlePoll
  <2>1. PICK got \in BOOLEAN : \/ Turns(LeaseQueued(World, got), TRUE)
                               \/ Turns([World EXCEPT !.relay.parked = @ + 1], TRUE)
    BY <1>4 DEF HandlePoll
  <2>2. CASE Turns(LeaseQueued(World, got), TRUE) BY <1>2, <2>2
  <2>3. CASE Turns([World EXCEPT !.relay.parked = @ + 1], TRUE)
    <3> DEFINE n == relay.parked + 1
    <3>1. n \in Nat BY <1>1
    <3>2. [World EXCEPT !.relay.parked = @ + 1] = [World EXCEPT !.relay.parked = n]
      BY <1>1 DEF Worlds, RelayRecord
    <3> HIDE DEF n
    <3> QED BY <1>3, <2>3, <3>1, <3>2
  <2> QED BY <2>1, <2>2, <2>3
<1>5. CASE PollEnds
  <2> DEFINE n == relay.parked - 1
  <2>0. relay.parked > 0 BY <1>5 DEF PollEnds
  <2>1. n \in Nat BY <1>1, <2>0
  <2>2. [World EXCEPT !.relay.parked = @ - 1] = [World EXCEPT !.relay.parked = n]
    BY <1>1 DEF Worlds, RelayRecord
  <2> HIDE DEF n
  <2> QED BY <1>3, <2>1, <1>5, <2>2 DEF PollEnds
<1>6. CASE Presence
  <2> DEFINE f == ~relay.fresh
             r == [relay EXCEPT !.fresh = f]
  <2>1. Turns([World EXCEPT !.relay = r], TRUE) BY <1>1, <1>6 DEF Worlds, Presence
  <2>2. f \in BOOLEAN BY <1>1
  <2> HIDE DEF f
  <2>3. /\ r \in RelayRecord /\ r.state = relay.state /\ r.waiter = relay.waiter
        /\ r.recovered = relay.recovered /\ r.notice = relay.notice /\ r.orphans = relay.orphans
    BY <1>1, <2>2 DEF RelayRecord
  <2> HIDE DEF r
  <2> QED BY <2>1, TurnsSound, <2>3, OnlyParked
<1> QED BY <1>4, <1>5, <1>6

\* A task of the Mac moves on, and leaves the other tasks alone.
LEMMA OneTaskKeeps ==
  ASSUME NEW w, RelaySound(w), NEW t \in TaskIds, NEW y \in Worlds,
         \A x \in TaskIds \ {t} : SameTask(w, y, x),
         \A u \in Delegations \ {t} : SameCall(w, y, u),
         TaskSound(y, t), ~FreshTask(w, t), t \in Delegations => CallSound(y, t),
         InTurn(y.calls.st), ~y.mac.again
  PROVE  RelaySound(y)
<1>1. ASSUME NEW u \in Delegations, u # t
      PROVE  SameTask(w, y, u) /\ SameCall(w, y, u)
             /\ (SameTask(w, y, StopOf(u)) \/ w.calls.stops[u] # 0)
  <2>1. u \in TaskIds /\ StopOf(u) \in TaskIds BY TaskNumbers
  <2>2. CASE StopOf(u) # t BY <1>1, <2>1, <2>2
  <2>3. CASE StopOf(u) = t BY <2>3, <1>1, <2>1 DEF RelaySound, CallSound
  <2> QED BY <2>2, <2>3
<1> QED BY <1>1, Frame

\* The server records the ack, and the Mac executes the task when it hears of it.
LEMMA HandleAckKeeps ==
  ASSUME SutandoInv, NEW t \in TaskIds, HandleAck(t) PROVE SutandoInv'
<1> DEFINE w == World
<1>1. /\ RelaySound(w) /\ w \in Worlds /\ w.relay = relay /\ w.ledger = ledger
      /\ w.mac = mac /\ w.calls = calls /\ InTurn(calls.st) /\ ~mac.again
      /\ mac \in MacRecord /\ relay \in RelayRecord /\ calls \in CallsRecord
      /\ relay.state \in [TaskIds -> RelayTaskState \cup {"none"}]
      /\ calls.watchdog \in SUBSET Delegations
      /\ mac.has \in SUBSET TaskIds /\ mac.running \in SUBSET TaskIds
  BY WorldIs, WorldParts
<1>2. PICK ok \in BOOLEAN, got \in BOOLEAN :
        LET v  == IF relay.state[t] = "leased" THEN Acked(w, t, ok) ELSE w
            go == v.relay.state[t] = "acked" /\ relay.state[t] = "leased" /\ got
        IN  /\ relay' = v.relay /\ ledger' = v.ledger /\ calls' = v.calls
            /\ mac' = [mac EXCEPT !.has = @ \ {t},
                                  !.running = IF go THEN @ \cup {t} ELSE @,
                                  !.again = @ \/ (go /\ t \in mac.running \cup mac.done)]
  BY DEF HandleAck
<1> DEFINE v == IF relay.state[t] = "leased" THEN Acked(w, t, ok) ELSE w
           go == v.relay.state[t] = "acked" /\ relay.state[t] = "leased" /\ got
           run == IF go THEN mac.running \cup {t} ELSE mac.running
           again == mac.again \/ (go /\ t \in mac.running \cup mac.done)
           has == mac.has \ {t}
           m == [mac EXCEPT !.has = has, !.running = run, !.again = again]
           y == [v EXCEPT !.mac = m]
<1>3. relay' = v.relay /\ ledger' = v.ledger /\ calls' = v.calls /\ mac' = m BY <1>2 DEF MacRecord
<1>4. TaskSound(w, t) /\ (t \in Delegations => CallSound(w, t)) BY <1>1 DEF RelaySound
<1>5. ~again BY <1>1, <1>4 DEF TaskSound
<1>6. has \in SUBSET TaskIds /\ run \in SUBSET TaskIds /\ again \in BOOLEAN BY <1>1
<1>7. run \subseteq mac.running \cup {t} /\ mac.running \subseteq run OBVIOUS
<1>8. /\ m \in MacRecord /\ m.running = run /\ m.done = mac.done /\ m.posted = mac.posted
      /\ ~m.again
  <2> HIDE DEF has, run, again
  <2> QED BY <1>1, <1>5, <1>6 DEF MacRecord
<1>9. CASE relay.state[t] = "leased" /\ ok
  <2> DEFINE l == LedgerAppend(w, t, "acked", ok)
             s == [relay.state EXCEPT ![t] = "acked"]
             wd == IF t \in Delegations /\ calls.st[t] = "running"
                   THEN calls.watchdog \cup {t} ELSE calls.watchdog
             r == [relay EXCEPT !.state = s]
             c == [calls EXCEPT !.watchdog = wd]
  <2>1. v = [l EXCEPT !.relay.state[t] = "acked",
                      !.calls.watchdog = IF t \in Delegations /\ w.calls.st[t] = "running"
                                         THEN @ \cup {t} ELSE @]
    BY <1>9 DEF Acked
  <2>2. /\ l \in Worlds /\ l.relay = relay /\ l.mac = mac /\ l.calls = calls
        /\ l.ledger[t] = ledger[t] \cup {"acked"}
        /\ \A z \in TaskIds \ {t} : l.ledger[z] = ledger[z]
    <3> DEFINE k == "acked"
    <3>1. k \in LedgerState BY DEF LedgerState
    <3>2. l = Writes(w, t, k) BY <1>9 DEF LedgerAppend, Writes
    <3>4. w \in Worlds BY <1>1
    <3> HIDE DEF k, l, w
    <3> QED BY <1>1, <3>1, <3>2, <3>4, Recorded DEF k
  <2> HIDE DEF l
  <2>3. v = [l EXCEPT !.relay = r, !.calls = c]
    BY <1>1, <2>1, <2>2 DEF Worlds, RelayRecord, CallsRecord
  <2>4. /\ s \in [TaskIds -> RelayTaskState \cup {"none"}] /\ wd \in SUBSET Delegations
        /\ s[t] = "acked" /\ \A x \in TaskIds \ {t} : s[x] = relay.state[x]
        /\ calls.watchdog \subseteq wd
        /\ t \in Delegations /\ calls.st[t] = "running" => t \in wd
    BY <1>1 DEF RelayTaskState
  <2> HIDE DEF s, wd, m
  <2>5. /\ r \in RelayRecord /\ r.state = s /\ r.waiter = relay.waiter
        /\ r.recovered = relay.recovered /\ r.notice = relay.notice /\ r.orphans = relay.orphans
    BY <1>1, <2>4 DEF RelayRecord
  <2>6. c \in CallsRecord /\ c.watchdog = wd /\ c.st = calls.st /\ c.got = calls.got
        /\ c.stops = calls.stops
    BY <1>1, <2>4 DEF CallsRecord
  <2> HIDE DEF r, c, v
  <2>7. v \in Worlds /\ v.relay = r /\ v.calls = c /\ v.ledger = l.ledger
    BY <2>2, <2>3, <2>5, <2>6 DEF Worlds
  <2>8. y \in Worlds /\ y.relay = r /\ y.calls = c /\ y.ledger = l.ledger /\ y.mac = m
    BY <1>8, <2>7 DEF Worlds
  <2> HIDE DEF y, run, w
  <2>9. \A x \in TaskIds \ {t} : SameTask(w, y, x)
    BY <1>1, <1>7, <1>8, <2>2, <2>4, <2>5, <2>8 DEF SameTask
  <2>10. \A u \in Delegations \ {t} : SameCall(w, y, u)
    BY <1>1, <2>4, <2>5, <2>6, <2>8 DEF SameCall
  <2>11. TaskSound(y, t) BY <1>1, <1>4, <1>9, <2>2, <2>4, <2>5, <2>8, <1>8 DEF TaskSound
  <2>12. ~FreshTask(w, t) BY <1>1, <1>9 DEF FreshTask
  <2>13. ASSUME t \in Delegations PROVE CallSound(y, t)
    BY <1>1, <1>4, <1>9, <2>4, <2>13, TaskNumbers, <2>9, FreshKept, <1>8, <2>5, <2>6, <2>8 DEF
        CallSound
  <2>14. RelaySound(y) BY <1>1, <1>8, <2>6, <2>8, <2>9, <2>10, <2>11, <2>12, <2>13, OneTaskKeeps
  <2>15. World' = y BY <2>8, <1>3, <2>7 DEF Worlds, World
  <2> QED BY <2>14, <2>15
      DEF SutandoInv, RelaySound, TaskSound, CallSound, FreshTask, InTurn
<1>10. CASE ~(relay.state[t] = "leased" /\ ok)
  <2>1. v = w /\ run = mac.running BY <1>1, <1>10 DEF Acked
  <2> HIDE DEF m, v, run
  <2>2. y \in Worlds /\ y.relay = relay /\ y.calls = calls /\ y.ledger = ledger /\ y.mac = m
    BY <1>1, <1>8, <2>1 DEF Worlds
  <2> HIDE DEF y, w
  <2>4. RelaySound(y) BY <1>1, <1>8, <2>2, TaskNumbers, Frame, <2>1 DEF SameTask, SameCall
  <2>5. World' = y BY <2>2, <1>1, <1>3, <2>1 DEF Worlds, World
  <2> QED BY <2>4, <2>5
      DEF SutandoInv, RelaySound, TaskSound, CallSound, FreshTask, InTurn
<1> QED BY <1>9, <1>10

\* The Mac has executed a task.
LEMMA MacFinishesKeeps ==
  ASSUME SutandoInv, NEW t \in TaskIds, MacFinishes(t) PROVE SutandoInv'
<1> DEFINE run == mac.running \ {t}
           done == mac.done \cup {t}
           m == [mac EXCEPT !.running = run, !.done = done]
           y == [World EXCEPT !.mac = m]
<1>1. /\ RelaySound(World) /\ World \in Worlds /\ World.relay = relay /\ World.ledger = ledger
      /\ World.mac = mac /\ World.calls = calls /\ InTurn(calls.st) /\ ~mac.again
      /\ mac \in MacRecord
  BY WorldIs, WorldParts
<1>2. t \in mac.running /\ Turns(y, TRUE) BY <1>1 DEF Worlds, MacRecord, MacFinishes
<1>3. run \in SUBSET TaskIds /\ done \in SUBSET TaskIds
      /\ run \cup done = mac.running \cup mac.done
      /\ mac.done \subseteq done
  BY <1>1, <1>2, WorldParts
<1> HIDE DEF run, done
<1>4. m \in MacRecord /\ m.running = run /\ m.done = done /\ m.posted = mac.posted /\ ~m.again
  BY <1>1, <1>3 DEF MacRecord
<1> HIDE DEF m
<1>5. y \in Worlds /\ y.relay = relay /\ y.calls = calls /\ y.ledger = ledger /\ y.mac = m
  BY <1>1, <1>4 DEF Worlds
<1> HIDE DEF y
<1>7. RelaySound(y) BY <1>1, <1>4, <1>5, TaskNumbers, Frame, <1>3 DEF SameTask, SameCall
<1> QED BY <1>2, <1>7, TurnsSound

\* What posting the result of t leaves alone of the other tasks and calls.
OtherTask(w, y, x) ==
  /\ y.relay.state[x] = w.relay.state[x] /\ y.ledger[x] = w.ledger[x]
  /\ x \in y.relay.orphans <=> x \in w.relay.orphans
  /\ x \in y.relay.recovered <=> x \in w.relay.recovered
  /\ x \in y.relay.waiter <=> x \in w.relay.waiter

\* And of the other calls.
OtherCall(w, y, u) ==
  /\ y.calls.st[u] = w.calls.st[u] /\ y.calls.got[u] = w.calls.got[u]
  /\ u \in w.calls.watchdog => u \in y.calls.watchdog

\* What posting the result of t comes to: an answer to its call, or the orphan
\* log, once the task has been told to the ledger or not.
PostedBy(w, y, t) ==
  /\ y.mac.running = w.mac.running /\ y.mac.done = w.mac.done
  /\ y.mac.again = w.mac.again /\ y.mac.posted = w.mac.posted \cup {t}
  /\ y.relay.notice = w.relay.notice
  /\ \A x \in TaskIds \ {t} : OtherTask(w, y, x)
  /\ y.ledger[t] \in {w.ledger[t], w.ledger[t] \cup {"completed"}}
  /\ \/ y.relay.state[t] \in {"completed", "orphaned"}
     \/ y.relay.state[t] = "none" /\ w.relay.state[t] = "none"
  /\ y.calls.stops = w.calls.stops /\ InTurn(y.calls.st)
  /\ \A u \in Delegations \ {t} : OtherCall(w, y, u)
  /\ t \in Delegations => /\ y.calls.st[t] = "done" /\ t \notin y.relay.waiter
                          /\ (t \in y.relay.orphans) # (y.calls.got[t] = "answer")

\* What the Mac posts of t has a fate: the call that waits, or the orphan log.
LEMMA PostedSound ==
  ASSUME NEW w, RelaySound(w), NEW t \in TaskIds, t \in w.mac.done, t \notin w.mac.posted,
         NEW y \in Worlds, PostedBy(w, y, t)
  PROVE  RelaySound(y)
<1>1. /\ TaskSound(w, t) /\ (t \in Delegations => CallSound(w, t)) /\ ~w.mac.again
      /\ \A u \in Delegations : u \in TaskIds /\ StopOf(u) \in TaskIds /\ StopOf(u) # u
  BY TaskNumbers DEF RelaySound
<1>2. "acked" \in w.ledger[t] /\ w.relay.notice[t].kind # "dropped" /\ ~FreshTask(w, t)
  BY <1>1 DEF TaskSound, FreshTask
<1>3. ASSUME NEW x \in TaskIds \ {t} PROVE SameTask(w, y, x) BY DEF SameTask, PostedBy, OtherTask
<1>4. ASSUME NEW u \in Delegations \ {t} PROVE SameCall(w, y, u)
  BY <1>1 DEF PostedBy, SameCall, OtherTask, OtherCall
<1>6. ASSUME t \in Delegations PROVE CallSound(y, t)
  BY <1>1, <1>3, <1>6, FreshKept, <1>2 DEF CallSound, PostedBy, TaskSound
<1> QED BY <1>1, <1>2, <1>3, <1>4, <1>6, OneTaskKeeps DEF PostedBy, TaskSound

\* The server with t in state s; and without a waiter of t.
SetState(w, t, s) == [w EXCEPT !.relay.state[t] = s]

Unwait(w, t) == [w EXCEPT !.relay.waiter = @ \ {t}]

\* What another state of a task leaves alone.
LEMMA StateSet ==
  ASSUME NEW w \in Worlds, NEW t \in TaskIds, NEW s \in RelayTaskState,
         NEW y, y = SetState(w, t, s)
  PROVE  /\ y \in Worlds /\ y.mac = w.mac /\ y.calls = w.calls /\ y.ledger = w.ledger
         /\ y.relay.state[t] = s /\ \A x \in TaskIds \ {t} : y.relay.state[x] = w.relay.state[x]
         /\ y.relay.waiter = w.relay.waiter /\ y.relay.recovered = w.relay.recovered
         /\ y.relay.notice = w.relay.notice /\ y.relay.orphans = w.relay.orphans
<1> DEFINE n == [w.relay.state EXCEPT ![t] = s]
           r == [w.relay EXCEPT !.state = n]
<1>1. w.relay \in RelayRecord /\ w.relay.state \in [TaskIds -> RelayTaskState \cup {"none"}]
  BY WorldParts
<1>2. y = [w EXCEPT !.relay = r] BY <1>1 DEF SetState, Worlds, RelayRecord
<1>3. n \in [TaskIds -> RelayTaskState \cup {"none"}] /\ n[t] = s
      /\ \A x \in TaskIds \ {t} : n[x] = w.relay.state[x]
  BY <1>1
<1> HIDE DEF n
<1>4. /\ r \in RelayRecord /\ r.state = n /\ r.waiter = w.relay.waiter
      /\ r.recovered = w.relay.recovered /\ r.notice = w.relay.notice
      /\ r.orphans = w.relay.orphans
  BY <1>1, <1>3 DEF RelayRecord
<1> HIDE DEF r
<1> QED BY <1>3, <1>4, <1>2 DEF Worlds

\* What a waiter that leaves leaves alone.
LEMMA WaiterGone ==
  ASSUME NEW w \in Worlds, NEW t \in TaskIds, NEW y, y = Unwait(w, t)
  PROVE  /\ y \in Worlds /\ y.mac = w.mac /\ y.calls = w.calls /\ y.ledger = w.ledger
         /\ y.relay.state = w.relay.state /\ y.relay.waiter = w.relay.waiter \ {t}
         /\ y.relay.recovered = w.relay.recovered
         /\ y.relay.notice = w.relay.notice /\ y.relay.orphans = w.relay.orphans
<1> DEFINE n == w.relay.waiter \ {t}
           r == [w.relay EXCEPT !.waiter = n]
<1>1. w.relay \in RelayRecord /\ n \in SUBSET TaskIds BY WorldParts
<1>2. y = [w EXCEPT !.relay = r] BY <1>1 DEF Unwait, Worlds, RelayRecord
<1> HIDE DEF n
<1>3. /\ r \in RelayRecord /\ r.state = w.relay.state /\ r.waiter = n
      /\ r.recovered = w.relay.recovered /\ r.notice = w.relay.notice
      /\ r.orphans = w.relay.orphans
  BY <1>1 DEF RelayRecord
<1> HIDE DEF r
<1> QED BY <1>3, <1>2 DEF n, Worlds

\* A result is posted.
LEMMA HandleResultKeeps ==
  ASSUME SutandoInv, NEW t \in TaskIds, HandleResult(t) PROVE SutandoInv'
<1> DEFINE w == World
           p == mac.posted \cup {t}
           m == [mac EXCEPT !.posted = p]
           v == [w EXCEPT !.mac = m]
           o == relay.orphans \cup {t}
           r == [relay EXCEPT !.orphans = o]
           orphaned == [v EXCEPT !.relay = r]
<1>1. /\ RelaySound(w) /\ w \in Worlds /\ w.relay = relay /\ w.ledger = ledger
      /\ w.mac = mac /\ w.calls = calls /\ InTurn(calls.st) /\ ~mac.again
      /\ mac \in MacRecord /\ relay \in RelayRecord
      /\ calls.st \in [Delegations -> {"none", "chained", "running", "done"}]
      /\ calls.got \in [Delegations -> Ends]
  BY WorldIs, WorldParts
<1>2. t \in mac.done /\ t \notin mac.posted BY DEF HandleResult
<1>3. p \in SUBSET TaskIds /\ o \in SUBSET TaskIds BY <1>1, WorldParts
<1>4. /\ TaskSound(w, t) /\ (t \in Delegations => CallSound(w, t))
      /\ "acked" \in ledger[t] /\ ~FreshTask(w, t) /\ t \notin relay.orphans
  BY <1>1, <1>2 DEF RelaySound, TaskSound, FreshTask
<1>5. [w EXCEPT !.mac.posted = @ \cup {t}] = v BY <1>1 DEF Worlds, MacRecord
<1> HIDE DEF p
<1>6. /\ m \in MacRecord /\ m.running = mac.running /\ m.done = mac.done /\ m.posted = p
      /\ m.again = mac.again
  BY <1>1, <1>3 DEF MacRecord
<1> HIDE DEF m
<1>7. v \in Worlds /\ v.mac = m /\ v.relay = relay /\ v.calls = calls /\ v.ledger = ledger
  BY <1>1, <1>6 DEF Worlds
<1>8. [v EXCEPT !.relay.orphans = @ \cup {t}] = orphaned BY <1>7 DEF Worlds, RelayRecord
<1> HIDE DEF o, v
<1>9. /\ r \in RelayRecord /\ r.orphans = o /\ r.state = relay.state /\ r.waiter = relay.waiter
      /\ r.recovered = relay.recovered /\ r.notice = relay.notice
  BY <1>1, <1>3 DEF RelayRecord
<1> HIDE DEF r
<1>10. /\ orphaned \in Worlds /\ orphaned.mac = m /\ orphaned.relay = r
       /\ orphaned.calls = calls /\ orphaned.ledger = ledger
  BY <1>7, <1>9 DEF Worlds
<1> HIDE DEF orphaned
<1>11. PICK ok \in BOOLEAN :
         CASE relay.state[t] = "acked" /\ t \in relay.waiter ->
                LET told == LedgerAppend([v EXCEPT !.relay.state[t] = "completed"],
                                         t, "completed", ok)
                IN  Turns(IF t \in Delegations THEN CallEnds(told, t, "answer")
                          ELSE [told EXCEPT !.relay.waiter = @ \ {t}], ok)
           [] relay.state[t] = "acked" /\ t \notin relay.waiter ->
                ok /\ Turns([orphaned EXCEPT !.relay.state[t] = "orphaned"], TRUE)
           [] relay.state[t] = "orphaned" -> ok /\ Turns(orphaned, TRUE)
           [] relay.state[t] = "none" /\ t \in relay.recovered ->
                Turns(LedgerAppend([orphaned EXCEPT !.relay.recovered = @ \ {t}],
                                   t, "completed", ok), ok)
           [] OTHER -> ok /\ Turns(v, TRUE)
  BY <1>5, <1>8 DEF HandleResult
<1>12. \/ relay.state[t] = "acked" /\ t \in relay.waiter
       \/ relay.state[t] = "acked" /\ t \notin relay.waiter
       \/ relay.state[t] = "orphaned"
       \/ relay.state[t] = "none" /\ t \in relay.recovered
  BY <1>1, <1>2, <1>4 DEF TaskSound
<1> DEFINE k == "completed"
<1>13. k \in LedgerState /\ k \in RelayTaskState BY DEF LedgerState, RelayTaskState
<1>14. t \in Delegations /\ ~(relay.state[t] = "acked" /\ t \in relay.waiter)
       => calls.st[t] = "done" /\ calls.got[t] # "answer" /\ t \notin relay.waiter
  BY <1>1, <1>2, <1>4, <1>12 DEF CallSound
<1>15. CASE relay.state[t] = "acked" /\ t \in relay.waiter
  <2> DEFINE u == [v EXCEPT !.relay.state[t] = k]
             told == LedgerAppend(u, t, k, ok)
             y == IF t \in Delegations THEN CallEnds(told, t, "answer")
                  ELSE [told EXCEPT !.relay.waiter = @ \ {t}]
  <2>1. Turns(y, ok) BY <1>11, <1>15
  <2> HIDE DEF k
  <2>2. /\ u \in Worlds /\ u.mac = m /\ u.calls = calls /\ u.ledger = ledger
        /\ u.relay.state[t] = k /\ \A x \in TaskIds \ {t} : u.relay.state[x] = relay.state[x]
        /\ u.relay.waiter = relay.waiter /\ u.relay.recovered = relay.recovered
        /\ u.relay.notice = relay.notice /\ u.relay.orphans = relay.orphans
    <3>1. u = SetState(v, t, k) BY DEF SetState
    <3> HIDE DEF u
    <3> QED BY <1>7, <1>13, <3>1, StateSet
  <2>3. told = u \/ told = Writes(u, t, k) BY DEF LedgerAppend, Writes
  <2> HIDE DEF u, told
  <2>4. /\ told \in Worlds /\ told.relay = u.relay /\ told.mac = m /\ told.calls = calls
        /\ told.ledger[t] \in {ledger[t], ledger[t] \cup {k}}
        /\ \A z \in TaskIds \ {t} : told.ledger[z] = ledger[z]
    BY <1>13, <2>2, <2>3, LedgerAppendIs
  <2>5. CASE t \in Delegations
    <3> DEFINE a == "answer"
    <3>1. a \in Ends /\ y = CallEnds(told, t, a) BY <2>5 DEF Ends
    <3> HIDE DEF a, y
    <3>2. Ended(told, y, t, a) BY <2>4, <2>5, <3>1, CallEndsIs
    <3>3. calls.st[t] = "running" BY <1>1, <1>4, <1>15, <2>5 DEF CallSound
    <3>4. /\ y \in Worlds /\ y.mac = m /\ y.ledger = told.ledger
          /\ y.relay.waiter = relay.waiter \ {t} /\ y.relay.state = u.relay.state
          /\ y.relay.recovered = relay.recovered /\ y.relay.notice = relay.notice
          /\ y.relay.orphans = relay.orphans /\ y.calls.stops = calls.stops
          /\ y.calls.st = [calls.st EXCEPT ![t] = "done"]
          /\ y.calls.got = [calls.got EXCEPT ![t] = a]
          /\ y.calls.watchdog = calls.watchdog \ {t}
      BY <2>2, <2>4, <3>2 DEF Ended
    <3>5. InTurn(y.calls.st)
      <4> DEFINE d == "done"
      <4>1. d \in {"running", "done"} /\ calls.st[t] # "done" BY <3>3
      <4> HIDE DEF d
      <4> QED BY <3>4, <1>1, <2>5, <3>3, <4>1, RunningInTurn, NextInTurn DEF d
    <3>6. y.calls.st[t] = "done" /\ y.calls.got[t] = "answer" /\ t \notin y.relay.waiter
          /\ t \notin y.relay.orphans
      BY <1>1, <1>4, <2>5, <3>4 DEF a
    <3>7. \A z \in Delegations \ {t} : y.calls.st[z] = calls.st[z]
          /\ y.calls.got[z] = calls.got[z]
            /\ (z \in calls.watchdog => z \in y.calls.watchdog)
      BY <1>1, <2>5, <3>4
    <3>8. PostedBy(w, y, t)
      <4> HIDE DEF w
      <4>2. ASSUME NEW x \in TaskIds \ {t}
            PROVE  OtherTask(w, y, x)
        BY <1>1, <2>2, <2>4, <3>4 DEF OtherTask
      <4>3. y.relay.state[t] = "completed" /\ y.relay.notice = w.relay.notice
            /\ y.ledger[t] \in {w.ledger[t], w.ledger[t] \cup {"completed"}}
            /\ y.calls.stops = w.calls.stops
        BY <1>1, <2>2, <2>4, <3>4 DEF k
      <4> QED BY <3>5, <3>6, <4>2, <4>3, <1>1, <1>6, <3>4, <3>7 DEF PostedBy, p, OtherCall
    <3>9. RelaySound(y)
      <4> HIDE DEF w, y
      <4> QED BY <1>1, <1>2, <3>4, <3>8, PostedSound
    <3> QED BY <2>1, <3>9, TurnsSound DEF y
  <2>6. CASE t \notin Delegations
    <3>1. y = Unwait(told, t) BY <2>6 DEF Unwait
    <3> HIDE DEF y
    <3>2. /\ y \in Worlds /\ y.mac = told.mac /\ y.calls = told.calls /\ y.ledger = told.ledger
          /\ y.relay.state = told.relay.state /\ y.relay.waiter = told.relay.waiter \ {t}
          /\ y.relay.recovered = told.relay.recovered
          /\ y.relay.notice = told.relay.notice /\ y.relay.orphans = told.relay.orphans
      BY <2>4, <3>1, WaiterGone
    <3>3. PostedBy(w, y, t)
      <4> HIDE DEF w
      <4>2. ASSUME NEW x \in TaskIds \ {t}
            PROVE  OtherTask(w, y, x)
        BY <1>1, <2>2, <2>4, <3>2 DEF OtherTask
      <4> QED BY <2>6, <4>2, <1>1, <1>6, <2>4, <3>2, <2>2 DEF PostedBy, p, OtherCall, k
    <3>4. RelaySound(y)
      <4> HIDE DEF w
      <4> QED BY <1>1, <1>2, <3>2, <3>3, PostedSound
    <3> QED BY <2>1, <3>4, TurnsSound DEF y
  <2> QED BY <2>5, <2>6
\* Nobody waits for it: it goes to the orphan log.
<1>16. ASSUME NEW y \in Worlds, NEW ok2, Turns(y, ok2),
              ~(relay.state[t] = "acked" /\ t \in relay.waiter),
              y.mac = m, y.calls = calls, y.relay.orphans = o, y.relay.waiter = relay.waiter,
              y.relay.notice = relay.notice,
              \A x \in TaskIds \ {t} : /\ y.relay.state[x] = relay.state[x]
                                       /\ y.ledger[x] = ledger[x]
                                       /\ x \in y.relay.recovered <=> x \in relay.recovered,
              y.ledger[t] \in {ledger[t], ledger[t] \cup {"completed"}},
              \/ y.relay.state[t] = "orphaned"
              \/ y.relay.state[t] = "none" /\ relay.state[t] = "none"
       PROVE  SutandoInv'
  <2> HIDE DEF w
  <2>2. ASSUME NEW x \in TaskIds \ {t}
        PROVE  OtherTask(w, y, x)
    BY <1>1, <1>16 DEF o, OtherTask
  <2>5. y.ledger[t] \in {w.ledger[t], w.ledger[t] \cup {"completed"}}
        /\ \/ y.relay.state[t] \in {"completed", "orphaned"}
           \/ y.relay.state[t] = "none" /\ w.relay.state[t] = "none"
    BY <1>1, <1>16
  <2>6. PostedBy(w, y, t) BY <2>2, <2>5, <1>1, <1>6, <1>16, <1>14 DEF OtherCall, PostedBy, p, o
  <2>7. RelaySound(y) BY <1>1, <1>2, <1>16, <2>6, PostedSound
  <2> QED BY <1>16, <2>7, TurnsSound
<1>17. CASE relay.state[t] = "acked" /\ t \notin relay.waiter
  <2> DEFINE s == "orphaned"
             y == [orphaned EXCEPT !.relay.state[t] = s]
  <2>1. Turns(y, TRUE) /\ s \in RelayTaskState BY <1>11, <1>17 DEF RelayTaskState
  <2> HIDE DEF s
  <2>2. /\ y \in Worlds /\ y.mac = m /\ y.calls = calls /\ y.ledger = ledger
        /\ y.relay.state[t] = s /\ \A x \in TaskIds \ {t} : y.relay.state[x] = relay.state[x]
        /\ y.relay.waiter = relay.waiter /\ y.relay.recovered = relay.recovered
        /\ y.relay.notice = relay.notice /\ y.relay.orphans = o
    <3>1. /\ y \in Worlds /\ y.mac = orphaned.mac /\ y.calls = orphaned.calls
          /\ y.ledger = orphaned.ledger /\ y.relay.state[t] = s
          /\ \A x \in TaskIds \ {t} : y.relay.state[x] = orphaned.relay.state[x]
          /\ y.relay.waiter = orphaned.relay.waiter
                  /\ y.relay.recovered = orphaned.relay.recovered
          /\ y.relay.notice = orphaned.relay.notice /\ y.relay.orphans = orphaned.relay.orphans
      <4>1. y = SetState(orphaned, t, s) BY DEF SetState
      <4> HIDE DEF y
      <4> QED BY <1>10, <2>1, <4>1, StateSet
    <3> HIDE DEF y
    <3> QED BY <1>9, <1>10, <3>1
  <2> HIDE DEF y
  <2> QED BY <1>16, <1>17, <2>1, <2>2 DEF s
<1>18. CASE relay.state[t] = "orphaned" BY <1>11, <1>18, <1>9, <1>10, <1>16
<1>19. CASE relay.state[t] = "none" /\ t \in relay.recovered
  <2> DEFINE c == relay.recovered \ {t}
             q == [r EXCEPT !.recovered = c]
             u == [orphaned EXCEPT !.relay = q]
             y == LedgerAppend(u, t, k, ok)
  <2>2. Turns(y, ok) BY <1>11, <1>19, <1>9, <1>10 DEF Worlds, RelayRecord
  <2>3. y = u \/ y = Writes(u, t, k) BY DEF LedgerAppend, Writes
  <2>4. c \in SUBSET TaskIds BY <1>1, WorldParts
  <2> HIDE DEF c, y, k
  <2>5. /\ q \in RelayRecord /\ q.orphans = o /\ q.state = relay.state /\ q.waiter = relay.waiter
        /\ q.recovered = c /\ q.notice = relay.notice
    BY <1>9, <2>4 DEF RelayRecord
  <2> HIDE DEF q
  <2>6. u \in Worlds /\ u.relay = q /\ u.mac = m /\ u.calls = calls /\ u.ledger = ledger
    BY <1>10, <2>5 DEF Worlds
  <2> HIDE DEF u
  <2> QED BY <1>16, <1>19, <2>2, <2>5, <2>6, <1>13, <2>3, LedgerAppendIs DEF c, k
<1> QED BY <1>12, <1>15, <1>17, <1>18, <1>19

\* A task not delivered by its deadline expires, and its call with it.
LEMMA ExpiresSound ==
  ASSUME NEW w, RelaySound(w), NEW t \in TaskIds, w.relay.state[t] \in {"queued", "leased"},
         NEW s, s = "expired", NEW v, v = SetState(w, t, s),
         NEW a, a = "stale", NEW y, y = IF t \in Delegations THEN CallEnds(v, t,
           a) ELSE Unwait(v, t)
  PROVE  RelaySound(y)
<1>1. /\ w \in Worlds /\ TaskSound(w, t) /\ (t \in Delegations => CallSound(w, t))
      /\ InTurn(w.calls.st) /\ ~w.mac.again /\ ~FreshTask(w, t)
      /\ w.calls.st \in [Delegations -> {"none", "chained", "running", "done"}]
      /\ w.calls.got \in [Delegations -> Ends]
  BY WorldParts DEF RelaySound, FreshTask
<1>2. s \in RelayTaskState /\ a \in Ends BY DEF RelayTaskState, Ends
<1>3. /\ v \in Worlds /\ v.mac = w.mac /\ v.calls = w.calls /\ v.ledger = w.ledger
      /\ v.relay.state[t] = s /\ \A x \in TaskIds \ {t} : v.relay.state[x] = w.relay.state[x]
      /\ v.relay.waiter = w.relay.waiter /\ v.relay.recovered = w.relay.recovered
      /\ v.relay.notice = w.relay.notice /\ v.relay.orphans = w.relay.orphans
  BY <1>1, <1>2, StateSet
<1>4. "acked" \notin w.ledger[t] /\ w.relay.notice[t].kind # "dropped" BY <1>1 DEF TaskSound
<1>5. CASE t \in Delegations
  <2>2. Ended(v, y, t, a) BY <1>2, <1>3, <1>5, CallEndsIs
  <2>3. /\ y \in Worlds /\ y.ledger = w.ledger /\ y.mac = w.mac
        /\ y.relay.waiter = w.relay.waiter \ {t} /\ y.relay.state = v.relay.state
        /\ y.relay.recovered = w.relay.recovered /\ y.relay.notice = w.relay.notice
        /\ y.relay.orphans = w.relay.orphans
        /\ y.calls.st = [w.calls.st EXCEPT ![t] = "done"]
        /\ y.calls.got = [w.calls.got EXCEPT ![t] = a]
        /\ y.calls.stops = w.calls.stops /\ y.calls.watchdog = w.calls.watchdog \ {t}
    BY <1>3, <2>2 DEF Ended
  <2>4. w.calls.st[t] = "running" /\ w.calls.got[t] = "none" /\ w.calls.stops[t] = 0
    BY <1>1, <1>5 DEF CallSound
  <2>5. InTurn(y.calls.st)
    <3> DEFINE d == "done"
    <3>1. d \in {"running", "done"} /\ w.calls.st[t] # "done" BY <2>4
    <3> HIDE DEF d
    <3> QED BY <2>3, <1>1, <1>5, <2>4, <3>1, RunningInTurn, NextInTurn DEF d
  <2>6. \A x \in TaskIds \ {t} : SameTask(w, y, x) BY <1>3, <2>3 DEF SameTask
  <2>7. ASSUME NEW u \in Delegations \ {t} PROVE SameCall(w, y, u) BY <1>1, <2>3 DEF SameCall
  <2>8. TaskSound(y, t) BY <1>1, <1>3, <1>4, <2>3 DEF TaskSound
  <2>9. CallSound(y, t) BY <1>5, TaskNumbers, <1>1, <2>4, <2>6, FreshKept, <1>3, <2>3 DEF CallSound
  <2> QED BY <1>1, <2>3, <2>5, <2>6, <2>7, <2>8, <2>9, OneTaskKeeps
<1>6. CASE t \notin Delegations
  <2>1. y = Unwait(v, t) BY <1>6
  <2>2. /\ y \in Worlds /\ y.mac = w.mac /\ y.calls = w.calls /\ y.ledger = w.ledger
        /\ y.relay.state = v.relay.state /\ y.relay.waiter = w.relay.waiter \ {t}
        /\ y.relay.recovered = w.relay.recovered
        /\ y.relay.notice = w.relay.notice /\ y.relay.orphans = w.relay.orphans
    BY <1>3, <2>1, WaiterGone
  <2>4. ASSUME NEW u \in Delegations \ {t} PROVE SameCall(w, y, u) BY <1>1, <2>2 DEF SameCall
  <2>5. TaskSound(y, t) BY <1>1, <1>3, <1>4, <2>2 DEF TaskSound
  <2> QED BY <1>1, <1>6, <2>2, <2>4, <2>5, OneTaskKeeps, <1>3 DEF SameTask
<1> QED BY <1>5, <1>6

\* A lease runs out, or a deadline.
LEMMA SweepKeeps ==
  ASSUME SutandoInv, NEW t \in TaskIds, Sweep(t) PROVE SutandoInv'
<1> DEFINE q == "queued"
           w == World
           set == SetState(w, t, q)
<1>1. /\ RelaySound(w) /\ w \in Worlds /\ w.relay = relay /\ w.ledger = ledger
      /\ w.mac = mac /\ w.calls = calls
  BY WorldIs
<1>2. PICK lease \in BOOLEAN, deadline \in BOOLEAN :
        LET again == IF lease /\ relay.state[t] = "leased"
                     THEN WakePollers([World EXCEPT !.relay.state[t] = "queued"]) ELSE World
        IN  /\ lease => relay.state[t] = "leased"
            /\ deadline => relay.state[t] \in {"queued", "leased"}
            /\ Turns(IF ~deadline THEN again
                     ELSE LET v == [again EXCEPT !.relay.state[t] = "expired"]
                          IN  IF t \in Delegations THEN CallEnds(v, t, "stale")
                              ELSE [v EXCEPT !.relay.waiter = @ \ {t}], TRUE)
  BY DEF Sweep
<1> DEFINE again == IF lease /\ relay.state[t] = "leased" THEN WakePollers(set) ELSE w
           s == "expired"
           a == "stale"
           v == SetState(again, t, s)
           y == IF t \in Delegations THEN CallEnds(v, t, a) ELSE Unwait(v, t)
<1>3. /\ lease => relay.state[t] = "leased"
      /\ deadline => relay.state[t] \in {"queued", "leased"}
      /\ Turns(IF ~deadline THEN again ELSE y, TRUE)
  BY <1>2 DEF SetState, Unwait
<1>4. RelaySound(again) /\ (deadline => again.relay.state[t] \in {"queued", "leased"})
  <2>1. CASE ~lease BY <1>1, <1>3, <2>1
  <2>2. CASE lease
    <3>1. q \in RelayTaskState /\ relay.state[t] = "leased" /\ again = WakePollers(set)
      BY <1>3, <2>2 DEF RelayTaskState
    <3> HIDE DEF q, again, w
    <3>2. /\ set \in Worlds /\ set.mac = w.mac /\ set.calls = w.calls /\ set.ledger = w.ledger
          /\ set.relay.state[t] = q
          /\ \A x \in TaskIds \ {t} : set.relay.state[x] = w.relay.state[x]
          /\ set.relay.waiter = w.relay.waiter /\ set.relay.recovered = w.relay.recovered
          /\ set.relay.notice = w.relay.notice /\ set.relay.orphans = w.relay.orphans
      BY <1>1, <3>1, StateSet
    <3> HIDE DEF set
    <3>3. ASSUME NEW x \in TaskIds PROVE SameTask(w, set, x) BY <1>1, <3>1, <3>2 DEF q, SameTask
    <3>4. ASSUME NEW u \in Delegations PROVE SameCall(w, set, u) BY <3>2 DEF SameCall
    <3>7. again \in Worlds /\ Leased(set, again) BY <3>1, <3>2, WakePollersIs
    <3> QED BY <3>7, LeasedSound, <3>2, <1>1, <3>3, <3>4, TaskNumbers, Frame DEF Leased, q, RelaySound
  <2> QED BY <2>1, <2>2
<1>5. CASE ~deadline
  <2>1. Turns(again, TRUE) BY <1>3, <1>5
  <2> HIDE DEF again
  <2> QED BY <1>4, <2>1, TurnsSound
<1>6. CASE deadline
  <2>1. Turns(y, TRUE) /\ again.relay.state[t] \in {"queued", "leased"} BY <1>3, <1>4, <1>6
  <2>2. s = "expired" /\ a = "stale" OBVIOUS
  <2> HIDE DEF again, s, a, v
  <2>3. RelaySound(y)
    <3>1. v = SetState(again, t, s) BY DEF v
    <3>2. y = IF t \in Delegations THEN CallEnds(v, t, a) ELSE Unwait(v, t) OBVIOUS
    <3> HIDE DEF y
    <3> QED BY <1>4, <2>1, <2>2, <3>1, <3>2, ExpiresSound
  <2> HIDE DEF y
  <2> QED BY <2>1, <2>3, TurnsSound
<1> QED BY <1>5, <1>6

-----------------------------------------------------------------------------
\* The process starts again with what the ledger holds.
LEMMA CrashAndStartKeeps ==
  ASSUME SutandoInv, CrashAndStart PROVE SutandoInv'
<1> DEFINE w == World
           st == [t \in Delegations |-> IF calls.st[t] = "none" THEN "none" ELSE "done"]
           got == [t \in Delegations |-> IF calls.st[t] \in {"chained", "running"} THEN "lost"
                                         ELSE calls.got[t]]
           c == [calls EXCEPT !.st = st, !.got = got, !.watchdog = {}, !.disposed = FALSE]
           rec == {t \in TaskIds : "acked" \in ledger[t] /\ "completed" \notin ledger[t]}
           fresh == [state |-> [t \in TaskIds |-> "none"], waiter |-> {}, parked |-> 0,
                     recovered |-> rec, notice |-> [t \in TaskIds |-> NoNotice], fresh |-> FALSE,
                     orphans |-> relay.orphans]
           n == Reaped(ledger, fresh)
           y == World'
<1>1. /\ RelaySound(w) /\ w \in Worlds /\ w.relay = relay /\ w.ledger = ledger
      /\ w.mac = mac /\ w.calls = calls /\ InTurn(calls.st) /\ ~mac.again
      /\ calls \in CallsRecord /\ mac \in MacRecord
      /\ ledger \in [TaskIds -> SUBSET LedgerState] /\ relay.orphans \in SUBSET TaskIds
      /\ calls.st \in [Delegations -> {"none", "chained", "running", "done"}]
      /\ calls.got \in [Delegations -> Ends]
  BY WorldIs, WorldParts
<1>2. relay' = [fresh EXCEPT !.notice = n] /\ calls' = c /\ ledger' = ledger /\ mac' = mac
  BY DEF CrashAndStart
<1>3. \A x \in TaskIds :
        n[x] = IF ledger[x] = {} \/ ledger[x] \cap SettledStates # {} THEN NoNotice
               ELSE [NoNotice EXCEPT !.kind = IF "acked" \in ledger[x] THEN "unclaimed" ELSE "dropped"]
  BY DEF Reaped, SettledStates
<1>31. ASSUME NEW x \in TaskIds
       PROVE  n[x] \in {NoNotice, [kind |-> "unclaimed", by |-> 0],
              [kind |-> "dropped", by |-> 0]}
              /\ (n[x].kind = "dropped" => "acked" \notin ledger[x])
              /\ (ledger[x] # {} /\ ledger[x] \cap SettledStates = {} => n[x].kind # "none")
              /\ (ledger[x] = {} => n[x] = NoNotice)
  <2> HIDE DEF n
  <2>1. CASE ledger[x] = {} \/ ledger[x] \cap SettledStates # {}
    <3>1. n[x] = NoNotice BY <1>3, <2>1
    <3> QED BY <3>1, <2>1 DEF NoNotice
  <2>2. CASE ~(ledger[x] = {} \/ ledger[x] \cap SettledStates # {}) /\ "acked" \in ledger[x]
    BY <1>3, <2>2 DEF NoNotice
  <2>3. CASE ~(ledger[x] = {} \/ ledger[x] \cap SettledStates # {}) /\ "acked" \notin ledger[x]
    BY <1>3, <2>3 DEF NoNotice
  <2> QED BY <2>1, <2>2, <2>3
<1>4. n \in [TaskIds -> Notices]
  <2>1. n = [x \in TaskIds |-> n[x]] BY DEF Reaped
  <2>2. \A x \in TaskIds : n[x] \in Notices BY <1>31 DEF Notices, NoNotice
  <2> HIDE DEF n
  <2> QED BY <2>1, <2>2
<1>5. \A x \in TaskIds :
        /\ n[x].kind = "dropped" => "acked" \notin ledger[x]
        /\ ledger[x] # {} /\ ledger[x] \cap SettledStates = {} => n[x].kind # "none"
        /\ ledger[x] = {} => n[x] = NoNotice
  BY <1>31
<1> HIDE DEF n
<1>6. /\ relay'.state = [t \in TaskIds |-> "none"] /\ relay'.waiter = {} /\ relay'.parked = 0
      /\ relay'.recovered = rec /\ relay'.notice = n /\ relay'.fresh = FALSE
      /\ relay'.orphans = relay.orphans /\ relay' \in RelayRecord
  <2> HIDE DEF rec
  <2> QED BY <1>1, <1>4, <1>2 DEF RelayRecord, rec
<1>7. /\ \A t \in Delegations : st[t] = (IF calls.st[t] = "none" THEN "none" ELSE "done")
      /\ \A t \in Delegations : got[t] = IF calls.st[t] \in {"chained", "running"} THEN "lost"
                                         ELSE calls.got[t]
      /\ st \in [Delegations -> {"none", "chained", "running", "done"}]
      /\ got \in [Delegations -> Ends]
  BY <1>1 DEF Ends
<1> HIDE DEF st, got, fresh
<1>8. /\ calls'.st = st /\ calls'.got = got /\ calls'.watchdog = {}
      /\ calls'.stops = calls.stops /\ calls' \in CallsRecord
  BY <1>1, <1>2, <1>7 DEF CallsRecord
<1>9. /\ y.relay = relay' /\ y.ledger = ledger /\ y.mac = mac /\ y.calls = calls' /\ y \in Worlds
  BY <1>1, <1>2, <1>6, <1>8 DEF World, Worlds
<1> HIDE DEF w, y, c
<1>10. ASSUME NEW x \in TaskIds PROVE TaskSound(y, x)
  BY <1>1, <1>6, <1>9, <1>5 DEF RelaySound, TaskSound
<1>11. ASSUME NEW x \in TaskIds, FreshTask(w, x) PROVE FreshTask(y, x)
  BY <1>1, <1>5, <1>6, <1>9, <1>11 DEF FreshTask
<1>12. ASSUME NEW t \in Delegations PROVE CallSound(y, t)
  BY <1>1, TaskNumbers, <1>6, <1>7, <1>8, <1>9, <1>11 DEF RelaySound, CallSound
<1>13. InTurn(y.calls.st) BY <1>1, <1>7, <1>8, <1>9 DEF Delegations, InTurn
<1>14. RelaySound(y) BY <1>1, <1>9, <1>10, <1>12, <1>13 DEF RelaySound
<1> QED BY <1>14 DEF y, SutandoInv, RelaySound, TaskSound, CallSound, FreshTask, InTurn

\* The notices change hands.
LEMMA OnlyHands ==
  ASSUME SutandoInv, NEW n \in [TaskIds -> Notices],
         \A x \in TaskIds : /\ n[x].kind = relay.notice[x].kind
                            /\ relay.notice[x] = NoNotice => n[x] = NoNotice,
         NEW r, r = [relay EXCEPT !.notice = n], NEW y, y = [World EXCEPT !.relay = r]
  PROVE  RelaySound(y)
<1>1. /\ RelaySound(World) /\ World \in Worlds /\ World.relay = relay /\ World.ledger = ledger
      /\ World.mac = mac /\ World.calls = calls /\ InTurn(calls.st) /\ ~mac.again
      /\ relay \in RelayRecord
  BY WorldIs, WorldParts
<1>2. /\ r \in RelayRecord /\ r.state = relay.state /\ r.waiter = relay.waiter
      /\ r.recovered = relay.recovered /\ r.notice = n /\ r.orphans = relay.orphans
  BY <1>1 DEF RelayRecord
<1>3. y \in Worlds /\ y.relay = r /\ y.mac = mac /\ y.calls = calls /\ y.ledger = ledger
  BY <1>1, <1>2 DEF Worlds
<1>4. ASSUME NEW x \in TaskIds PROVE SameTask(World, y, x) /\ SameCall(World, y, x)
  BY <1>1, <1>2, <1>3 DEF SameTask, SameCall
<1> QED BY <1>1, <1>3, <1>4, TaskNumbers, Frame

\* A session claims the notices that nobody holds, or gives its own back.
LEMMA NoticesKeep ==
  ASSUME SutandoInv, NEW s \in NoticeSessions, ClaimNotices(s) \/ ReleaseNotices(s)
  PROVE  SutandoInv'
<1>1. World \in Worlds /\ World.relay = relay /\ relay \in RelayRecord
      /\ relay.notice \in [TaskIds -> Notices] /\ s # 0
  BY WorldIs, WorldParts
<1>2. ASSUME NEW n \in [TaskIds -> Notices],
             \A x \in TaskIds : /\ n[x].kind = relay.notice[x].kind
                                /\ relay.notice[x] = NoNotice => n[x] = NoNotice,
             Turns([World EXCEPT !.relay = [relay EXCEPT !.notice = n]], TRUE)
      PROVE  SutandoInv'
  <2> DEFINE r == [relay EXCEPT !.notice = n]
             y == [World EXCEPT !.relay = r]
  <2>1. Turns(y, TRUE) BY <1>2
  <2>2. RelaySound(y)
    <3> HIDE DEF r
    <3> QED BY <1>2, OnlyHands DEF r
  <2> HIDE DEF y
  <2> QED BY <2>1, <2>2, TurnsSound
<1>3. CASE ClaimNotices(s)
  <2> DEFINE n == [t \in TaskIds |-> IF relay.notice[t].kind # "none" /\ relay.notice[t].by = 0
                                     THEN [relay.notice[t] EXCEPT !.by = s] ELSE relay.notice[t]]
  <2>1. Turns([World EXCEPT !.relay = [relay EXCEPT !.notice = n]], TRUE)
    BY <1>1, <1>3 DEF Worlds, RelayRecord, ClaimNotices
  <2>2. n \in [TaskIds -> Notices]
        /\ \A x \in TaskIds : /\ n[x].kind = relay.notice[x].kind
                              /\ relay.notice[x] = NoNotice => n[x] = NoNotice
    BY <1>1 DEF Notices, NoNotice
  <2> HIDE DEF n
  <2> QED BY <1>2, <2>1, <2>2
<1>4. CASE ReleaseNotices(s)
  <2> DEFINE n == [t \in TaskIds |-> IF relay.notice[t].by = s
                                     THEN [relay.notice[t] EXCEPT !.by = 0] ELSE relay.notice[t]]
  <2>1. Turns([World EXCEPT !.relay = [relay EXCEPT !.notice = n]], TRUE)
    BY <1>1, <1>4 DEF Worlds, RelayRecord, ReleaseNotices
  <2>2. n \in [TaskIds -> Notices]
        /\ \A x \in TaskIds : /\ n[x].kind = relay.notice[x].kind
                              /\ relay.notice[x] = NoNotice => n[x] = NoNotice
    BY <1>1 DEF Notices, NoNotice
  <2> HIDE DEF n
  <2> QED BY <1>2, <2>1, <2>2
<1> QED BY <1>3, <1>4

\* A notice is acknowledged once that is recorded.
LEMMA AckNoticeKeeps ==
  ASSUME SutandoInv, NEW s \in NoticeSessions, NEW t \in TaskIds, AckNotice(s, t)
  PROVE  SutandoInv'
<1> DEFINE w == World
           k == "notice_consumed"
           v == Writes(w, t, k)
           n == [relay.notice EXCEPT ![t] = NoNotice]
           r == [relay EXCEPT !.notice = n]
           y == [v EXCEPT !.relay = r]
<1>1. /\ RelaySound(w) /\ w \in Worlds /\ w.relay = relay /\ w.ledger = ledger
      /\ w.mac = mac /\ w.calls = calls /\ InTurn(calls.st) /\ ~mac.again
      /\ relay \in RelayRecord /\ relay.notice \in [TaskIds -> Notices]
  BY WorldIs, WorldParts
<1>2. relay.notice[t] # NoNotice /\ k \in LedgerState /\ NoNotice \in Notices
  BY DEF AckNotice, NoNotice, LedgerState, Notices
<1>3. PICK ok \in BOOLEAN :
        Turns(IF ok THEN [LedgerAppend(World, t, "notice_consumed", ok)
                          EXCEPT !.relay.notice[t] = NoNotice] ELSE World, ok)
  BY DEF AckNotice
<1>4. CASE ~ok BY <1>3, <1>4, <1>1, TurnsSound
<1>5. CASE ok
  <2>1. Turns([v EXCEPT !.relay.notice[t] = NoNotice], ok)
    <3>1. v = LedgerAppend(World, t, "notice_consumed", ok) BY <1>5 DEF LedgerAppend, Writes
    <3> HIDE DEF v
    <3> QED BY <1>3, <1>5, <3>1
  <2> HIDE DEF w, k
  <2>2. /\ v \in Worlds /\ v.relay = relay /\ v.mac = mac /\ v.calls = calls
        /\ v.ledger[t] = ledger[t] \cup {k}
        /\ \A z \in TaskIds \ {t} : v.ledger[z] = ledger[z]
    <3>1. v = Writes(w, t, k) OBVIOUS
    <3> HIDE DEF v
    <3> QED BY <1>1, <1>2, <3>1, Recorded
  <2> HIDE DEF v
  <2>3. [v EXCEPT !.relay.notice[t] = NoNotice] = y BY <1>1, <2>2 DEF Worlds, RelayRecord
  <2>4. n \in [TaskIds -> Notices] /\ n[t] = NoNotice
        /\ \A x \in TaskIds \ {t} : n[x] = relay.notice[x]
    BY <1>1, <1>2
  <2> HIDE DEF n
  <2>5. /\ r \in RelayRecord /\ r.state = relay.state /\ r.waiter = relay.waiter
        /\ r.recovered = relay.recovered /\ r.notice = n /\ r.orphans = relay.orphans
    BY <1>1, <2>4 DEF RelayRecord
  <2> HIDE DEF r
  <2>6. y \in Worlds /\ y.relay = r /\ y.mac = mac /\ y.calls = calls /\ y.ledger = v.ledger
    BY <2>2, <2>5 DEF Worlds
  <2>7. Turns(y, ok) BY <2>1, <2>3
  <2> HIDE DEF y
  <2>8. ASSUME NEW x \in TaskIds \ {t} PROVE SameTask(w, y, x)
    BY <1>1, <2>2, <2>4, <2>5, <2>6 DEF SameTask
  <2>9. ASSUME NEW u \in Delegations PROVE SameCall(w, y, u) BY <1>1, <2>5, <2>6 DEF SameCall
  <2>10. TaskSound(w, t) /\ (t \in Delegations => CallSound(w, t)) /\ ~FreshTask(w, t)
    BY <1>1, <1>2 DEF RelaySound, FreshTask
  <2>11. TaskSound(y, t)
    BY <2>2, <2>4, <2>5, <2>6, <1>1, <2>10 DEF k, NoNotice, SettledStates, TaskSound
  <2>12. ASSUME t \in Delegations PROVE CallSound(y, t)
    BY <2>12, TaskNumbers, <2>8, <2>10, FreshKept, <1>1, <2>5, <2>6 DEF CallSound
  <2>14. RelaySound(y) BY <1>1, <2>6, <2>8, <2>9, <2>10, <2>11, <2>12, OneTaskKeeps
  <2> QED BY <2>7, <2>14, TurnsSound
<1> QED BY <1>4, <1>5

-----------------------------------------------------------------------------
\* Nothing has been submitted.
LEMMA SutandoInitSound ==
  ASSUME SutandoInit PROVE SutandoInv
<1> DEFINE w == World
<1>1. /\ w.relay = relay /\ w.ledger = ledger /\ w.mac = mac /\ w.calls = calls
      /\ relay.state = [t \in TaskIds |-> "none"] /\ relay.waiter = {} /\ relay.recovered = {}
      /\ relay.notice = [t \in TaskIds |-> NoNotice] /\ relay.orphans = {}
      /\ ledger = [t \in TaskIds |-> {}]
      /\ mac.running = {} /\ mac.done = {} /\ mac.posted = {} /\ mac.again = FALSE
      /\ calls.st = [t \in Delegations |-> "none"] /\ calls.got = [t \in Delegations |-> "none"]
      /\ calls.stops = [t \in Delegations |-> 0]
  BY DEF SutandoInit, World
<1>2. w \in Worlds
  BY DEF SutandoInit, RelayRecord, Notices, NoNotice, MacRecord, CallsRecord, Ends, World, Worlds
<1> HIDE DEF w
<1>3. ASSUME NEW x \in TaskIds PROVE FreshTask(w, x) /\ TaskSound(w, x)
  BY <1>1 DEF FreshTask, TaskSound
<1>4. ASSUME NEW t \in Delegations PROVE CallSound(w, t) BY <1>3, TaskNumbers, <1>1 DEF CallSound
<1>5. InTurn(w.calls.st) BY <1>1 DEF Delegations, InTurn
<1> QED BY <1>1, <1>2, <1>3, <1>4, <1>5 DEF SutandoInv, RelaySound, w

\* Every step keeps the invariant.
LEMMA SutandoStep ==
  ASSUME SutandoInv, [SutandoNext]_sutandoVars PROVE SutandoInv'
<1>1. CASE UNCHANGED sutandoVars
  BY <1>1 DEF sutandoVars, World, SutandoInv, RelaySound, TaskSound, CallSound, FreshTask, InTurn
<1>2. CASE \E t \in Delegations : InvokeSutando(t) \/ RunOne(t)
  BY <1>2, InvokeSutandoKeeps, RunOneKeeps
<1>3. CASE \E t \in Delegations : \E reason \in {"cancelled", "watchdog_expired"} :
             CallGivesUp(t, reason)
  BY <1>3, CallGivesUpKeeps
<1>4. CASE DisposeSutando \/ HandlePoll \/ PollEnds \/ Presence \/ CrashAndStart
  BY <1>4, DisposeSutandoKeeps, PollKeeps, CrashAndStartKeeps
<1>5. CASE \E t \in TaskIds : HandleAck(t) \/ MacFinishes(t) \/ HandleResult(t) \/ Sweep(t)
  BY <1>5, HandleAckKeeps, MacFinishesKeeps, HandleResultKeeps, SweepKeeps
<1>6. CASE \E s \in NoticeSessions : ClaimNotices(s) \/ ReleaseNotices(s) BY <1>6, NoticesKeep
<1>7. CASE \E s \in NoticeSessions : \E t \in TaskIds : AckNotice(s, t) BY <1>7, AckNoticeKeeps
<1> QED BY <1>1, <1>2, <1>3, <1>4, <1>5, <1>6, <1>7 DEF SutandoNext

\* The inductive invariant of the relay.  The ledger is ahead of the Mac: what it runs or
\* ran was recorded as acked first, and what is queued, leased, expired or revoked was
\* not.  What it runs and has not posted, the server still knows or has recovered; what
\* is fresh nobody has heard of; an instruction to stop is submitted once, by the call
\* that gives up; and calls run in turn, each with its waiter and a clock.
THEOREM DelegationsInductive == SutandoSpec => []SutandoInv
BY SutandoInitSound, SutandoStep, PTL DEF SutandoSpec

\* One call of the instance runs at a time.
LEMMA OneRuns ==
  ASSUME SutandoInv PROVE Cardinality({t \in Delegations : calls.st[t] = "running"}) <= 1
<1> DEFINE R == {t \in Delegations : calls.st[t] = "running"}
<1>2. ASSUME NEW t \in R, NEW u \in R PROVE t = u
  <2>1. ASSUME NEW a \in Delegations, NEW b \in Delegations, a < b PROVE b \notin R \/ a \notin R
    BY <2>1, WorldIs, WorldParts DEF Delegations, InTurn
  <2> QED BY <2>1 DEF Delegations
<1>3. CASE R = {} BY <1>3, FS_EmptySet
<1>4. CASE R # {}
  <2>1. PICK t : t \in R BY <1>4
  <2>2. R = {t} BY <1>2, <2>1
  <2>3. Cardinality({t}) = 1 BY FS_Singleton
  <2>4. Cardinality(R) = 1
    <3> HIDE DEF R
    <3> QED BY <2>2, <2>3
  <2> QED BY <2>4
<1> QED BY <1>3, <1>4

\* Whatever leases, acks, results, deadlines, aborts, restarts and lost answers
\* come in whatever order: the Mac executes a task once at most and is told to stop once
\* at most, a notice of a dropped task is true and no task of an earlier life goes
\* unannounced, a result is answered or in the orphan log and never both, and a call that
\* waits has a clock that ends it, one call at a time.
THEOREM DelegationsAccounted == SutandoSpec => []DelegationsAreAccounted
<1>1. SutandoInv => DelegationsAreAccounted
  <2> SUFFICES ASSUME SutandoInv PROVE DelegationsAreAccounted OBVIOUS
  <2>1. /\ RelaySound(World) /\ World.relay = relay /\ World.ledger = ledger
        /\ World.mac = mac /\ World.calls = calls /\ ~mac.again
        /\ relay.state \in [TaskIds -> RelayTaskState \cup {"none"}]
        /\ ledger \in [TaskIds -> SUBSET LedgerState]
        /\ mac.has \in SUBSET TaskIds /\ mac.running \in SUBSET TaskIds
        /\ mac.done \in SUBSET TaskIds /\ mac.posted \in SUBSET TaskIds
    BY WorldIs, WorldParts
  <2>2. (\A x \in TaskIds : TaskSound(World, x)) /\ \A t \in Delegations : CallSound(World, t)
    BY <2>1 DEF RelaySound
  <2>3. SutandoTypeOK BY <2>1 DEF SutandoTypeOK
  <2>4. ExecutedOnce BY <2>1, <2>2 DEF ExecutedOnce, CallSound
  <2>5. NoticesAreTrue
    <3>1. ASSUME NEW t \in TaskIds, relay.notice[t].kind = "dropped"
          PROVE  t \notin mac.running \cup mac.done
      BY <2>1, <2>2, <3>1 DEF TaskSound
    <3>2. ASSUME NEW t \in TaskIds, relay.state[t] = "none", ledger[t] # {},
                 ledger[t] \cap ({"completed", "notice_consumed"} \cup Intents) = {}
          PROVE  relay.notice[t].kind # "none"
      BY <2>1, <2>2, <3>2 DEF TaskSound, SettledStates
    <3>3. ASSUME NEW t \in mac.running \cup mac.done PROVE "acked" \in ledger[t]
      BY <2>1, <2>2, <3>3 DEF TaskSound
    <3> QED BY <3>1, <3>2, <3>3 DEF NoticesAreTrue
  <2>6. ResultsHaveAFate BY <2>1, <2>2 DEF ResultsHaveAFate, CallSound
  <2>7. CallsHaveAClock
    <3>1. ASSUME NEW t \in Delegations, calls.st[t] = "running"
          PROVE  /\ t \in calls.watchdog \/ relay.state[t] \in {"queued", "leased"}
                 /\ t \in relay.waiter
      BY <2>1, <2>2, <3>1 DEF CallSound
    <3> QED BY <3>1, OneRuns DEF CallsHaveAClock
  <2> QED BY <2>3, <2>4, <2>5, <2>6, <2>7 DEF DelegationsAreAccounted
<1> QED BY <1>1, DelegationsInductive, PTL

-----------------------------------------------------------------------------
(* The two interviews.                                                     *)

\* An answer as it is filed.
InterviewAnswers == [anchor : Nat, q : Nat, about : Nat]

\* A call of the tool.
InterviewCallStates == [st : {"none", "queued", "deciding", "done", "failed"}, said : BOOLEAN,
  about : Nat,
                        aborted : BOOLEAN]

\* The state of an interview.
InterviewStates ==
  [kind : {"interview", "deepdive"}, phase :
    {"not_prepared", "prepared", "questioning", "completed"},
   plan : {"none", "model", "fallback"}, named : BOOLEAN, next : Nat, open : Nat, anchor : Nat,
   asked : Nat, answers : Seq(InterviewAnswers), dyn : [1..3 -> Nat] \cup [1..4 -> Nat],
   disposed : BOOLEAN, chain : Seq(InterviewCalls), deciding : SUBSET InterviewCalls, heard : Nat,
   crossed : BOOLEAN, calls : [InterviewCalls -> InterviewCallStates]]

\* The answers filed under anchor a.
Given(answers, a) == {i \in 1..Len(answers) : answers[i].anchor = a}

\* The anchor of the last answer.
LastAnchor(answers) == IF Len(answers) = 0 THEN 0 ELSE answers[Len(answers)].anchor

\* The place in the plan: the question that waits is about the anchor reached.
PlaceSound(s) ==
  /\ DOMAIN s.dyn = 1..Len(Anchors(s.kind)) /\ s.next <= Len(Anchors(s.kind))
  /\ s.anchor \in {0, s.next} /\ (s.open = 0 <=> s.anchor = 0)
  /\ s.phase = "completed" => s.next = Len(Anchors(s.kind)) /\ s.anchor = 0

\* The answers go through the anchors one by one up to the one reached.
OrderSound(s) ==
  /\ \A i \in 1..Len(s.answers) : s.answers[i].anchor >= 1 /\ s.answers[i].anchor <= s.next
  /\ \A i \in 1..Len(s.answers) : i > 1 =>
       s.answers[i].anchor = s.answers[i - 1].anchor
         \/ s.answers[i].anchor = s.answers[i - 1].anchor + 1
  /\ Len(s.answers) > 0 => s.answers[1].anchor = 1
  /\ LastAnchor(s.answers) = s.next \/ (LastAnchor(s.answers) + 1 = s.next /\ s.anchor = s.next)

\* Each question asked on an anchor has its answer, but the one that waits.
CountSound(s) ==
  \A a \in DOMAIN s.dyn :
    /\ s.dyn[a] <= DynamicBudget(s.kind)
    /\ a <= s.next => Cardinality(Given(s.answers,
            a)) + (IF s.anchor = a THEN 1 ELSE 0) = 1 + s.dyn[a]
    /\ a > s.next => s.dyn[a] = 0

\* The questions and the answers.
BooksSound(s) == s \in InterviewStates /\ PlaceSound(s) /\ OrderSound(s) /\ CountSound(s)

\* The queue of states: each in it once, none but the first deciding.
ChainSound(s) ==
  /\ \A i, j \in 1..Len(s.chain) : i < j => s.chain[i] # s.chain[j]
  /\ \A i \in 1..Len(s.chain) : s.calls[s.chain[i]].st \in {"queued", "deciding"}
  /\ \A c \in s.deciding : s.chain # <<>> /\ c = s.chain[1] /\ s.calls[c].st = "deciding"

\* Unless calls crossed there is one call, and every answer is about its question.
AloneSound(s) ==
  ~s.crossed => /\ Len(s.chain) <= 1
                /\ \A i \in 1..Len(s.answers) : s.answers[i].about = s.answers[i].q

\* A call knows the question that was heard, which is the one that waits.
HeardSound(s) ==
  ~s.crossed => /\ \A i \in 1..Len(s.chain) : s.calls[s.chain[i]].about = s.heard
                /\ s.open # 0 => s.open = s.heard

\* The parts together; the call that decides has filed its answer.
InterviewSound(s) ==
  /\ BooksSound(s) /\ ChainSound(s) /\ AloneSound(s) /\ HeardSound(s)
  /\ s.deciding # {} => s.anchor = 0 /\ Len(s.answers) > 0
  /\ s.disposed => s.phase # "not_prepared"

\* And the reminder.
InterviewInv ==
  /\ InterviewSound(iv)
  /\ reminder = [on |-> reminder.on, left |-> reminder.left, afterEnd |-> FALSE]
  /\ reminder.on \in BOOLEAN
  /\ iv.disposed => ~reminder.on

\* The plan has three anchors or four, and each has a budget.
LEMMA AnchorCount ==
  ASSUME NEW k \in {"interview", "deepdive"}
  PROVE  /\ Len(Anchors(k)) \in {3, 4} /\ DynamicBudget(k) \in Nat /\ DynamicBudget(k) >= 1
<1>2. Len(AnchorIds) = 4 BY DEF AnchorIds
<1> QED BY <1>2 DEF Anchors, DynamicBudget, QuestionBudget, AnchorBudget, QuestionIds

\* The answers and their anchors.
LEMMA AnchorsAre ==
  ASSUME NEW q \in Seq(InterviewAnswers)
  PROVE  /\ Len(q) \in Nat /\ \A i \in 1..Len(q) : q[i] \in InterviewAnswers
              /\ q[i].anchor \in Nat
         /\ LastAnchor(q) \in Nat
<1>1. Len(q) \in Nat BY LenProperties
<1>2. ASSUME NEW i \in 1..Len(q) PROVE q[i] \in InterviewAnswers BY <1>1, ElementOfSeq
<1>3. ASSUME NEW i \in 1..Len(q) PROVE q[i].anchor \in Nat BY <1>2, <1>3 DEF InterviewAnswers
<1> QED BY <1>1, <1>2, <1>3 DEF LastAnchor

\* The answers on an anchor can be counted.
LEMMA GivenFinite ==
  ASSUME NEW q \in Seq(InterviewAnswers), NEW a
  PROVE  IsFiniteSet(Given(q, a)) /\ Cardinality(Given(q, a)) \in Nat
         /\ Given(q, a) \subseteq 1..Len(q)
<1>1. Len(q) \in Nat BY LenProperties
<1>2. IsFiniteSet(1..Len(q)) BY <1>1, FS_Interval
<1> QED BY <1>2, FS_Subset, FS_CardinalityType DEF Given

\* An answer more counts on its own anchor.
LEMMA GivenAppended ==
  ASSUME NEW q \in Seq(InterviewAnswers), NEW e \in InterviewAnswers, NEW a
  PROVE  Cardinality(Given(Append(q, e), a)) =
           Cardinality(Given(q, a)) + (IF e.anchor = a THEN 1 ELSE 0)
<1>1. /\ Len(q) \in Nat /\ Len(Append(q, e)) = Len(q) + 1 /\ Append(q, e)[Len(q) + 1] = e
      /\ \A i \in 1..Len(q) : Append(q, e)[i] = q[i]
  BY AppendProperties, LenProperties
<1>2. IsFiniteSet(Given(q, a)) /\ Cardinality(Given(q, a)) \in Nat
      /\ Given(q, a) \subseteq 1..Len(q)
  BY GivenFinite
<1>3. CASE e.anchor = a
  <2>1. Given(Append(q, e), a) = Given(q, a) \cup {Len(q) + 1} BY <1>1, <1>3 DEF Given
  <2>2. Len(q) + 1 \notin Given(q, a) BY <1>1, <1>2
  <2>3. Cardinality(Given(q, a) \cup {Len(q) + 1}) = Cardinality(Given(q, a)) + 1
    BY <1>2, <2>2, FS_AddElement
  <2> QED BY <1>3, <2>1, <2>3
<1>4. CASE e.anchor # a
  <2>1. Given(Append(q, e), a) = Given(q, a) BY <1>1, <1>4 DEF Given
  <2> QED BY <1>2, <1>4, <2>1
<1> QED BY <1>3, <1>4

\* What the numbers of an interview are.
LEMMA BookFacts ==
  ASSUME NEW s, BooksSound(s)
  PROVE  /\ s.next \in Nat /\ s.open \in Nat /\ s.asked \in Nat /\ s.anchor \in Nat
              /\ s.next <= Len(Anchors(s.kind))
         /\ s.kind \in {"interview", "deepdive"} /\ Len(Anchors(s.kind)) \in {3, 4}
                 /\ DynamicBudget(s.kind) \in Nat
         /\ DOMAIN s.dyn = 1..Len(Anchors(s.kind))
         /\ \A a \in DOMAIN s.dyn : s.dyn[a] \in Nat /\ a \in Nat /\ a >= 1
<1>1. s \in InterviewStates /\ PlaceSound(s) BY DEF BooksSound
<1>2. /\ s.next \in Nat /\ s.open \in Nat /\ s.asked \in Nat /\ s.anchor \in Nat
      /\ s.kind \in {"interview", "deepdive"} /\ s.dyn \in [1..3 -> Nat] \cup [1..4 -> Nat]
  BY <1>1 DEF InterviewStates
<1>3. Len(Anchors(s.kind)) \in {3, 4} /\ DynamicBudget(s.kind) \in Nat BY <1>2, AnchorCount
<1>4. s.next <= Len(Anchors(s.kind)) /\ DOMAIN s.dyn = 1..Len(Anchors(s.kind))
  BY <1>1 DEF PlaceSound
<1>5. ASSUME NEW a \in DOMAIN s.dyn PROVE s.dyn[a] \in Nat BY <1>2
<1>6. ASSUME NEW a \in DOMAIN s.dyn PROVE a \in Nat /\ a >= 1 BY <1>3, <1>4
<1> QED BY <1>2, <1>3, <1>4, <1>5, <1>6

\* An anchor just reached has no answer yet.
LEMMA GivenNone ==
  ASSUME NEW s, BooksSound(s), NEW a \in Nat, a > s.next
  PROVE  Given(s.answers, a) = {} /\ Cardinality(Given(s.answers, a)) = 0
<1>1. s.next \in Nat BY BookFacts
<1>3. \A i \in 1..Len(s.answers) : s.answers[i].anchor \in Nat
  BY AnchorsAre DEF BooksSound, InterviewStates
<1>6. Given(s.answers, a) = {} BY <1>1, <1>3 DEF Given, BooksSound, OrderSound
<1> QED BY <1>6, FS_EmptySet

\* What is not about questions.
SameCalls(s, y) ==
  /\ y.chain = s.chain /\ y.deciding = s.deciding /\ y.calls = s.calls /\ y.heard = s.heard
  /\ y.crossed = s.crossed /\ y.disposed = s.disposed /\ y.kind = s.kind

\* The next anchor is asked, or the interview is completed.
LEMMA NextKeeps ==
  ASSUME NEW s, BooksSound(s), s.anchor = 0, NEW y, y = getNextInterviewQuestion(s)
  PROVE  BooksSound(y) /\ SameCalls(s, y) /\ y.answers = s.answers /\ y.phase # "not_prepared"
<1> DEFINE n == Len(Anchors(s.kind))
<1>1. s \in InterviewStates BY DEF BooksSound
<1>2. /\ n \in {3, 4} /\ s.next \in Nat /\ s.open \in Nat /\ s.asked \in Nat /\ s.next <= n
  BY BookFacts
<1>3. DOMAIN s.dyn = 1..n /\ \A a \in DOMAIN s.dyn : s.dyn[a] \in Nat /\ a \in Nat /\ a >= 1
  BY BookFacts
<1>4. CASE s.next >= n
  <2>1. y = [s EXCEPT !.phase = "completed", !.open = 0, !.anchor = 0]
    BY <1>4 DEF getNextInterviewQuestion
  <2>2. y \in InterviewStates
    <3>1. "completed" \in {"not_prepared", "prepared", "questioning", "completed"} /\ 0 \in Nat
      OBVIOUS
    <3> QED BY <1>1, <2>1, <3>1, ZenonT(30) DEF InterviewStates
  <2>3. /\ y.phase = "completed" /\ y.open = 0 /\ y.anchor = 0 /\ y.next = s.next
             /\ y.answers = s.answers
        /\ y.dyn = s.dyn /\ SameCalls(s, y)
    BY <1>1, <2>1 DEF InterviewStates, SameCalls
  <2>4. y.kind = s.kind BY <2>3 DEF SameCalls
  <2>5. PlaceSound(y) BY <1>2, <1>4, <1>3, <2>3, <2>4 DEF PlaceSound
  <2>7. CountSound(y) BY <2>3, <2>4 DEF BooksSound, CountSound
  <2> QED BY <2>2, <2>3, <2>5, <2>7 DEF BooksSound, OrderSound
<1>5. CASE s.next < n
  <2>1. y = [s EXCEPT !.next = s.next + 1, !.anchor = s.next + 1, !.asked = s.asked + 1,
        !.open = s.asked + 1,
                      !.phase = "questioning"]
    BY <1>2, <1>5 DEF getNextInterviewQuestion
  <2>2. s.next + 1 \in Nat /\ s.asked + 1 \in Nat /\ s.next + 1 <= n /\ s.asked + 1 # 0
        /\ s.next + 1 # 0
    <3>1. s.next \in Nat /\ s.asked \in Nat /\ n \in Nat BY <1>2
    <3> HIDE DEF n
    <3> QED BY <3>1, <1>5
  <2>3. y \in InterviewStates
    <3>1. "questioning" \in {"not_prepared", "prepared", "questioning", "completed"} OBVIOUS
    <3> QED BY <1>1, <2>1, <2>2, <3>1, ZenonT(60) DEF InterviewStates
  <2>4. /\ y.phase = "questioning" /\ y.open = s.asked + 1 /\ y.anchor = s.next + 1
             /\ y.next = s.next + 1
        /\ y.answers = s.answers /\ y.dyn = s.dyn /\ SameCalls(s, y)
    BY <1>1, <2>1 DEF InterviewStates, SameCalls
  <2>5. y.kind = s.kind BY <2>4 DEF SameCalls
  <2>6. PlaceSound(y) BY <1>3, <2>2, <2>4, <2>5 DEF PlaceSound
  <2>8. /\ \A i \in 1..Len(s.answers) : s.answers[i].anchor \in Nat
        /\ LastAnchor(s.answers) \in Nat
    BY AnchorsAre, <1>1 DEF InterviewStates
  <2>9. LastAnchor(s.answers) = s.next BY <1>2, <2>8 DEF BooksSound, OrderSound
  <2>10. OrderSound(y)
    <3>1. \A i \in 1..Len(s.answers) : s.answers[i].anchor >= 1 /\ s.answers[i].anchor <= s.next
      BY DEF BooksSound, OrderSound
    <3>2. \A i \in 1..Len(s.answers) : s.answers[i].anchor >= 1
          /\ s.answers[i].anchor <= s.next + 1
      <4> SUFFICES ASSUME NEW i \in 1..Len(s.answers)
                   PROVE  s.answers[i].anchor >= 1 /\ s.answers[i].anchor <= s.next + 1
        OBVIOUS
      <4>2. s.answers[i].anchor \in Nat /\ s.next \in Nat BY <1>2, <2>8
      <4> QED BY <4>2, <3>1
    <3> QED BY <2>4, <2>9, <3>2 DEF OrderSound, BooksSound
  <2>11. ASSUME NEW a \in DOMAIN s.dyn
         PROVE  /\ s.dyn[a] <= DynamicBudget(s.kind)
                /\ a <= s.next + 1 =>
                     Cardinality(Given(s.answers,
                       a)) + (IF s.next + 1 = a THEN 1 ELSE 0) = 1 + s.dyn[a]
                /\ a > s.next + 1 => s.dyn[a] = 0
    <3>1. /\ s.dyn[a] <= DynamicBudget(s.kind)
          /\ a <= s.next => Cardinality(Given(s.answers,
                  a)) + (IF s.anchor = a THEN 1 ELSE 0) = 1 + s.dyn[a]
          /\ a > s.next => s.dyn[a] = 0
      BY DEF BooksSound, CountSound
    <3>2. a \in Nat /\ a >= 1 BY <1>3
    <3>3. CASE a = s.next + 1 BY <1>2, <3>3, <3>2, GivenNone, <3>1
    <3>4. CASE a # s.next + 1 BY <3>2, <1>2, <3>4, <3>1
    <3> QED BY <3>3, <3>4
  <2> QED BY <2>3, <2>4, <2>6, <2>10, <2>5, <2>11 DEF BooksSound, CountSound
<1> QED BY <1>2, <1>4, <1>5

\* The question that waits gets its answer.
LEMMA RecordKeeps ==
  ASSUME NEW s, BooksSound(s), s.open # 0, NEW c \in InterviewCalls, NEW y,
         y = recordInterviewAnswer(s, c)
  PROVE  /\ BooksSound(y) /\ SameCalls(s, y) /\ y.phase = s.phase /\ y.open = 0 /\ y.anchor = 0
         /\ Len(y.answers) = Len(s.answers) + 1
         /\ \A i \in 1..Len(s.answers) : y.answers[i] = s.answers[i]
         /\ y.answers[Len(y.answers)].q = s.open
                 /\ y.answers[Len(y.answers)].about = s.calls[c].about
<1> DEFINE e == [anchor |-> s.anchor, q |-> s.open, about |-> s.calls[c].about]
<1>1. s \in InterviewStates BY DEF BooksSound
<1>2. /\ s.next \in Nat /\ s.open \in Nat /\ s.anchor \in Nat
      /\ s.answers \in Seq(InterviewAnswers) /\ s.kind \in {"interview", "deepdive"}
      /\ s.calls[c] \in InterviewCallStates
  BY <1>1 DEF InterviewStates
<1>3. e \in InterviewAnswers BY <1>2 DEF InterviewAnswers, InterviewCallStates
<1>4. y = [s EXCEPT !.answers = Append(s.answers, e), !.open = 0, !.anchor = 0]
  BY DEF recordInterviewAnswer
<1>5. e.anchor = s.anchor /\ e.q = s.open /\ e.about = s.calls[c].about OBVIOUS
<1> HIDE DEF e
<1>6. /\ Append(s.answers, e) \in Seq(InterviewAnswers) /\ Len(s.answers) \in Nat
      /\ Len(Append(s.answers, e)) = Len(s.answers) + 1
      /\ \A i \in 1..Len(s.answers) : Append(s.answers, e)[i] = s.answers[i]
      /\ Append(s.answers, e)[Len(s.answers) + 1] = e
  BY <1>2, <1>3, AppendProperties, LenProperties
<1>7. y \in InterviewStates
  <2>1. 0 \in Nat OBVIOUS
  <2> QED BY <1>1, <1>4, <1>6, <2>1, ZenonT(30) DEF InterviewStates
<1>8. /\ y.phase = s.phase /\ y.open = 0 /\ y.anchor = 0 /\ y.next = s.next
           /\ y.answers = Append(s.answers, e)
      /\ y.dyn = s.dyn /\ SameCalls(s, y)
  BY <1>1, <1>4 DEF InterviewStates, SameCalls
<1>9. y.kind = s.kind BY <1>8 DEF SameCalls
<1>10. s.anchor = s.next /\ s.next > 0 /\ s.phase # "completed" BY <1>2 DEF BooksSound, PlaceSound
<1>11. PlaceSound(y) BY <1>2, <1>8, <1>9, <1>10 DEF BooksSound, PlaceSound
<1>12. \A i \in 1..Len(s.answers) : s.answers[i].anchor \in Nat BY <1>2, AnchorsAre
<1>13. OrderSound(y)
  <2>1. \A i \in 1..Len(y.answers) : i \in 1..Len(s.answers) \/ i = Len(s.answers) + 1
    BY <1>6, <1>8
  <2>2. \A i \in 1..Len(y.answers) : y.answers[i].anchor >= 1 /\ y.answers[i].anchor <= y.next
    <3>1. \A i \in 1..Len(s.answers) : s.answers[i].anchor >= 1 /\ s.answers[i].anchor <= s.next
      BY DEF BooksSound, OrderSound
    <3>2. s.next \in Nat /\ s.anchor >= 1 /\ s.anchor <= s.next BY <1>2, <1>10
    <3> SUFFICES ASSUME NEW i \in 1..Len(y.answers)
                 PROVE  y.answers[i].anchor >= 1 /\ y.answers[i].anchor <= y.next
      OBVIOUS
    <3>3. CASE i \in 1..Len(s.answers) BY <1>6, <1>8, <3>3, <3>1
    <3>4. CASE i = Len(s.answers) + 1 BY <1>5, <1>6, <1>8, <3>4, <3>2
    <3> QED BY <2>1, <3>3, <3>4
  <2>3. ASSUME NEW i \in 1..Len(y.answers), i > 1
        PROVE  y.answers[i].anchor = y.answers[i - 1].anchor
               \/ y.answers[i].anchor = y.answers[i - 1].anchor + 1
    <3>1. CASE i \in 1..Len(s.answers) BY <1>6, <2>3, <3>1, <1>8 DEF BooksSound, OrderSound
    <3>2. CASE i = Len(s.answers) + 1
      BY <1>6, <2>3, <3>2, <1>5, <1>8, <1>10, <1>2, <1>12 DEF LastAnchor, BooksSound, OrderSound
    <3> QED BY <2>1, <3>1, <3>2
  <2>4. y.answers[1].anchor = 1
    <3>1. CASE Len(s.answers) = 0
      BY <3>1, <1>2, <1>10, <1>5, <1>6, <1>8 DEF LastAnchor, BooksSound, OrderSound
    <3>2. CASE Len(s.answers) > 0 BY <1>6, <1>8, <3>2 DEF BooksSound, OrderSound
    <3> QED BY <1>6, <3>1, <3>2
  <2>5. LastAnchor(y.answers) = y.next BY <1>5, <1>6, <1>8, <1>10 DEF LastAnchor
  <2> QED BY <2>2, <2>3, <2>4, <2>5 DEF OrderSound
<1>14. ASSUME NEW a \in DOMAIN s.dyn
       PROVE  /\ s.dyn[a] <= DynamicBudget(s.kind)
              /\ a <= s.next =>
                   Cardinality(Given(Append(s.answers, e),
                     a)) + (IF 0 = a THEN 1 ELSE 0) = 1 + s.dyn[a]
              /\ a > s.next => s.dyn[a] = 0
  <2>2. a # 0 BY <1>2, AnchorCount DEF BooksSound, PlaceSound
  <2>4. Cardinality(Given(s.answers, a)) \in Nat BY <1>2, GivenFinite
  <2> QED BY <1>5, <2>2, <2>4, <1>2, <1>3, GivenAppended DEF BooksSound, CountSound
<1>15. CountSound(y) BY <1>8, <1>9, <1>14 DEF CountSound
<1>16. BooksSound(y) BY <1>7, <1>11, <1>13, <1>15 DEF BooksSound
<1> QED BY <1>5, <1>6, <1>8, <1>16

\* One more question is asked on the anchor reached.
LEMMA DynamicKeeps ==
  ASSUME NEW s, BooksSound(s), s.anchor = 0, s.next > 0, s.dyn[s.next] < DynamicBudget(s.kind),
         NEW y, y = createDynamicQuestion(s, s.next)
  PROVE  BooksSound(y) /\ SameCalls(s, y) /\ y.answers = s.answers /\ y.phase # "not_prepared"
<1> DEFINE n == Len(Anchors(s.kind))
           more == [s.dyn EXCEPT ![s.next] = s.dyn[s.next] + 1]
<1>1. s \in InterviewStates BY DEF BooksSound
<1>2. /\ n \in {3, 4} /\ s.next \in Nat /\ s.asked \in Nat /\ s.next <= n
           /\ DynamicBudget(s.kind) \in Nat
  BY BookFacts
<1>3. DOMAIN s.dyn = 1..n /\ \A a \in DOMAIN s.dyn : s.dyn[a] \in Nat /\ a \in Nat /\ a >= 1
  BY BookFacts
<1> HIDE DEF n
<1>4. s.next \in DOMAIN s.dyn BY <1>2, <1>3
<1>5. s.dyn[s.next] \in Nat /\ s.dyn[s.next] + 1 \in Nat
      /\ s.dyn[s.next] + 1 <= DynamicBudget(s.kind)
  <2>1. s.dyn[s.next] \in Nat BY <1>3, <1>4
  <2> QED BY <1>2, <2>1
<1>6. /\ DOMAIN more = DOMAIN s.dyn /\ more[s.next] = s.dyn[s.next] + 1
      /\ \A a \in DOMAIN s.dyn : a # s.next => more[a] = s.dyn[a]
  BY <1>4
<1>7. more \in [1..3 -> Nat] \cup [1..4 -> Nat]
  <2>2. CASE s.dyn \in [1..3 -> Nat] BY <1>4, <1>5, <2>2
  <2>3. CASE s.dyn \in [1..4 -> Nat] BY <1>4, <1>5, <2>3
  <2> QED BY <2>2, <2>3, <1>1 DEF InterviewStates
<1>8. y = [s EXCEPT !.anchor = s.next, !.asked = s.asked + 1, !.open = s.asked + 1,
      !.phase = "questioning",
                    !.dyn = more]
  BY <1>1 DEF createDynamicQuestion, InterviewStates
<1> HIDE DEF more
<1>9. s.asked + 1 \in Nat /\ s.asked + 1 # 0 BY <1>2
<1>10. y \in InterviewStates
  <2>1. "questioning" \in {"not_prepared", "prepared", "questioning", "completed"} OBVIOUS
  <2> QED BY <1>1, <1>2, <1>7, <1>8, <1>9, <2>1, ZenonT(60) DEF InterviewStates
<1>11. /\ y.phase = "questioning" /\ y.open = s.asked + 1 /\ y.anchor = s.next /\ y.next = s.next
       /\ y.answers = s.answers /\ y.dyn = more /\ SameCalls(s, y)
  BY <1>1, <1>8 DEF InterviewStates, SameCalls
<1>12. y.kind = s.kind BY <1>11 DEF SameCalls
<1>13. PlaceSound(y) BY <1>2, <1>3, <1>6, <1>11, <1>12, <1>9 DEF n, PlaceSound
<1>15. ASSUME NEW a \in DOMAIN more
       PROVE  /\ more[a] <= DynamicBudget(s.kind)
              /\ a <= s.next =>
                   Cardinality(Given(s.answers, a)) + (IF s.next = a THEN 1 ELSE 0) = 1 + more[a]
              /\ a > s.next => more[a] = 0
  <2>1. /\ s.dyn[a] <= DynamicBudget(s.kind)
        /\ a <= s.next => Cardinality(Given(s.answers,
                a)) + (IF s.anchor = a THEN 1 ELSE 0) = 1 + s.dyn[a]
        /\ a > s.next => s.dyn[a] = 0
    BY <1>6 DEF BooksSound, CountSound
  <2>2. a \in Nat /\ a # 0 BY <1>3, <1>6
  <2>3. s.anchor # a BY <2>2
  <2>4. CASE a = s.next
    <3>1. ~(a > s.next) /\ a <= s.next BY <1>2, <2>4
    <3>2. Cardinality(Given(s.answers, a)) = 1 + s.dyn[a]
      <4>2. Cardinality(Given(s.answers, a)) \in Nat BY GivenFinite, <1>1 DEF InterviewStates
      <4> QED BY <2>1, <2>3, <3>1, <4>2
    <3> QED BY <1>5, <2>4, <3>1, <3>2, <1>6
  <2>5. CASE a # s.next BY <1>6, <2>5, <2>1, <2>3
  <2> QED BY <2>4, <2>5
<1>16. CountSound(y) BY <1>11, <1>12, <1>15 DEF CountSound
<1> QED BY <1>10, <1>11, <1>13, <1>16 DEF BooksSound, OrderSound

\* What is not about states.
SameBooks(s, y) ==
  /\ y.kind = s.kind /\ y.phase = s.phase /\ y.next = s.next /\ y.open = s.open
          /\ y.anchor = s.anchor
  /\ y.answers = s.answers /\ y.dyn = s.dyn /\ y.disposed = s.disposed

\* What is about calls alone leaves the questions as they are.
LEMMA BooksKept ==
  ASSUME NEW s, BooksSound(s), NEW y \in InterviewStates, SameBooks(s, y)
  PROVE  BooksSound(y)
<1> QED BY DEF BooksSound, SameBooks, PlaceSound, OrderSound, CountSound

\* The head of the queue is gone.
LEMMA HeadLeaves ==
  ASSUME NEW s, s \in InterviewStates, ChainSound(s), s.chain # <<>>, NEW c, c = s.chain[1],
         NEW y, y \in InterviewStates, y.chain = Tail(s.chain), y.deciding = s.deciding \ {c},
         \A d \in InterviewCalls : d # c => y.calls[d] = s.calls[d]
  PROVE  /\ ChainSound(y) /\ y.deciding = {} /\ Len(y.chain) = Len(s.chain) - 1
              /\ Len(s.chain) \in Nat
         /\ \A i \in 1..Len(y.chain) : y.chain[i] = s.chain[i + 1] /\ i + 1 \in 1..Len(s.chain)
<1>1. s.chain \in Seq(InterviewCalls) BY DEF InterviewStates
<1>2. /\ Len(s.chain) \in Nat /\ Len(s.chain) >= 1 /\ Len(y.chain) = Len(s.chain) - 1
      /\ \A i \in 1..Len(y.chain) : y.chain[i] = s.chain[i + 1]
  BY <1>1, HeadTailProperties, LenProperties, EmptySeq
<1>3. \A i \in 1..Len(y.chain) : i + 1 \in 1..Len(s.chain) /\ i + 1 > 1 BY <1>2
<1>7. ASSUME NEW i \in 1..Len(y.chain), NEW j \in 1..Len(y.chain),
             i < j PROVE y.chain[i] # y.chain[j]
  <2> QED BY <1>2, <1>3, <1>7 DEF ChainSound
<1>8. ASSUME NEW i \in 1..Len(y.chain) PROVE y.calls[y.chain[i]].st \in {"queued", "deciding"}
  <2> QED BY <1>2, <1>3, <1>1, ElementOfSeq DEF ChainSound
<1> QED BY <1>2, <1>3, <1>7, <1>8 DEF ChainSound

\* The call at the head leaves the lock with what the state has become.
LEMMA SerializeKeeps ==
  ASSUME NEW s, BooksSound(s), ChainSound(s), AloneSound(s), s.chain # <<>>, NEW c,
         c = s.chain[1],
         s.disposed => s.phase # "not_prepared", NEW y, y = serialize(s, c)
  PROVE  InterviewSound(y) /\ y.disposed = s.disposed
<1> DEFINE told == s.open # 0 /\ s.open # s.heard
           gone == s.calls[c].aborted
           over == [st |-> "done", said |-> FALSE, about |-> 0, aborted |-> FALSE]
           heard == IF told /\ ~gone THEN s.open ELSE s.heard
           crossed == s.crossed \/ (told /\ gone)
           states == [s.calls EXCEPT ![c] = over]
<1>1. s \in InterviewStates BY DEF BooksSound
<1>2. /\ s.chain \in Seq(InterviewCalls) /\ s.calls \in [InterviewCalls -> InterviewCallStates]
      /\ s.crossed \in BOOLEAN /\ s.heard \in Nat /\ s.open \in Nat
              /\ s.deciding \in SUBSET InterviewCalls
  BY <1>1 DEF InterviewStates
<1>3. Len(s.chain) \in Nat /\ Len(s.chain) >= 1 /\ c \in InterviewCalls
      /\ Tail(s.chain) \in Seq(InterviewCalls)
  BY <1>2, LenProperties, EmptySeq, ElementOfSeq, HeadTailProperties
<1>4. y = [s EXCEPT !.calls = states, !.chain = Tail(s.chain), !.deciding = s.deciding \ {c},
      !.heard = heard,
                    !.crossed = crossed]
  BY <1>1 DEF serialize, InterviewStates
<1>5. heard \in Nat BY <1>2
<1>6. crossed \in BOOLEAN BY <1>2
<1>8. states \in [InterviewCalls -> InterviewCallStates] /\ \A d \in InterviewCalls : d # c
      => states[d] = s.calls[d]
  BY <1>2, <1>3 DEF InterviewCallStates
<1>9. ~crossed => ~s.crossed /\ (s.open # 0 => s.open = heard) OBVIOUS
<1> HIDE DEF heard, crossed, states, over, told, gone
<1>10. s.deciding \ {c} \in SUBSET InterviewCalls BY <1>2
<1>11. y \in InterviewStates
  BY <1>1, <1>3, <1>4, <1>5, <1>6, <1>8, <1>10, ZenonT(30) DEF InterviewStates
<1>12. /\ y.calls = states /\ y.chain = Tail(s.chain) /\ y.deciding = s.deciding \ {c}
            /\ y.heard = heard
       /\ y.crossed = crossed /\ SameBooks(s, y)
  BY <1>1, <1>4 DEF InterviewStates, SameBooks
<1>13. BooksSound(y) BY <1>11, <1>12, BooksKept
<1>14. ChainSound(y) /\ y.deciding = {} /\ Len(y.chain) = Len(s.chain) - 1
  BY <1>1, <1>8, <1>11, <1>12, HeadLeaves
<1> QED BY <1>12, <1>13, <1>14, <1>3, <1>9 DEF InterviewSound, SameBooks, AloneSound, HeardSound

\* The call at the head was cancelled.
LEMMA FailsKeeps ==
  ASSUME NEW s, InterviewSound(s), s.chain # <<>>, NEW c, c = s.chain[1],
         s.calls[c].st = "queued",
         NEW y, y = fails(s, c)
  PROVE  InterviewSound(y) /\ y.disposed = s.disposed
<1> DEFINE over == [st |-> "failed", said |-> FALSE, about |-> 0, aborted |-> FALSE]
           states == [s.calls EXCEPT ![c] = over]
<1>1. s \in InterviewStates /\ BooksSound(s) /\ ChainSound(s) /\ AloneSound(s) /\ HeardSound(s)
  BY DEF InterviewSound, BooksSound
<1>2. /\ s.chain \in Seq(InterviewCalls) /\ s.calls \in [InterviewCalls -> InterviewCallStates]
      /\ s.crossed \in BOOLEAN /\ s.deciding \in SUBSET InterviewCalls
  BY <1>1 DEF InterviewStates
<1>3. Len(s.chain) \in Nat /\ Len(s.chain) >= 1 /\ c \in InterviewCalls
      /\ Tail(s.chain) \in Seq(InterviewCalls)
  BY <1>2, LenProperties, EmptySeq, ElementOfSeq, HeadTailProperties
<1>4. y = [s EXCEPT !.calls = states, !.chain = Tail(s.chain)] BY <1>1 DEF fails, InterviewStates
<1>6. states \in [InterviewCalls -> InterviewCallStates] /\ \A d \in InterviewCalls : d # c
      => states[d] = s.calls[d]
  BY <1>2, <1>3 DEF InterviewCallStates
<1> HIDE DEF states, over
<1>7. y \in InterviewStates BY <1>1, <1>3, <1>4, <1>6, ZenonT(30) DEF InterviewStates
<1>8. /\ y.calls = states /\ y.chain = Tail(s.chain) /\ y.deciding = s.deciding
           /\ y.heard = s.heard
      /\ y.crossed = s.crossed /\ SameBooks(s, y)
  BY <1>1, <1>4 DEF InterviewStates, SameBooks
<1>9. s.deciding \ {c} = s.deciding BY <1>1 DEF ChainSound
<1>10. BooksSound(y) BY <1>1, <1>7, <1>8, BooksKept
<1> QED BY <1>8, <1>10, <1>1, <1>3, <1>6, <1>7, <1>9, HeadLeaves DEF InterviewSound, SameBooks,
      AloneSound, HeardSound

\* Asking on keeps what is not about questions.
LEMMA CallsKept ==
  ASSUME NEW s, ChainSound(s), AloneSound(s), NEW y, SameCalls(s, y), y.answers = s.answers
  PROVE  ChainSound(y) /\ AloneSound(y)
BY DEF ChainSound, AloneSound, SameCalls

\* A call has the lock, up to the await of the decision.
LEMMA LockedKeeps ==
  ASSUME NEW s, InterviewSound(s), NEW c \in LockHolder(s), NEW y, y = invokeLocked(s, c)
  PROVE  InterviewSound(y) /\ y.disposed = s.disposed
<1>1. s \in InterviewStates /\ BooksSound(s) /\ ChainSound(s) /\ AloneSound(s) /\ HeardSound(s)
  BY DEF InterviewSound, BooksSound
<1>2. /\ s.chain \in Seq(InterviewCalls) /\ s.calls \in [InterviewCalls -> InterviewCallStates]
      /\ s.answers \in Seq(InterviewAnswers) /\ s.deciding \in SUBSET InterviewCalls
  BY <1>1 DEF InterviewStates
<1>3. s.chain # <<>> /\ c = s.chain[1] /\ s.calls[c].st = "queued" BY DEF LockHolder
<1>4. Len(s.chain) \in Nat /\ Len(s.chain) >= 1 /\ c \in InterviewCalls
  BY <1>2, <1>3, LenProperties, EmptySeq, ElementOfSeq
<1>5. s.disposed => s.phase # "not_prepared" BY DEF InterviewSound
<1>6. CASE s.calls[c].aborted BY <1>6, <1>3, FailsKeeps DEF invokeLocked
<1>7. ASSUME y = serialize(s, c)
      PROVE  InterviewSound(y) /\ y.disposed = s.disposed
  BY <1>1, <1>3, <1>5, <1>7, SerializeKeeps
<1>8. ASSUME s.anchor = 0, y = serialize(getNextInterviewQuestion(s), c)
      PROVE  InterviewSound(y) /\ y.disposed = s.disposed
  <2> DEFINE z == getNextInterviewQuestion(s)
  <2>1. BooksSound(z) /\ SameCalls(s, z) /\ z.answers = s.answers /\ z.phase # "not_prepared"
    BY <1>1, <1>8, NextKeeps
  <2>2. y = serialize(z, c) BY <1>8
  <2> HIDE DEF z
  <2> QED BY <2>1, <2>2, SerializeKeeps, <1>1, CallsKept, <1>3 DEF SameCalls
<1>9. CASE ~s.calls[c].aborted /\ ~getPreparedStateError(s) /\ s.phase # "completed"
           /\ s.open # 0 /\ s.calls[c].said
  <2> DEFINE z == recordInterviewAnswer(s, c)
  <2>1. /\ BooksSound(z) /\ SameCalls(s, z) /\ z.phase = s.phase /\ z.open = 0 /\ z.anchor = 0
        /\ Len(z.answers) = Len(s.answers) + 1
        /\ \A i \in 1..Len(s.answers) : z.answers[i] = s.answers[i]
        /\ z.answers[Len(z.answers)].q = s.open
                /\ z.answers[Len(z.answers)].about = s.calls[c].about
    BY <1>1, <1>4, <1>9, RecordKeeps
  <2>2. y = [z EXCEPT !.calls[c].st = "deciding", !.deciding = @ \cup {c}] BY <1>9 DEF invokeLocked
  <2> HIDE DEF z
  <2> DEFINE mine == [s.calls[c] EXCEPT !.st = "deciding"]
             states == [s.calls EXCEPT ![c] = mine]
             deciding == s.deciding \cup {c}
  <2>3. z \in InterviewStates BY <2>1 DEF BooksSound
  <2>6. mine \in InterviewCallStates /\ mine.st = "deciding" /\ mine.about = s.calls[c].about
    BY <1>2, <1>4 DEF InterviewCallStates
  <2>7. y = [z EXCEPT !.calls = states, !.deciding = deciding]
    BY <2>2, <2>3, <2>1 DEF InterviewStates, SameCalls
  <2> HIDE DEF mine
  <2>8. /\ states \in [InterviewCalls -> InterviewCallStates] /\ states[c] = mine
        /\ \A d \in InterviewCalls : d # c => states[d] = s.calls[d]
    BY <1>2, <1>4, <2>6
  <2>9. deciding \in SUBSET InterviewCalls BY <1>2, <1>4
  <2>10. s.deciding = {} BY <1>1, <1>3 DEF ChainSound
  <2>11. deciding = {c} BY <2>10
  <2> HIDE DEF states, deciding
  <2>12. y \in InterviewStates BY <2>3, <2>7, <2>8, <2>9, ZenonT(30) DEF InterviewStates
  <2>13. /\ y.calls = states /\ y.deciding = deciding /\ SameBooks(z, y) /\ y.chain = z.chain
         /\ y.heard = z.heard /\ y.crossed = z.crossed
    BY <2>3, <2>7 DEF InterviewStates, SameBooks
  <2>14. BooksSound(y) BY <2>1, <2>12, <2>13, BooksKept
  <2>15. y.chain = s.chain /\ y.heard = s.heard /\ y.crossed = s.crossed
         /\ y.disposed = s.disposed
    BY <2>1, <2>13 DEF SameCalls, SameBooks
  <2>16. \A i \in 1..Len(s.chain) : s.chain[i] \in InterviewCalls BY <1>2, ElementOfSeq
  <2>17. ChainSound(y)
    <3>2. \A d \in y.deciding : y.chain # <<>> /\ d = y.chain[1] /\ y.calls[d].st = "deciding"
      BY <1>3, <2>6, <2>8, <2>11, <2>13, <2>15
    <3> QED BY <1>1, <2>15, <3>2, <2>6, <2>8, <2>13, <2>16 DEF ChainSound
  <2>18. ASSUME ~s.crossed PROVE s.calls[c].about = s.open
    BY <1>4, <1>1, <1>3, <1>9, <2>18 DEF HeardSound
  <2>19. AloneSound(y)
    <3>2. ASSUME ~y.crossed, NEW i \in 1..Len(y.answers) PROVE y.answers[i].about = y.answers[i].q
      <4>1. y.answers = z.answers BY <2>13 DEF SameBooks
      <4>3. ~s.crossed BY <2>15, <3>2
      <4>4. CASE i \in 1..Len(s.answers) BY <1>1, <4>3, <4>4, <2>1, <4>1 DEF AloneSound
      <4>5. CASE i = Len(z.answers) BY <2>1, <4>5, <2>18, <4>1, <4>3
      <4> QED BY <4>4, <4>5, <2>1, <3>2, <4>1, <1>2, LenProperties
    <3> QED BY <3>2, <1>1, <2>15 DEF AloneSound
  <2>20. HeardSound(y)
    <3>1. \A i \in 1..Len(s.chain) : states[s.chain[i]].about = s.calls[s.chain[i]].about
      BY <2>6, <2>8, <2>16
    <3> QED BY <1>1, <2>13, <2>15, <3>1, <2>1 DEF HeardSound, SameBooks
  <2>21. y.anchor = 0 /\ y.phase = s.phase /\ Len(y.answers) > 0
    BY <1>2, LenProperties, <2>1, <2>13 DEF SameBooks
  <2> QED BY <1>5, <2>14, <2>15, <2>17, <2>19, <2>20, <2>21 DEF InterviewSound
<1>11. CASE ~s.calls[c].aborted /\ ~(~getPreparedStateError(s) /\ s.phase # "completed"
            /\ s.open # 0 /\ s.calls[c].said)
  BY <1>11, <1>7, <1>8, <1>1 DEF invokeLocked, BooksSound, PlaceSound
<1> QED BY <1>6, <1>9, <1>11

\* The decision is there.
LEMMA DecidedKeeps ==
  ASSUME NEW s, InterviewSound(s), NEW c \in s.deciding, NEW action \in Decisions(s),
         NEW y, y = invokeDecided(s, c, action)
  PROVE  InterviewSound(y) /\ y.disposed = s.disposed
<1>1. /\ s \in InterviewStates /\ BooksSound(s) /\ ChainSound(s) /\ AloneSound(s) /\ HeardSound(s)
      /\ s.anchor = 0 /\ Len(s.answers) > 0
  BY DEF InterviewSound, BooksSound
<1>2. s.answers \in Seq(InterviewAnswers) /\ s.next \in Nat
      /\ s.kind \in {"interview", "deepdive"}
  BY <1>1 DEF InterviewStates
<1>4. ASSUME NEW z, BooksSound(z), SameCalls(s, z), z.answers = s.answers,
             z.phase # "not_prepared",
             y = serialize(z, c)
      PROVE  InterviewSound(y) /\ y.disposed = s.disposed
  BY <1>1, <1>4, CallsKept, SerializeKeeps DEF SameCalls, ChainSound
<1>5. CASE action = "advance"
  <2> DEFINE z == getNextInterviewQuestion(s)
  <2>1. BooksSound(z) /\ SameCalls(s, z) /\ z.answers = s.answers /\ z.phase # "not_prepared"
    BY <1>1, NextKeeps
  <2>2. y = serialize(z, c) BY <1>5 DEF invokeDecided
  <2> HIDE DEF z
  <2> QED BY <1>4, <2>1, <2>2
<1>6. CASE action # "advance"
  <2> DEFINE z == createDynamicQuestion(s, s.next)
  <2>1. Last(s.answers).anchor = s.next /\ s.next > 0
    <3> QED BY <1>2, <1>1, AnchorsAre DEF Last, LastAnchor, BooksSound, OrderSound
  <2>2. s.dyn[s.next] < DynamicBudget(s.kind)
    <3>1. s.dyn[s.next] \in Nat /\ DynamicBudget(s.kind) \in Nat
      <4>2. s.next \in DOMAIN s.dyn BY <1>1, <1>2, <2>1, AnchorCount DEF BooksSound, PlaceSound
      <4> QED BY <1>2, <4>2, AnchorCount, <1>1 DEF InterviewStates
    <3>2. ~(s.dyn[s.next] >= DynamicBudget(s.kind))
      <4>1. CASE s.kind = "interview"
        BY <1>6, <2>1, <4>1 DEF Decisions, decideInterview, DynamicBudget
      <4>2. CASE s.kind = "deepdive"
        BY <1>6, <2>1, <4>2 DEF Decisions, decideDeepdive, DynamicBudget
      <4> QED BY <1>2, <4>1, <4>2
    <3> QED BY <3>1, <3>2
  <2>3. BooksSound(z) /\ SameCalls(s, z) /\ z.answers = s.answers /\ z.phase # "not_prepared"
    BY <1>1, <2>1, <2>2, DynamicKeeps
  <2>4. y = serialize(z, c) BY <1>6, <2>1 DEF invokeDecided
  <2> HIDE DEF z
  <2> QED BY <1>4, <2>3, <2>4
<1> QED BY <1>5, <1>6

\* A call comes.
Invoked(s, c, said) ==
  IF s.disposed THEN [s EXCEPT !.calls[c].st = "failed"]
  ELSE [s EXCEPT !.calls[c] = [st |-> "queued", said |-> said, about |-> s.heard,
    aborted |-> FALSE],
                 !.chain = Append(@, c), !.crossed = @ \/ s.chain # <<>>]

\* A call comes and waits for those before it.
LEMMA InvokedKeeps ==
  ASSUME NEW s, InterviewSound(s), NEW c \in InterviewCalls, s.calls[c].st = "none",
         s.phase # "not_prepared",
         NEW said \in BOOLEAN, NEW y, y = Invoked(s, c, said)
  PROVE  InterviewSound(y) /\ y.disposed = s.disposed
<1>1. /\ s \in InterviewStates /\ BooksSound(s) /\ ChainSound(s) /\ AloneSound(s) /\ HeardSound(s)
      /\ (s.deciding # {} => s.anchor = 0 /\ Len(s.answers) > 0)
      /\ (s.disposed => s.phase # "not_prepared")
  BY DEF InterviewSound, BooksSound
<1>2. /\ s.chain \in Seq(InterviewCalls) /\ s.calls \in [InterviewCalls -> InterviewCallStates]
      /\ s.crossed \in BOOLEAN /\ s.heard \in Nat /\ s.calls[c] \in InterviewCallStates
      /\ Len(s.chain) \in Nat /\ s.disposed \in BOOLEAN
  BY <1>1, LenProperties DEF InterviewStates
<1>3. \A i \in 1..Len(s.chain) : s.chain[i] \in InterviewCalls /\ s.chain[i] # c
  BY <1>2, ElementOfSeq, <1>1 DEF ChainSound
<1>4. \A d \in s.deciding : d # c BY <1>1 DEF ChainSound
<1>5. CASE s.disposed
  <2> DEFINE bad == [s.calls[c] EXCEPT !.st = "failed"]
             states == [s.calls EXCEPT ![c] = bad]
  <2>1. y = [s EXCEPT !.calls = states] BY <1>1, <1>5 DEF Invoked, InterviewStates
  <2>2. bad \in InterviewCallStates BY <1>2 DEF InterviewCallStates
  <2> HIDE DEF bad
  <2>3. states \in [InterviewCalls -> InterviewCallStates] /\ \A d \in InterviewCalls : d # c
        => states[d] = s.calls[d]
    BY <1>2, <2>2
  <2> HIDE DEF states
  <2>4. y \in InterviewStates BY <1>1, <2>1, <2>3, ZenonT(30) DEF InterviewStates
  <2>5. /\ y.calls = states /\ y.deciding = s.deciding /\ y.chain = s.chain /\ y.heard = s.heard
        /\ y.crossed = s.crossed /\ SameBooks(s, y)
    BY <1>1, <2>1 DEF InterviewStates, SameBooks
  <2>7. \A i \in 1..Len(s.chain) : states[s.chain[i]] = s.calls[s.chain[i]] BY <1>3, <2>3
  <2>8. \A d \in s.deciding : states[d] = s.calls[d] BY <1>1, <1>4, <2>3 DEF InterviewStates
  <2>9. ChainSound(y)
    <3>2. \A d \in y.deciding : y.chain # <<>> /\ d = y.chain[1] /\ y.calls[d].st = "deciding"
      BY <1>1, <2>5, <2>8 DEF ChainSound
    <3> QED BY <3>2, <1>1, <2>5, <2>7 DEF ChainSound
  <2> QED BY <1>1, <2>5, <2>9, <2>4, BooksKept, <2>7 DEF InterviewSound, SameBooks, AloneSound,
        HeardSound
<1>6. CASE ~s.disposed
  <2> DEFINE mine == [st |-> "queued", said |-> said, about |-> s.heard, aborted |-> FALSE]
             states == [s.calls EXCEPT ![c] = mine]
             chain == Append(s.chain, c)
             crossed == s.crossed \/ s.chain # <<>>
  <2>1. y = [s EXCEPT !.calls = states, !.chain = chain, !.crossed = crossed]
    BY <1>1, <1>6 DEF Invoked, InterviewStates
  <2>2. mine \in InterviewCallStates /\ mine.st = "queued" /\ mine.about = s.heard
    BY <1>2 DEF InterviewCallStates
  <2> HIDE DEF mine
  <2>3. /\ states \in [InterviewCalls -> InterviewCallStates] /\ \A d \in InterviewCalls : d # c
             => states[d] = s.calls[d]
        /\ states[c] = mine
    BY <1>2, <2>2
  <2>4. /\ chain \in Seq(InterviewCalls) /\ Len(chain) = Len(s.chain) + 1
             /\ chain[Len(s.chain) + 1] = c
        /\ \A i \in 1..Len(s.chain) : chain[i] = s.chain[i]
    BY <1>2, AppendProperties
  <2>5. crossed \in BOOLEAN /\ (~crossed => ~s.crossed /\ s.chain = <<>>) BY <1>2
  <2> HIDE DEF states, chain, crossed
  <2>6. y \in InterviewStates BY <1>1, <2>1, <2>3, <2>4, <2>5, ZenonT(30) DEF InterviewStates
  <2>7. /\ y.calls = states /\ y.deciding = s.deciding /\ y.chain = chain /\ y.heard = s.heard
        /\ y.crossed = crossed /\ SameBooks(s, y)
    BY <1>1, <2>1 DEF InterviewStates, SameBooks
  <2>9. \A i \in 1..Len(chain) : i \in 1..Len(s.chain) \/ i = Len(s.chain) + 1 BY <1>2, <2>4
  <2>10. \A i \in 1..Len(s.chain) : states[s.chain[i]] = s.calls[s.chain[i]] BY <1>3, <2>3
  <2>12. ChainSound(y)
    <3>1. ASSUME NEW i \in 1..Len(chain), NEW j \in 1..Len(chain), i < j PROVE chain[i] # chain[j]
      <4>1. i \in 1..Len(s.chain) BY <1>2, <2>4, <3>1
      <4>2. CASE j \in 1..Len(s.chain)
        <5>1. s.chain[i] # s.chain[j] BY <1>1, <3>1, <4>1, <4>2 DEF ChainSound
        <5> QED BY <2>4, <4>1, <4>2, <5>1
      <4>3. CASE j = Len(s.chain) + 1 BY <1>3, <2>4, <4>1, <4>3
      <4> QED BY <2>9, <4>2, <4>3
    <3>2. ASSUME NEW i \in 1..Len(chain) PROVE states[chain[i]].st \in {"queued", "deciding"}
      <4>1. CASE i \in 1..Len(s.chain) BY <1>1, <2>4, <2>10, <4>1 DEF ChainSound
      <4>2. CASE i = Len(s.chain) + 1 BY <2>2, <2>3, <2>4, <4>2
      <4> QED BY <2>9, <4>1, <4>2
    <3>3. ASSUME NEW d \in s.deciding PROVE chain # <<>> /\ d = chain[1]
                 /\ states[d].st = "deciding"
      <4>1. s.chain # <<>> /\ d = s.chain[1] /\ s.calls[d].st = "deciding" BY <1>1 DEF ChainSound
      <4>3. chain[1] = s.chain[1] BY <2>4, <1>2, <4>1, EmptySeq
      <4>4. chain # <<>> BY <1>2, <2>4
      <4> QED BY <4>1, <4>3, <4>4, <1>1, <1>4, <2>3 DEF InterviewStates
    <3> QED BY <2>7, <3>1, <3>2, <3>3 DEF ChainSound
  <2>13. ~crossed => Len(s.chain) = 0 BY <1>2, <2>5, EmptySeq
  <2>14. AloneSound(y) BY <1>1, <2>4, <2>5, <2>7, <2>13 DEF AloneSound, SameBooks
  <2>15. HeardSound(y)
    <3>1. ASSUME ~crossed, NEW i \in 1..Len(chain) PROVE states[chain[i]].about = s.heard
      BY <2>4, <2>13, <3>1, <2>2, <2>3
    <3> QED BY <1>1, <2>5, <2>7, <3>1 DEF HeardSound, SameBooks
  <2> QED BY <1>1, <2>7, <2>12, <2>14, <2>15, <2>6, BooksKept DEF InterviewSound, SameBooks
<1> QED BY <1>2, <1>5, <1>6

\* A call is cancelled.
LEMMA AbortKeeps ==
  ASSUME NEW s, InterviewSound(s), NEW c \in InterviewCalls, NEW y,
         y = [s EXCEPT !.calls[c].aborted = TRUE]
  PROVE  InterviewSound(y) /\ y.disposed = s.disposed
<1> DEFINE cut == [s.calls[c] EXCEPT !.aborted = TRUE]
           states == [s.calls EXCEPT ![c] = cut]
<1>1. /\ s \in InterviewStates /\ BooksSound(s) /\ ChainSound(s) /\ AloneSound(s) /\ HeardSound(s)
      /\ (s.deciding # {} => s.anchor = 0 /\ Len(s.answers) > 0)
      /\ (s.disposed => s.phase # "not_prepared")
  BY DEF InterviewSound, BooksSound
<1>2. /\ s.calls \in [InterviewCalls -> InterviewCallStates] /\ s.calls[c] \in InterviewCallStates
      /\ s.chain \in Seq(InterviewCalls) /\ s.deciding \in SUBSET InterviewCalls
  BY <1>1 DEF InterviewStates
<1>3. y = [s EXCEPT !.calls = states] BY <1>1 DEF InterviewStates
<1>4. cut \in InterviewCallStates /\ cut.st = s.calls[c].st /\ cut.about = s.calls[c].about
  BY <1>2 DEF InterviewCallStates
<1> HIDE DEF cut
<1>5. /\ states \in [InterviewCalls -> InterviewCallStates]
      /\ \A d \in InterviewCalls : states[d].st = s.calls[d].st
              /\ states[d].about = s.calls[d].about
  BY <1>2, <1>4
<1> HIDE DEF states
<1>6. y \in InterviewStates BY <1>1, <1>3, <1>5, ZenonT(30) DEF InterviewStates
<1>7. /\ y.calls = states /\ y.deciding = s.deciding /\ y.chain = s.chain /\ y.heard = s.heard
      /\ y.crossed = s.crossed /\ SameBooks(s, y)
  BY <1>1, <1>3 DEF InterviewStates, SameBooks
<1>8. BooksSound(y) BY <1>1, <1>6, <1>7, BooksKept
<1>9. \A i \in 1..Len(s.chain) : s.chain[i] \in InterviewCalls BY <1>2, ElementOfSeq
<1>12. HeardSound(y) BY <1>1, <1>5, <1>7, <1>9 DEF HeardSound, SameBooks
<1> QED BY <1>1, <1>7, <1>8, <1>12, <1>2, <1>5, <1>9 DEF InterviewSound, SameBooks, ChainSound,
      AloneSound

\* The plan is there, of the model or the fallback.
LEMMA PreparedKeeps ==
  ASSUME NEW s, InterviewSound(s), s.phase = "not_prepared", NEW valid \in BOOLEAN,
         NEW named \in BOOLEAN,
         NEW y, y = IF valid THEN applyInterviewPlan(s, named) ELSE ensurePreparedWithFallback(s,
           named)
  PROVE  InterviewSound(y) /\ y.disposed = s.disposed /\ ~s.disposed
<1>1. /\ s \in InterviewStates /\ BooksSound(s) /\ ChainSound(s) /\ AloneSound(s) /\ HeardSound(s)
      /\ (s.deciding # {} => s.anchor = 0 /\ Len(s.answers) > 0)
      /\ ~s.disposed
  BY DEF InterviewSound, BooksSound, InterviewStates
<1>2. ASSUME NEW plan \in {"model", "fallback"},
             y = [s EXCEPT !.phase = "prepared", !.plan = plan, !.named = named]
      PROVE  InterviewSound(y) /\ y.disposed = s.disposed
  <2>1. y \in InterviewStates
    <3>1. "prepared" \in {"not_prepared", "prepared", "questioning", "completed"}
          /\ plan \in {"none", "model", "fallback"}
      OBVIOUS
    <3> QED BY <1>1, <1>2, <3>1, ZenonT(30) DEF InterviewStates
  <2>2. /\ SameCalls(s, y) /\ y.phase = "prepared" /\ y.next = s.next /\ y.open = s.open
        /\ y.anchor = s.anchor /\ y.answers = s.answers /\ y.dyn = s.dyn
    BY <1>1, <1>2 DEF InterviewStates, SameCalls
  <2>4. OrderSound(y) BY <1>1, <2>2 DEF BooksSound, OrderSound
  <2>6. ChainSound(y) /\ AloneSound(y) BY <1>1, <2>2, CallsKept
  <2>7. HeardSound(y) BY <1>1, <2>2 DEF HeardSound, SameCalls
  <2> QED BY <1>1, <2>1, <2>2, <2>4, <2>6, <2>7 DEF InterviewSound, BooksSound, SameCalls, PlaceSound,
        CountSound
<1>3. CASE valid BY <1>1, <1>2, <1>3 DEF applyInterviewPlan
<1>4. CASE ~valid /\ s.plan = "none" BY <1>1, <1>2, <1>4 DEF ensurePreparedWithFallback
<1>5. CASE ~valid /\ s.plan # "none" BY <1>1, <1>5 DEF ensurePreparedWithFallback
<1> QED BY <1>1, <1>3, <1>4, <1>5

\* The instance is disposed.
LEMMA DisposedKeeps ==
  ASSUME NEW s, InterviewSound(s), s.phase # "not_prepared", NEW y,
         y = [s EXCEPT !.disposed = TRUE]
  PROVE  InterviewSound(y)
<1>1. s \in InterviewStates BY DEF InterviewSound, BooksSound
<1>2. y \in InterviewStates BY <1>1, ZenonT(30) DEF InterviewStates
<1>3. /\ y.kind = s.kind /\ y.phase = s.phase /\ y.next = s.next /\ y.open = s.open
           /\ y.anchor = s.anchor
      /\ y.answers = s.answers /\ y.dyn = s.dyn /\ y.chain = s.chain /\ y.deciding = s.deciding
      /\ y.calls = s.calls /\ y.heard = s.heard /\ y.crossed = s.crossed
  BY <1>1 DEF InterviewStates
<1>4. PlaceSound(y) /\ OrderSound(y) /\ CountSound(y)
  BY <1>3 DEF InterviewSound, BooksSound, PlaceSound, OrderSound, CountSound
<1> QED BY <1>2, <1>3, <1>4 DEF InterviewSound, BooksSound, ChainSound, AloneSound, HeardSound

\* Nothing has been asked.
LEMMA InterviewStarts == InterviewsInit => InterviewInv
<1> SUFFICES ASSUME InterviewsInit PROVE InterviewInv OBVIOUS
<1>1. PICK k \in InterviewKinds : iv = createInterviewState(k) BY DEF InterviewsInit
<1>2. k \in {"interview", "deepdive"} BY InterviewsAssumption
<1> DEFINE n == Len(Anchors(k))
           zero == [a \in 1..n |-> 0]
           idle == [st |-> "none", said |-> FALSE, about |-> 0, aborted |-> FALSE]
           states == [c \in InterviewCalls |-> idle]
<1>3. n \in {3, 4} /\ DynamicBudget(k) \in Nat BY <1>2, AnchorCount
<1>4. iv = [kind |-> k, phase |-> "not_prepared", plan |-> "none", named |-> FALSE, next |-> 0,
      open |-> 0,
            anchor |-> 0, asked |-> 0, answers |-> <<>>, dyn |-> zero, disposed |-> FALSE,
              chain |-> <<>>,
            deciding |-> {}, heard |-> 0, crossed |-> FALSE, calls |-> states]
  BY <1>1 DEF createInterviewState
<1>5. zero \in [1..3 -> Nat] \cup [1..4 -> Nat] /\ DOMAIN zero = 1..n
      /\ \A a \in 1..n : zero[a] = 0
  BY <1>3
<1>6. idle \in InterviewCallStates BY DEF InterviewCallStates
<1> HIDE DEF idle
<1>7. states \in [InterviewCalls -> InterviewCallStates] BY <1>6
<1> HIDE DEF states, zero
<1>8. <<>> \in Seq(InterviewAnswers) /\ <<>> \in Seq(InterviewCalls) /\ 0 \in Nat OBVIOUS
<1>9. iv \in InterviewStates BY <1>2, <1>4, <1>5, <1>7, <1>8, ZenonT(30) DEF InterviewStates
<1>10. /\ iv.kind = k /\ iv.phase = "not_prepared" /\ iv.next = 0 /\ iv.open = 0 /\ iv.anchor = 0
       /\ iv.answers = <<>> /\ iv.dyn = zero /\ iv.chain = <<>> /\ iv.deciding = {}
               /\ iv.crossed = FALSE
       /\ iv.disposed = FALSE
  BY <1>4
<1>11. Len(iv.answers) = 0 /\ Len(iv.chain) = 0 BY <1>10
<1>13. OrderSound(iv) BY <1>10, <1>11 DEF OrderSound, LastAnchor
<1>15. ChainSound(iv) /\ AloneSound(iv) /\ HeardSound(iv)
  BY <1>10, <1>11 DEF ChainSound, AloneSound, HeardSound
<1> QED BY <1>9, <1>10, <1>13, <1>15, <1>3, <1>5 DEF InterviewInv, InterviewSound, BooksSound,
      PlaceSound, CountSound, InterviewsInit

\* Every step keeps the invariant.
LEMMA InterviewStep == InterviewInv /\ [InterviewsNext]_interviewVars => InterviewInv'
<1> SUFFICES ASSUME InterviewInv, [InterviewsNext]_interviewVars PROVE InterviewInv' OBVIOUS
<1>1. /\ InterviewSound(iv) /\ reminder = [on |-> reminder.on, left |-> reminder.left,
           afterEnd |-> FALSE]
      /\ reminder.on \in BOOLEAN /\ (iv.disposed => ~reminder.on)
  BY DEF InterviewInv
<1> DEFINE on == reminder.on
           left == reminder.left
<1>13. reminder = [on |-> on, left |-> left, afterEnd |-> FALSE] /\ on = reminder.on BY <1>1
<1> HIDE DEF on, left
<1>14. ASSUME NEW o \in BOOLEAN, NEW l, reminder' = [on |-> o, left |-> l, afterEnd |-> FALSE],
              InterviewSound(iv'), iv'.disposed => ~o
       PROVE  InterviewInv'
  BY <1>14 DEF InterviewInv
<1>2. ASSUME InterviewSound(iv'), iv'.disposed = iv.disposed,
             UNCHANGED reminder PROVE InterviewInv'
  BY <1>1, <1>2 DEF InterviewInv
<1>3. ASSUME NEW k, NEW valid \in BOOLEAN, NEW named \in BOOLEAN, Prepare(k, valid, named)
      PROVE  InterviewInv'
  <2>3. reminder' = [on |-> TRUE, left |-> left, afterEnd |-> FALSE] BY <1>3, <1>13 DEF Prepare
  <2> QED BY <1>14, <2>3, <1>3, <1>1, PreparedKeeps DEF Prepare
<1>4. CASE PrepareInterview
  <2>1. PICK valid \in BOOLEAN, named \in BOOLEAN : Prepare("interview", valid, named)
    BY <1>4 DEF PrepareInterview
  <2> QED BY <1>3, <2>1
<1>5. CASE PrepareDeepdive
  <2>1. PICK valid \in BOOLEAN, named \in BOOLEAN : Prepare("deepdive", valid, named)
    BY <1>5 DEF PrepareDeepdive
  <2> QED BY <1>3, <2>1
<1>6. CASE AnswerOrAsk
  <2>1. PICK said \in BOOLEAN : InvokeTool(said) BY <1>6 DEF AnswerOrAsk
  <2>2. PICK c \in InterviewCalls :
          /\ iv.calls[c].st = "none" /\ iv.phase # "not_prepared"
          /\ iv.calls[c].st = "none" /\ iv.phase # "not_prepared"
          /\ iv' = Invoked(iv, c, said) /\ UNCHANGED reminder
    BY <2>1 DEF InvokeTool, Invoked
  <2> QED BY <1>2, <2>2, <1>1, InvokedKeeps
<1>7. ASSUME NEW k, LockedBy(k) PROVE InterviewInv'
  <2>1. PICK c \in LockHolder(iv) : iv' = invokeLocked(iv, c) /\ UNCHANGED reminder
    BY <1>7 DEF LockedBy
  <2> QED BY <1>2, <2>1, <1>1, LockedKeeps
<1>8. ASSUME NEW k, DecidedBy(k) PROVE InterviewInv'
  <2>1. PICK c \in iv.deciding, action \in Decisions(iv) : iv' = invokeDecided(iv, c, action)
        /\ UNCHANGED reminder
    BY <1>8 DEF DecidedBy
  <2> QED BY <1>2, <2>1, <1>1, DecidedKeeps
<1>9. CASE AbortCall
  <2>1. PICK c \in Range(iv.chain) : iv' = [iv EXCEPT !.calls[c].aborted = TRUE]
        /\ UNCHANGED reminder
    BY <1>9 DEF AbortCall
  <2>2. iv.chain \in Seq(InterviewCalls) BY <1>1 DEF InterviewSound, BooksSound, InterviewStates
  <2>3. c \in InterviewCalls
    <3>1. PICK i \in DOMAIN iv.chain : c = iv.chain[i] BY <2>1 DEF Range
    <3> QED BY <2>2, <3>1, ElementOfSeq
  <2> QED BY <1>2, <2>1, <1>1, <2>3, AbortKeeps
<1>10. CASE DisposeInterview BY <1>10, <1>1, DisposedKeeps, <1>13, <1>14 DEF DisposeInterview
<1>11. CASE ReminderTick
  <2> DEFINE rest == reminder.left - 1
             ends == iv.phase = "completed" \/ rest <= 0
  <2>1. /\ reminder.on /\ iv' = iv
        /\ reminder' = [reminder EXCEPT !.left = rest, !.on = ~ends,
                                        !.afterEnd = reminder.afterEnd \/ (~ends /\ iv.disposed)]
    BY <1>11 DEF ReminderTick
  <2>2. ends \in BOOLEAN OBVIOUS
  <2> HIDE DEF rest, ends
  <2> QED BY <1>14, <1>13, <2>1, <1>1
<1>12. CASE UNCHANGED interviewVars BY <1>1, <1>2, <1>12 DEF interviewVars
<1> QED BY <1>4, <1>5, <1>6, <1>7, <1>8, <1>9, <1>10, <1>11, <1>12
     DEF InterviewsNext, InterviewInvokeLocked, InterviewDecided, DeepdiveInvokeLocked,
       DeepdiveDecided

\* The inductive invariant of the interviews.  The answers go through the anchors one by
\* one up to the one reached, each anchor has as many answers as questions but the one that
\* waits, and the call that decides is the head of the queue; and while nothing crossed,
\* the one call there is knows the question that was heard, which is the one that waits.
THEOREM InterviewInductive == InterviewsSpec => []InterviewInv
<1>1. InterviewsInit => InterviewInv BY InterviewStarts
<1>2. InterviewInv /\ [InterviewsNext]_interviewVars => InterviewInv' BY InterviewStep
<1> QED BY <1>1, <1>2, PTL DEF InterviewsSpec

\* However the calls overlap, are cancelled and are answered: the anchors are asked and
\* answered in order within their budgets, the interview is completed only when each has an
\* answer, one call decides at a time, the reminder of a disposed interview is silent, and
\* unless calls crossed every answer is filed under the question the candidate had heard.
THEOREM InterviewKeepsOrder == InterviewsSpec => []InterviewIsOrderly
<1>1. InterviewInv => InterviewIsOrderly
  <2> SUFFICES ASSUME InterviewInv PROVE InterviewIsOrderly OBVIOUS
  <2>1. /\ iv \in InterviewStates /\ PlaceSound(iv) /\ OrderSound(iv) /\ CountSound(iv)
             /\ ChainSound(iv)
        /\ AloneSound(iv)
    BY DEF InterviewInv, InterviewSound, BooksSound
  <2>2. iv.answers \in Seq(InterviewAnswers) /\ iv.kind \in {"interview", "deepdive"}
        /\ iv.next \in Nat
    BY <2>1 DEF InterviewStates
  <2>3. /\ Len(iv.answers) \in Nat /\ \A i \in 1..Len(iv.answers) : iv.answers[i].anchor \in Nat
    BY <2>2, AnchorsAre
  <2>4. ASSUME NEW i \in 1..Len(iv.answers)
        PROVE  iv.answers[i].anchor - (IF i = 1 THEN 0 ELSE iv.answers[i - 1].anchor) \in {0, 1}
    <3>1. CASE i = 1 BY <2>1, <2>3, <3>1 DEF OrderSound
    <3>2. CASE i # 1
      <4>1. i - 1 \in 1..Len(iv.answers) /\ i > 1 BY <2>3, <3>2
      <4>3. iv.answers[i].anchor \in Nat /\ iv.answers[i - 1].anchor \in Nat BY <2>3, <4>1
      <4>4. CASE iv.answers[i].anchor = iv.answers[i - 1].anchor BY <4>3, <4>4, <3>2
      <4>5. CASE iv.answers[i].anchor = iv.answers[i - 1].anchor + 1 BY <4>3, <4>5, <3>2
      <4> QED BY <4>4, <4>5, <2>1, <4>1 DEF OrderSound
    <3> QED BY <3>1, <3>2
  <2>6. ASSUME NEW a \in DOMAIN iv.dyn
        PROVE  /\ iv.dyn[a] <= DynamicBudget(iv.kind)
               /\ Cardinality(Given(iv.answers, a)) <= 1 + iv.dyn[a]
               /\ a <= iv.next =>
                    Cardinality(Given(iv.answers,
                      a)) + (IF iv.anchor = a THEN 1 ELSE 0) = 1 + iv.dyn[a]
    <3>1. /\ iv.dyn[a] <= DynamicBudget(iv.kind)
          /\ a <= iv.next => Cardinality(Given(iv.answers,
                  a)) + (IF iv.anchor = a THEN 1 ELSE 0) = 1 + iv.dyn[a]
          /\ a > iv.next => iv.dyn[a] = 0
      BY <2>1 DEF CountSound
    <3>3. a \in Nat /\ iv.dyn[a] \in Nat
      <4>1. iv.dyn \in [1..3 -> Nat] \cup [1..4 -> Nat] BY <2>1 DEF InterviewStates
      <4> QED BY <4>1
    <3>4. CASE a <= iv.next BY <3>1, <3>3, <3>4, <2>2, GivenFinite
    <3>5. CASE a > iv.next BY <3>3, <3>5, GivenNone, <2>2, <3>1 DEF InterviewInv, InterviewSound
    <3> QED BY <2>2, <3>3, <3>4, <3>5
  <2>7. ASSUME iv.phase = "completed", NEW a \in DOMAIN iv.dyn
        PROVE  \E i \in 1..Len(iv.answers) : iv.answers[i].anchor = a
    <3>1. a \in Nat /\ a <= iv.next /\ a # 0 /\ iv.anchor = 0
      BY <2>1, <2>2, <2>7, AnchorCount DEF PlaceSound
    <3>2. iv.dyn[a] \in Nat BY <2>1 DEF InterviewStates
    <3>3. Cardinality(Given(iv.answers, a)) # 0 BY <2>2, GivenFinite, <2>6, <3>1, <3>2
    <3> QED BY <3>3, FS_EmptySet DEF Given
  <2>8. AnswersFollowTheAnchors BY <2>6, <2>4, <2>7 DEF AnswersFollowTheAnchors, Given
  <2>9. AnswersAreTheirs BY <2>1 DEF AloneSound, AnswersAreTheirs
  <2>10. Cardinality(iv.deciding) <= 1
    <3>1. CASE iv.deciding = {} BY <3>1, FS_EmptySet
    <3>2. CASE iv.deciding # {}
      <4>1. iv.deciding = {iv.chain[1]} BY <2>1, <3>2 DEF ChainSound
      <4>2. Cardinality(iv.deciding) = 1 BY <4>1, FS_Singleton
      <4> QED BY <4>2
    <3> QED BY <3>1, <3>2
  <2> QED BY <2>8, <2>9, <2>10 DEF InterviewIsOrderly, InterviewInv
<1> QED BY <1>1, InterviewInductive, PTL
=============================================================================
