-------------------------- MODULE UpstreamRecovery --------------------------
(***************************************************************************)
(* Who redials a lost upstream connection: SessionManager's state machine, *)
(* TransportReconnector, HostRecoveryController, the dial generations of   *)
(* the Gemini transport, and start, transfer and close of VoiceSession.    *)
(*                                                                         *)
(* Their synchronous code is written as functions from a session record to *)
(* a session record.  Where it publishes to subscribers that may call the  *)
(* session back, the rest of the code waits as a frame on `stack`: the top *)
(* frame runs, or the host calls in, before anything else happens.  Timers *)
(* and promises settle with an empty stack.                                *)
(***************************************************************************)
EXTENDS Naturals, Sequences, FiniteSets

CONSTANTS Policies,      \* values of upstreamLossPolicy: "close", "hold"
          Credentialed,  \* whether the transport has a credentialProvider
          Reentrant,     \* subscribers of the automatic reconnect call back too
          MaxAttempts,   \* MAX_RECONNECT_ATTEMPTS
          MaxRecoveries, \* bound: recoverUpstream() calls that start one
          MaxEvents      \* bound: losses, warnings, updates and host calls

ASSUME RecoveryAssumption ==
  /\ Policies \subseteq {"close", "hold"} /\ Policies # {}
  /\ Credentialed \subseteq BOOLEAN /\ Credentialed # {}
  /\ Reentrant \in BOOLEAN
  /\ MaxAttempts \in Nat /\ MaxRecoveries \in Nat /\ MaxEvents \in Nat

VARIABLES s,      \* the session: one field per field of the code, see Init
          stack,  \* synchronous code to go on with, innermost first
          events  \* bounded events so far

vars == <<s, stack, events>>

States == {"CREATED", "CONNECTING", "ACTIVE", "RECONNECTING", "TRANSFERRING",
           "UPSTREAM_LOST", "CLOSED"}

\* DialOptions of an automatic reconnect, with the handle it dials with.
Plans == [planned : BOOLEAN, spent : Nat, handle : BOOLEAN, fresh : BOOLEAN]

NoPlan == [planned |-> FALSE, spent |-> 0, handle |-> FALSE, fresh |-> FALSE]

Init ==
  /\ \E policy \in Policies, credentialed \in Credentialed :
       s = [policy |-> policy, credentialed |-> credentialed,
            \* SessionManager
            state |-> "CREATED", closing |-> FALSE, handle |-> FALSE,
            \* TransportReconnector
            attempts |-> 0, backoff |-> {}, token |-> 0, attemptInFlight |-> FALSE,
            clientBuffering |-> FALSE, disposed |-> FALSE,
            \* HostRecoveryController
            inFlight |-> 0, recoveries |-> <<>>, replacedFirstDial |-> FALSE,
            \* GeminiLiveTransport: dialGen, the installed session, calls under way
            gen |-> 0, link |-> 0, alive |-> FALSE, calls |-> {},
            \* ClientTransport and SyntheticOutputHold
            buffering |-> FALSE, dialWindow |-> FALSE,
            \* close() is done; history: attempts that losses spent
            tornDown |-> FALSE, lossSpent |-> 0]
  /\ stack = <<>>
  /\ events = 0

-----------------------------------------------------------------------------
(* Frames.                                                                 *)

Frame(kind, id, plan) == [kind |-> kind, id |-> id, plan |-> plan]

Idle == stack = <<>>

Become(x, frames) == s' = x /\ stack' = frames

\* Subscribers of an automatic reconnect's own transition and error report.
Unguarded == {"window", "planned", "report"}

HostMayCall == stack # <<>> => Reentrant \/ Head(stack).kind \notin Unguarded

-----------------------------------------------------------------------------
(* The transport.                                                          *)

\* A connect() before its setupComplete that disconnect() would retire.
PendingSetup(x) ==
  {c \in x.calls : x.credentialed /\ c.phase = "dialing" /\ c.gen = x.gen}

Detach(x) == [x EXCEPT !.link = 0, !.alive = FALSE]

AbortIncumbent(x) == [Detach(x) EXCEPT !.gen = @ + 1]

DisconnectTransport(x) == [Detach(x) EXCEPT !.gen = IF PendingSetup(x) = {} THEN @ ELSE @ + 1]

Connect(x, by, id, plan) ==
  [x EXCEPT !.gen = @ + 1,
            !.calls = @ \cup {[by |-> by, id |-> id, phase |-> "dialing",
                               gen |-> x.gen + 1, plan |-> plan]}]

\* reconnect() and transferSession(): disconnect, await its close, connect.
DisconnectThenConnect(x, by, id, plan) ==
  LET y == DisconnectTransport(x) IN
  IF x.link = 0 THEN Connect(y, by, id, plan)
  ELSE [y EXCEPT !.calls = @ \cup {[by |-> by, id |-> id, phase |-> "closing",
                                    gen |-> y.gen, plan |-> plan]}]

-----------------------------------------------------------------------------
(* TransportReconnector and SessionManager.                                *)

AbandonAttempt(x) ==
  AbortIncumbent([x EXCEPT !.token = @ + 1, !.attemptInFlight = FALSE])

DiscardClientBuffering(x) ==
  IF x.clientBuffering THEN [x EXCEPT !.clientBuffering = FALSE, !.buffering = FALSE] ELSE x

\* The dial window is engaged by the subscriber of the UPSTREAM_LOST transition.
ParkUpstreamLost(x) ==
  IF x.disposed \/ x.state \notin {"CONNECTING", "ACTIVE", "RECONNECTING"} THEN x
  ELSE LET y == [x EXCEPT !.backoff = {}]
           z == IF y.attemptInFlight THEN AbandonAttempt(y) ELSE y
       IN [DiscardClientBuffering(z) EXCEPT !.state = "UPSTREAM_LOST", !.dialWindow = TRUE]

\* The CLOSED transition follows once the finalizers have settled: FinishClose.
CloseWithReason(x) == IF x.state = "CLOSED" THEN x ELSE [x EXCEPT !.closing = TRUE]

GiveUp(x) == IF x.policy = "hold" THEN ParkUpstreamLost(x) ELSE CloseWithReason(x)

\* failAttempt ends the buffering under 'close', reports, and goes on in GiveUp.
FailAttempt(x) ==
  Become(IF x.policy = "hold" THEN x ELSE [x EXCEPT !.clientBuffering = FALSE, !.buffering = FALSE],
         <<Frame("report", 0, NoPlan)>>)

\* isHostOwningRecovery asks a hook of the host, under 'hold' only: it may say yes.
HostMayOwn(x) == x.policy = "hold"

BudgetLeft(x) == x.attempts < MaxAttempts

ScheduleBudgetedDial(x, plan) ==
  [x EXCEPT !.attempts = @ + 1,
            !.lossSpent = IF plan.planned THEN @ ELSE @ + 1,
            !.backoff = @ \cup {[plan EXCEPT !.spent = IF plan.planned THEN @ + 1 ELSE @]}]

RunReconnect(x, plan) ==
  DisconnectThenConnect([x EXCEPT !.token = @ + 1, !.attemptInFlight = TRUE],
                        "auto", x.token + 1, [plan EXCEPT !.fresh = FALSE])

EnterReconnecting(x) == [x EXCEPT !.state = "RECONNECTING"]

OpenWindow(x) == [x EXCEPT !.buffering = TRUE, !.clientBuffering = TRUE]

\* triggerReconnect.
TriggerReconnect(x, rest) ==
  \/ /\ x.disposed \/ x.state # "ACTIVE"
     /\ Become(x, rest)
  \/ /\ ~x.disposed /\ x.state = "ACTIVE" /\ HostMayOwn(x)
     /\ Become(ParkUpstreamLost(x), rest)
  \/ /\ ~x.disposed /\ x.state = "ACTIVE" /\ x.handle /\ BudgetLeft(x)
     /\ Become(EnterReconnecting(x), <<Frame("window", 0, NoPlan)>> \o rest)
  \/ /\ ~x.disposed /\ x.state = "ACTIVE" /\ ~(x.handle /\ BudgetLeft(x))
     /\ Become(GiveUp(x), rest)

\* The transport reports a close, or the response watchdog finds the model
\* silent on a connection that is still open.
ConnectionLost ==
  /\ Idle
  /\ s.link # 0 /\ s.alive
  /\ \/ TriggerReconnect([s EXCEPT !.alive = FALSE], <<>>)
     \/ s.state = "ACTIVE" /\ TriggerReconnect(s, <<>>)

WindowOpens(x) ==
  Become(ScheduleBudgetedDial(OpenWindow(x), [NoPlan EXCEPT !.handle = TRUE]), Tail(stack))

\* The timer of scheduleBudgetedDial.
BackoffFires ==
  /\ Idle
  /\ \E plan \in s.backoff :
       LET x == [s EXCEPT !.backoff = @ \ {plan}] IN
       \/ /\ s.state # "RECONNECTING"
          /\ Become(x, <<>>)
       \/ /\ s.state = "RECONNECTING" /\ HostMayOwn(s)
          /\ Become(ParkUpstreamLost(x), <<>>)
       \/ /\ s.state = "RECONNECTING" /\ plan.fresh
          /\ Become(x, <<Frame("freshDial", s.token, plan)>>)
       \/ /\ s.state = "RECONNECTING" /\ ~plan.fresh
          /\ Become(RunReconnect(x, plan), <<>>)

\* After the fresh-session boundary, whose observers may have called in.
FreshDialGoesOn(x, token, plan) ==
  \/ /\ x.disposed \/ x.state # "RECONNECTING" \/ x.token # token
     /\ Become(x, Tail(stack))
  \/ /\ ~x.disposed /\ x.state = "RECONNECTING" /\ x.token = token
     /\ \/ HostMayOwn(x) /\ Become(ParkUpstreamLost(x), Tail(stack))
        \/ Become(RunReconnect(x, plan), Tail(stack))

\* The deadline of the attempt in flight.
DeadlineOnlyAborts ==
  /\ Idle
  /\ s.attemptInFlight
  /\ Become(AbandonAttempt(s), <<>>)
DeadlineFires ==
  /\ Idle
  /\ s.attemptInFlight
  /\ FailAttempt(AbandonAttempt(s))

\* A planned reconnect gives back what its retries spent, and no more.
Refund(x, plan) ==
  IF ~plan.planned THEN x.attempts
  ELSE IF plan.spent > x.attempts THEN 0 ELSE x.attempts - plan.spent

\* transport.reconnect() resolved.
AutoResolves(x, c) ==
  IF c.id # x.token THEN x
  ELSE LET y == [x EXCEPT !.attemptInFlight = FALSE, !.clientBuffering = FALSE,
                          !.buffering = FALSE]
       IN IF x.state # "RECONNECTING" THEN y
          ELSE [y EXCEPT !.attempts = Refund(x, c.plan), !.state = "ACTIVE"]

\* What a failed reconnect() says: nothing, or a ConnectFailure that is
\* permanent, transient, or the server's refusal of the resumed session.
Failures == {"opaque", "permanent", "transient", "refused"}

\* transport.reconnect() rejected: retryFailedAttempt, else failAttempt.
AutoRejects(x, c, failure) ==
  LET y == [x EXCEPT !.attemptInFlight = FALSE]
      refused == failure = "refused" /\ c.plan.handle
      plan == IF refused THEN [c.plan EXCEPT !.handle = FALSE, !.fresh = TRUE] ELSE c.plan
  IN \/ /\ c.id # x.token
        /\ Become(x, <<>>)
     \/ /\ c.id = x.token
        /\ \/ failure \in {"opaque", "permanent"} \/ x.state # "RECONNECTING"
           \/ HostMayOwn(x) \/ ~BudgetLeft(x)
        /\ FailAttempt(y)
     \/ /\ c.id = x.token
        /\ failure \in {"transient", "refused"} /\ x.state = "RECONNECTING"
        /\ BudgetLeft(x)
        /\ Become(ScheduleBudgetedDial([y EXCEPT !.handle = @ /\ ~refused], plan), <<>>)

\* reconnectBeforeClose, called for a GoAway and for an expired credential.
ReconnectBeforeClose(x, freshWithoutHandle, rest) ==
  \/ /\ x.disposed \/ x.state # "ACTIVE" \/ ~(x.handle \/ freshWithoutHandle)
     /\ Become(x, rest)
  \/ /\ ~x.disposed /\ x.state = "ACTIVE" /\ x.handle
     /\ Become(EnterReconnecting(x),
               <<Frame("planned", 0, [NoPlan EXCEPT !.handle = TRUE])>> \o rest)
  \/ /\ ~x.disposed /\ x.state = "ACTIVE" /\ ~x.handle /\ freshWithoutHandle
     /\ Become(x, <<Frame("freshPlanned", 0, NoPlan)>> \o rest)

GoAway ==
  /\ Idle
  /\ s.link # 0 /\ s.alive
  /\ ReconnectBeforeClose(s, FALSE, <<>>)

\* expireCredential: the owner first; the frame closes what is still attached.
CredentialExpires ==
  /\ Idle
  /\ s.credentialed /\ s.link # 0 /\ s.alive /\ s.link = s.gen
  /\ ReconnectBeforeClose(s, TRUE, <<Frame("expired", s.gen, NoPlan)>>)

\* After the fresh-session boundary of a rotation without a handle.
FreshRotationGoesOn(x) ==
  IF x.disposed \/ x.state # "ACTIVE" THEN Become(x, Tail(stack))
  ELSE Become(EnterReconnecting(x), <<Frame("planned", 0, NoPlan)>> \o Tail(stack))

PlannedWindowOpens(x, plan) ==
  Become(RunReconnect(OpenWindow(x), [plan EXCEPT !.planned = TRUE]), Tail(stack))

ExpiredConnectionCloses(x, gen) ==
  IF x.gen # gen \/ x.link = 0 THEN Become(x, Tail(stack))
  ELSE TriggerReconnect(AbortIncumbent(x), Tail(stack))

\* handleResumptionUpdate, and a completed turn's resetAttempts.
ResumptionUpdate ==
  /\ Idle /\ s.link # 0 /\ s.alive
  /\ Become([s EXCEPT !.handle = ~@], <<>>)

TurnCompletes ==
  /\ Idle /\ s.link # 0 /\ s.alive /\ s.attempts > 0
  /\ Become([s EXCEPT !.attempts = 0, !.lossSpent = 0], <<>>)

-----------------------------------------------------------------------------
(* HostRecoveryController.                                                 *)

EndClientBuffering(x, r) ==
  IF x.recoveries[r].owns THEN [x EXCEPT !.recoveries[r].owns = FALSE, !.buffering = FALSE]
  ELSE x

Release(x, r) == [x EXCEPT !.inFlight = IF @ = r THEN 0 ELSE @]

RejectAttempt(x, r) ==
  EndClientBuffering([x EXCEPT !.recoveries[r].outcome = "rejected"], r)

\* stopReason: a park superseded the recovery, or the session is closing.
MustStop(x, r) == x.inFlight # r \/ x.disposed \/ x.state = "CLOSED"

\* The rest of stopIfSuperseded, once there is a reason.
Stop(x, r) ==
  LET y == Release(x, r)
      z == IF y.recoveries[r].settled \/ y.inFlight # 0 THEN y ELSE AbortIncumbent(y)
  IN RejectAttempt([z EXCEPT !.recoveries[r].settled = TRUE], r)

\* beginHostRecovery, whose second result becomes the recovery's `owns`.
BackoffForgotten(x) ==
  [x EXCEPT !.token = @ + 1, !.attemptInFlight = FALSE, !.clientBuffering = FALSE]
BeginHostRecovery(x) ==
  [x EXCEPT !.backoff = {}, !.token = @ + 1, !.attemptInFlight = FALSE,
            !.clientBuffering = FALSE]

\* abortIncumbent advances the generation once and the dial mints the next.
AttemptEpoch(x) == x.gen + 2

\* recoverUpstream up to its boundary; while one is in flight it returns that one.
RecoverUpstream ==
  /\ HostMayCall
  /\ s.policy = "hold" /\ ~s.disposed /\ s.inFlight = 0
  /\ s.state \in {"CONNECTING", "ACTIVE", "RECONNECTING", "UPSTREAM_LOST"}
  /\ Len(s.recoveries) < MaxRecoveries
  /\ LET r == Len(s.recoveries) + 1
         x == [s EXCEPT !.replacedFirstDial = @ \/ s.state = "CONNECTING",
                        !.recoveries = Append(@, [epoch |-> AttemptEpoch(s),
                                                  outcome |-> "pending", settled |-> FALSE,
                                                  owns |-> s.clientBuffering]),
                        !.inFlight = r,
                        !.dialWindow = TRUE]
     IN Become(BeginHostRecovery(x), <<Frame("boundary", r, NoPlan)>> \o stack)

\* runRecovery: the boundary has run, then the abort, then the announcement.
BoundaryCrossed(x, r) ==
  IF MustStop(x, r) THEN Become(Stop(x, r), Tail(stack))
  ELSE Become(AbortIncumbent([x EXCEPT !.recoveries[r].settled = TRUE]),
              <<Frame("aborted", r, NoPlan)>> \o Tail(stack))

IncumbentAborted(x, r) ==
  IF MustStop(x, r) THEN Become(Stop(x, r), Tail(stack))
  ELSE Become(EnterReconnecting(x), <<Frame("announced", r, NoPlan)>> \o Tail(stack))

BoundaryAnnounced(x, r) ==
  LET y == [x EXCEPT !.handle = FALSE] IN
  IF MustStop(y, r) THEN Become(Stop(y, r), Tail(stack))
  ELSE Become(Connect(y, "host", r, NoPlan), Tail(stack))

\* finishDial for a dial that failed: failAttempt, up to its error report.
FailRecovery(x, r) ==
  Become([Release(x, r) EXCEPT !.recoveries[r].outcome = "rejected"],
         <<Frame("failed", r, NoPlan)>>)

RecoveryFailed(x, r) ==
  LET y == EndClientBuffering(x, r) IN
  Become(IF y.inFlight = 0 THEN ParkUpstreamLost(y) ELSE y, Tail(stack))

LateReplacementKept(x, r, ok) ==
  IF MustStop(x, r) THEN Become(RejectAttempt(Release(x, r), r), <<>>)
  ELSE IF ok /\ x.state = "RECONNECTING"
  THEN Become([EndClientBuffering(x, r) EXCEPT !.state = "ACTIVE"],
              <<Frame("activated", r, NoPlan)>>)
  ELSE FailRecovery(x, r)

\* finishDial: a superseded recovery disconnects what it dialed and rejects.
FinishDial(x, r, ok) ==
  IF MustStop(x, r)
  THEN Become(RejectAttempt(IF ok THEN DisconnectTransport(Release(x, r)) ELSE Release(x, r), r), <<>>)
  ELSE IF ok /\ x.state = "RECONNECTING"
  THEN Become([EndClientBuffering(x, r) EXCEPT !.state = "ACTIVE"],
              <<Frame("activated", r, NoPlan)>>)
  ELSE FailRecovery(x, r)

\* Subscribers of ACTIVE have run; the drain follows, with the hold released.
Activated(x, r) ==
  IF MustStop(x, r) THEN Become(Stop(x, r), Tail(stack))
  ELSE Become([x EXCEPT !.attempts = 0, !.lossSpent = 0, !.dialWindow = FALSE],
              <<Frame("drained", r, NoPlan)>> \o Tail(stack))

Drained(x, r) ==
  Become(IF MustStop(x, r) THEN Stop(x, r)
         ELSE [Release(x, r) EXCEPT !.recoveries[r].outcome = "activated"],
         Tail(stack))

\* parkUpstream: the disconnect follows what subscribers of the park do.
ParkUpstream ==
  /\ HostMayCall
  /\ s.policy = "hold" /\ ~s.disposed
  /\ s.state \in {"ACTIVE", "RECONNECTING", "UPSTREAM_LOST"}
  /\ LET x == IF s.inFlight = 0 THEN s
              ELSE EndClientBuffering([s EXCEPT !.inFlight = 0], s.inFlight)
     IN Become(ParkUpstreamLost(x), <<Frame("parked", 0, NoPlan)>> \o stack)

-----------------------------------------------------------------------------
(* VoiceSession: start, transfer, close.                                   *)

Start ==
  /\ Idle /\ s.state = "CREATED"
  /\ Become([s EXCEPT !.state = "CONNECTING"], <<Frame("first", 0, NoPlan)>>)

\* A recovery from a subscriber of CONNECTING has replaced the first dial.
FirstDial(x) ==
  Become(IF x.replacedFirstDial THEN x ELSE Connect(x, "first", 0, NoPlan), Tail(stack))

\* close() up to the finalizers: no timer or attempt outlives it.
Close(x) ==
  LET y == [x EXCEPT !.disposed = TRUE]
      z == IF y.attemptInFlight THEN AbandonAttempt(y) ELSE y
  IN CloseWithReason([z EXCEPT !.backoff = {}])

HostCloses ==
  /\ HostMayCall
  /\ s.state # "CREATED" /\ ~s.disposed
  /\ Become(Close(s), stack)

FinishClose ==
  /\ Idle
  /\ s.closing /\ s.state # "CLOSED"
  /\ Become([s EXCEPT !.state = "CLOSED"], <<>>)

TearDown ==
  /\ Idle
  /\ s.disposed /\ s.state = "CLOSED" /\ ~s.tornDown
  /\ Become([DisconnectTransport(s) EXCEPT !.tornDown = TRUE], <<>>)

\* AgentRouter.transfer to an agent of the LLM; it throws unless ACTIVE.
Transfer ==
  /\ Idle
  /\ s.state = "ACTIVE"
  /\ Become(DisconnectThenConnect([s EXCEPT !.state = "TRANSFERRING", !.buffering = TRUE],
                                  "transfer", 0, NoPlan), <<>>)

TransferSettles(x, ok) ==
  LET y == [x EXCEPT !.buffering = FALSE] IN
  Become(IF ok /\ x.state = "TRANSFERRING" THEN [y EXCEPT !.state = "ACTIVE"]
         ELSE CloseWithReason(y), <<>>)

\* start() goes on after its dial, unless a recovery has replaced it.
FirstDialSettles(x, ok) ==
  Become(IF x.state # "CONNECTING" \/ x.replacedFirstDial THEN x
         ELSE IF ok THEN [x EXCEPT !.state = "ACTIVE"]
         ELSE IF x.policy = "hold" THEN ParkUpstreamLost(x) ELSE Close(x),
         <<>>)

-----------------------------------------------------------------------------

\* The incumbent's close is done: connect, unless the generation moved on.
CloseCompletes ==
  /\ Idle
  /\ \E c \in s.calls :
       LET x == [s EXCEPT !.calls = @ \ {c}] IN
       /\ c.phase = "closing"
       /\ Become(IF c.by = "transfer" \/ x.gen = c.gen THEN Connect(x, c.by, c.id, c.plan)
                 ELSE AutoResolves(x, c), <<>>)

\* A dial of the current generation is set up; its owner goes on at once.
DialSucceeds ==
  /\ Idle
  /\ \E c \in s.calls :
       LET x == [s EXCEPT !.calls = @ \ {c}, !.link = c.gen, !.alive = TRUE] IN
       /\ c.phase = "dialing" /\ c.gen = s.gen
       /\ \/ c.by = "first" /\ FirstDialSettles(x, TRUE)
          \/ c.by = "auto" /\ Become(AutoResolves(x, c), <<>>)
          \/ c.by = "host" /\ FinishDial(x, c.id, TRUE)
          \/ c.by = "transfer" /\ TransferSettles(x, TRUE)

\* A dial fails, times out, or finds that it was superseded.
DialFails ==
  /\ Idle
  /\ \E c \in s.calls, failure \in Failures :
       LET dropped == [s EXCEPT !.calls = @ \ {c}]
           x == IF c.gen = s.gen THEN AbortIncumbent(dropped) ELSE dropped
       IN
       /\ c.phase = "dialing"
       /\ failure # "opaque" => c.gen = s.gen /\ s.credentialed
       /\ \/ c.by = "first" /\ FirstDialSettles(x, FALSE)
          \/ c.by = "auto" /\ AutoRejects(x, c, failure)
          \/ c.by = "host" /\ FinishDial(x, c.id, FALSE)
          \/ c.by = "transfer" /\ TransferSettles(x, FALSE)

RunFrame ==
  /\ stack # <<>>
  /\ LET f == Head(stack) IN
     \/ f.kind = "first" /\ FirstDial(s)
     \/ f.kind = "window" /\ WindowOpens(s)
     \/ f.kind = "planned" /\ PlannedWindowOpens(s, f.plan)
     \/ f.kind = "freshPlanned" /\ FreshRotationGoesOn(s)
     \/ f.kind = "freshDial" /\ FreshDialGoesOn(s, f.id, f.plan)
     \/ f.kind = "expired" /\ ExpiredConnectionCloses(s, f.id)
     \/ f.kind = "report" /\ Become(GiveUp(s), Tail(stack))
     \/ f.kind = "boundary" /\ BoundaryCrossed(s, f.id)
     \/ f.kind = "aborted" /\ IncumbentAborted(s, f.id)
     \/ f.kind = "announced" /\ BoundaryAnnounced(s, f.id)
     \/ f.kind = "activated" /\ Activated(s, f.id)
     \/ f.kind = "drained" /\ Drained(s, f.id)
     \/ f.kind = "failed" /\ RecoveryFailed(s, f.id)
     \/ f.kind = "parked" /\ Become(DisconnectTransport(s), Tail(stack))

Timer == BackoffFires \/ DeadlineFires

DialSettles == DialSucceeds \/ DialFails

Internal == Start \/ RunFrame \/ Timer \/ CloseCompletes \/ DialSettles \/ FinishClose \/ TearDown

External ==
  \/ ConnectionLost \/ GoAway \/ CredentialExpires \/ ResumptionUpdate \/ TurnCompletes
  \/ RecoverUpstream \/ ParkUpstream \/ HostCloses \/ Transfer

Next ==
  \/ Internal /\ UNCHANGED events
  \/ External /\ events < MaxEvents /\ events' = events + 1

\* Synchronous code runs on, timers fire, and every dial settles by its own
\* deadline.  The close of an old socket may hang, and so may a finalizer.
Spec ==
  /\ Init
  /\ [][Next]_vars
  /\ WF_vars(RunFrame /\ UNCHANGED events)
  /\ WF_vars(BackoffFires /\ UNCHANGED events)
  /\ WF_vars(DeadlineFires /\ UNCHANGED events)
  /\ WF_vars(DialSettles /\ UNCHANGED events)

-----------------------------------------------------------------------------
(* Properties.                                                             *)

\* The fields hold what the code's fields can hold.
TypeOK ==
  /\ s.state \in States
  /\ \A f \in {"closing", "handle", "attemptInFlight", "clientBuffering", "disposed",
               "replacedFirstDial", "alive", "buffering", "dialWindow", "tornDown"} :
       s[f] \in BOOLEAN
  /\ s.attempts \in 0..MaxAttempts
  /\ s.backoff \subseteq Plans
  /\ s.link \in 0..s.gen
  /\ s.inFlight \in 0..Len(s.recoveries)
  /\ \A c \in s.calls : c.gen <= s.gen /\ c.phase \in {"closing", "dialing"}

\* Who is about to redial, or is doing it.
Drivers ==
  {<<"backoff", plan>> : plan \in s.backoff}
    \cup {<<"auto", c.id>> : c \in {c \in s.calls : c.by = "auto" /\ c.id = s.token
                                                      /\ s.attemptInFlight}}
    \cup {<<"host", c.id>> : c \in {c \in s.calls : c.by = "host" /\ c.id = s.inFlight}}

\* A session waits for a redial exactly while one driver works on it: no hand-over
\* between the automatic reconnect and the host leaves two dials or none.
OneDriver ==
  Idle /\ ~s.closing =>
    Cardinality(Drivers) = IF s.state = "RECONNECTING" THEN 1 ELSE 0

\* The client's audio is never left buffering: whoever opened the reconnect
\* window, a session that is ACTIVE again or parked has left it.
BufferingEnds == Idle /\ s.state \in {"ACTIVE", "UPSTREAM_LOST"} => ~s.buffering

\* Notifications are held exactly while the session is parked or a host recovery
\* runs, through parks and recoveries that interrupt each other.
DialWindowExact ==
  Idle /\ ~s.closing => (s.dialWindow <=> s.state = "UPSTREAM_LOST" \/ s.inFlight # 0)

\* The retries of a planned reconnect are all given back: an ACTIVE session has
\* spent what losses spent since the last completed turn, and nothing else.
BudgetCountsLosses ==
  Idle /\ ~s.closing /\ s.state = "ACTIVE" => s.attempts = s.lossSpent

\* A recovery that activates is the one whose connection is installed, under the
\* generation it promised when it began.
ActivatesItsOwnDial ==
  [][\A r \in 1..Len(s.recoveries) :
       s'.recoveries[r].outcome = "activated" /\ s.recoveries[r].outcome = "pending"
         => s.state = "ACTIVE" /\ s.link = s.recoveries[r].epoch]_vars

\* No dial, however late, lands on a parked session.
ParkedStaysDown ==
  [][s.state = "UPSTREAM_LOST" /\ s'.state = "UPSTREAM_LOST" => s'.link \in {0, s.link}]_vars

ValidTransitions ==
  [CREATED |-> {"CONNECTING", "CLOSED"},
   CONNECTING |-> {"ACTIVE", "RECONNECTING", "UPSTREAM_LOST", "CLOSED"},
   ACTIVE |-> {"RECONNECTING", "TRANSFERRING", "UPSTREAM_LOST", "CLOSED"},
   RECONNECTING |-> {"ACTIVE", "UPSTREAM_LOST", "CLOSED"},
   TRANSFERRING |-> {"ACTIVE", "CLOSED"},
   UPSTREAM_LOST |-> {"RECONNECTING", "CLOSED"},
   CLOSED |-> {}]

\* No interleaving makes transitionTo throw out of a timer or a callback.
TransitionsAreLegal ==
  [][s'.state # s.state => s'.state \in ValidTransitions[s.state]]_vars

\* A reconnect never hangs: it ends although the old socket's close may never
\* complete and every dial may fail.
ReconnectingEnds == s.state = "RECONNECTING" ~> s.state # "RECONNECTING" \/ s.closing

\* The promise `activated` of every recovery settles, however it ends.
RecoveriesSettle ==
  \A r \in 1..MaxRecoveries :
    r \in 1..Len(s.recoveries)
      ~> (r \in 1..Len(s.recoveries) /\ s.recoveries[r].outcome # "pending")

\* The books of the reconnects between any two steps: one driver, no buffering and
\* no hold left behind, and a budget that only losses spend.
RecoveryBooksAreKept == OneDriver /\ BufferingEnds /\ DialWindowExact /\ BudgetCountsLosses

\* No connection is put to use but by the dial that was begun for it.
DialsLandWhereTheyBegan == ActivatesItsOwnDial /\ ParkedStaysDown

\* Whatever hangs or fails, a reconnect and every recovery come to an end.
RecoveryEnds == ReconnectingEnds /\ RecoveriesSettle

\* voice-session.ts: close() shuts down gracefully and disconnects the provider,
\* so a session that is closed and torn down holds no connection.
ClosedIsDisconnected == s.tornDown /\ s.calls = {} => s.link = 0
=============================================================================
