----------------------- MODULE UpstreamRecoveryPolicy -----------------------
(***************************************************************************)
(* When a lost upstream is redialed: UpstreamRecoveryPolicy (ladder, fatal *)
(* backoff, health tick, idle park, attach gate) and the active-silence    *)
(* recovery it owns, in front of the session's recovery under              *)
(* upstreamLossPolicy 'hold', which UpstreamRecovery models in detail.     *)
(*                                                                         *)
(* Time is counted in health-tick periods.  A deadline is the number of    *)
(* periods left, a timestamp its age, both Off when the code's field is    *)
(* null or 0; what happens within a period is simultaneous.  Elapse waits  *)
(* for every timer that is due.                                            *)
(*                                                                         *)
(* The code calls itself synchronously across these parts, so a handler is *)
(* a function from the record s to the record after it.                    *)
(***************************************************************************)
EXTENDS Integers, FiniteSets

CONSTANTS Requests,       \* ids of the client's voice.retryUpstream commands
          RequiredTicks,  \* activeSilence.requiredTicks
          Limit,          \* EPISODE_ATTEMPT_LIMIT
          Cooldown,       \* ATTEMPT_COOLDOWN_MS, in periods, like the next ones
          Backstop,       \* BACKSTOP_MIN_INTERVAL_MS
          FatalBackoff,   \* fatalBackoffMs
          Stable,         \* redialStableMs
          BaseDelay,      \* redialBaseMs
          CapDelay,       \* redialCapMs
          ParkDelay,      \* parkRedialDelayMs
          StuckConnecting,\* stuckConnectingMs
          IdlePark,       \* idleParkMs
          MaxPolicyEvents       \* bound: what the provider, the user and the host do

ASSUME PolicyAssumption ==
  /\ IsFiniteSet(Requests)
  /\ {RequiredTicks, Limit, Cooldown, Backstop, FatalBackoff, Stable, BaseDelay,
      StuckConnecting, IdlePark} \subseteq Nat \ {0}
  /\ CapDelay \in Nat /\ CapDelay >= BaseDelay
  /\ ParkDelay \in Nat /\ MaxPolicyEvents \in Nat

Off == -1
NoRequest == "none"

VARIABLES pol,      \* the policy, the active-silence state and the session
          policyEvents  \* bounded events so far

policyVars == <<pol, policyEvents>>

PolicyStates == {"CONNECTING", "ACTIVE", "RECONNECTING", "UPSTREAM_LOST"}

\* start() has begun the first dial; a client may have attached before it.
PolicyInit ==
  /\ \E client \in BOOLEAN :
       pol = [\* the session: its state, its socket, the dial under way, a dial that
            \* a park superseded and that has not settled, an unfinished turn
            state |-> "CONNECTING", link |-> FALSE, dial |-> "first",
            orphan |-> "none", turn |-> FALSE, client |-> client,
            \* UpstreamRecoveryPolicy
            failures |-> 0, nextDial |-> Off, dialTimer |-> Off, setupOk |-> Off,
            sinceDial |-> Backstop + 1, connecting |-> 0, hostParked |-> FALSE,
            idleTimer |-> IF client THEN Off ELSE IdlePark, tickDue |-> FALSE,
            \* fatalUntil, and the reducer's copy of it, backoffUntil
            backoff |-> 0,
            \* RecoveryState; the host dial under way is its attempt (dialByReducerEpoch)
            phase |-> "idle", owned |-> FALSE, mine |-> FALSE, seen |-> "none",
            streak |-> 0, latched |-> FALSE, spoke |-> Off, anchor |-> Off,
            meeting |-> FALSE, attempts |-> 0, sinceAttempt |-> Cooldown + 1,
            retryIn |-> Off,
            \* ActiveSilenceRecovery
            retryTimer |-> Off, modelAge |-> Off, mic |-> FALSE, tool |-> FALSE,
            parked |-> NoRequest,
            \* what was sent to the client, what the client sent
            told |-> FALSE, sent |-> [r \in Requests |-> "unsent"],
            ack |-> [r \in Requests |-> NoRequest],
            \* history: redials of active silence since the model last said something
            \* or the user last retried
            unanswered |-> 0]
  /\ policyEvents = 0

Later(a, b) == IF a >= b THEN a ELSE b
Sooner(a, b) == IF a <= b THEN a ELSE b

\* While true, active silence owns the session's redials.
OwnsRecovery(x) == x.phase # "idle" \/ x.owned

InFatalBackoff(x) == x.backoff > 0

SuppressAttachRedial(x) ==
  OwnsRecovery(x) \/ (x.state = "RECONNECTING" /\ InFatalBackoff(x))

-----------------------------------------------------------------------------
(* Active silence: what does not redial.                                   *)

FullReset(x) ==
  [x EXCEPT !.phase = "idle", !.owned = FALSE, !.streak = 0, !.latched = FALSE,
            !.spoke = Off, !.anchor = Off, !.attempts = 0, !.retryIn = Off]

\* turn.end: the reducer compares its own connection and client with themselves.
NoteResponse(x) ==
  LET y == [x EXCEPT !.modelAge = 0] IN
  IF x.seen = "none" \/ ~x.client THEN y ELSE FullReset(y)

ArmRetryTimer(x) == [x EXCEPT !.retryTimer = Later(0, x.retryIn)]

ToWaitingRetry(x) ==
  ArmRetryTimer([x EXCEPT !.phase = "waiting-retry",
                          !.retryIn = Later(Cooldown - x.sinceAttempt, x.backoff)])

\* Entering terminal tells an attached client and drops a parked retry.
Stall(x) == [x EXCEPT !.phase = "terminal", !.parked = NoRequest, !.told = x.client]

StallOrWait(x) == IF x.attempts >= Limit THEN Stall(x) ELSE ToWaitingRetry(x)

ClosedObserved(x) ==
  IF x.seen = "this" /\ x.phase = "idle" /\ x.owned THEN StallOrWait(x) ELSE x

DialFailed(x) == IF x.phase = "restarting" THEN StallOrWait(x) ELSE x

\* A successor connection strands its predecessor's tools.
Adopt(x) == [x EXCEPT !.seen = "this", !.anchor = 0, !.tool = FALSE]

Ignore(x) == [x EXCEPT !.seen = IF @ = "this" THEN "older" ELSE @]

\* setup-ok of a dial that is this recovery's attempt, or is not.
TransportActive(x, attempt) ==
  LET y == [x EXCEPT !.modelAge = 0] IN
  IF attempt # (x.phase = "restarting") THEN Ignore(y)
  ELSE IF x.phase = "terminal" THEN Adopt(y)
  ELSE [Adopt(y) EXCEPT !.phase = "idle", !.streak = 0, !.retryIn = Off]

NoteFatalBackoff(x) ==
  LET y == [x EXCEPT !.backoff = FatalBackoff] IN
  IF x.phase # "waiting-retry" THEN y
  ELSE ArmRetryTimer([y EXCEPT !.retryIn = Later(@, FatalBackoff)])

FatalBackoffCleared(x) ==
  LET y == [x EXCEPT !.backoff = 0] IN
  IF x.phase # "waiting-retry" THEN y
  ELSE ArmRetryTimer([y EXCEPT !.retryIn = Later(0, Cooldown - x.sinceAttempt)])

-----------------------------------------------------------------------------
(* UpstreamRecoveryPolicy: what does not redial.                           *)

\* onStateChange
Enter(x, state) ==
  LET y == [x EXCEPT !.state = state, !.connecting = Off] IN
  IF state # "ACTIVE" THEN y
  ELSE LET z == [y EXCEPT !.hostParked = FALSE] IN
       IF InFatalBackoff(z) THEN FatalBackoffCleared(z) ELSE z

\* The lifecycle event 'attempt', and what dial() does first.
ClearDial(x) == [x EXCEPT !.nextDial = Off, !.dialTimer = Off]

Attempt(x) == [ClearDial(x) EXCEPT !.setupOk = Off]

\* A fatal backoff that starts later does not move a dial already scheduled.
ScheduleDial(x, delay) ==
  LET at == Later(delay, x.backoff) IN [x EXCEPT !.nextDial = at, !.dialTimer = at]

BackoffDelay(failures) == Sooner(CapDelay, BaseDelay * 2 ^ (failures - 1))

\* Failures beyond the first that reaches the cap make no difference.
LadderTop == CHOOSE n \in 1 .. CapDelay + 1 :
               /\ BackoffDelay(n) = CapDelay
               /\ \A m \in 1 .. CapDelay + 1 : BackoffDelay(m) = CapDelay => n <= m

PriorFailures(x) == IF x.setupOk >= Stable THEN 0 ELSE x.failures

\* A remote generation-close or a setup-failed; a fatal one starts the backoff.
NoteLoss(x, fatal) ==
  LET failures == Sooner(LadderTop, PriorFailures(x) + 1)
      y == IF fatal THEN NoteFatalBackoff(x) ELSE x
  IN ScheduleDial([y EXCEPT !.setupOk = Off, !.failures = failures], BackoffDelay(failures))

GenerationClose(x, fatal) == NoteLoss(ClosedObserved([x EXCEPT !.link = FALSE]), fatal)

\* disconnect() of an open connection: a close too, but not a loss.
LocalDisconnect(x) ==
  IF ~x.link THEN x
  ELSE LET y == ClosedObserved([x EXCEPT !.link = FALSE])
       IN [y EXCEPT !.failures = PriorFailures(x), !.setupOk = Off]

SetupOk(x, attempt) ==
  [ClearDial(TransportActive([x EXCEPT !.link = TRUE], attempt)) EXCEPT !.setupOk = 0]

OnUpstreamLost(x, host) ==
  IF host THEN [ClearDial(x) EXCEPT !.hostParked = TRUE]
  ELSE ScheduleDial([x EXCEPT !.hostParked = FALSE], Later(x.nextDial, ParkDelay))

ArmIdlePark(x) == [x EXCEPT !.idleTimer = IdlePark]

-----------------------------------------------------------------------------
(* The session.                                                            *)

\* parkUpstreamLost: nothing is published for a session already parked.
Park(x, host) ==
  IF x.state = "UPSTREAM_LOST" THEN x
  ELSE OnUpstreamLost(Enter([x EXCEPT !.dial = IF @ = "host" THEN @ ELSE "none"],
                            "UPSTREAM_LOST"), host)

\* The boundary finalizes an unfinished turn as interrupted, with its turn.end.
PolicyBoundary(x) == IF x.turn THEN NoteResponse([x EXCEPT !.turn = FALSE]) ELSE x

\* recoverUpstream(): single-flight; it aborts the incumbent without a close event.
PolicyRecovers(x, attempt) ==
  IF x.dial = "host" THEN [x EXCEPT !.mine = @ \/ attempt]
  ELSE LET y == [PolicyBoundary(x) EXCEPT !.link = FALSE, !.dial = "host", !.mine = attempt,
                                         !.orphan = IF @ = "mine" THEN "fenced" ELSE
                                                    IF @ = "other" THEN "none" ELSE @]
       IN Attempt(Enter(y, "RECONNECTING"))

\* triggerReconnect, from ACTIVE: the host, here active silence, owns recovery, or
\* a dial with the resumption handle follows its backoff, or nothing is left.
PolicyReconnects(x) ==
  IF SuppressAttachRedial(x) THEN {Park(x, FALSE)}
  ELSE {[Enter(x, "RECONNECTING") EXCEPT !.dial = "backoff"], Park(x, FALSE)}

\* parkUpstream(): a host recovery in flight is superseded, and settles later.  Of
\* two superseded ones, the one an attempt waits for is kept.
PolicyParks(x) ==
  LET y == IF x.dial # "host" THEN x
           ELSE [x EXCEPT !.dial = "none", !.mine = FALSE,
                          !.orphan = IF x.mine THEN "mine" ELSE
                                     IF @ = "fenced" THEN @ ELSE "other"]
  IN LocalDisconnect(Park(y, TRUE))

-----------------------------------------------------------------------------
(* Active silence: redials.                                                *)

Accept(x, r) == [x EXCEPT !.ack[r] = "accepted"]

\* A retry parked by a fatal backoff is acknowledged by the attempt it started.
ExecuteRestart(x) ==
  LET y == IF x.parked = NoRequest THEN x
           ELSE [Accept(x, x.parked) EXCEPT !.parked = NoRequest]
      z == [y EXCEPT !.unanswered = Sooner(Limit + 1, @ + 1)]
  IN [PolicyRecovers(z, TRUE) EXCEPT !.tool = FALSE]

\* A new attempt: a timer, a dial or a command of the one before is stale.
Authorize(x) ==
  ExecuteRestart(
    [x EXCEPT !.phase = "restarting", !.owned = TRUE, !.attempts = @ + 1,
              !.sinceAttempt = 0, !.retryIn = Off, !.retryTimer = Off,
              !.orphan = IF @ = "mine" THEN "other" ELSE IF @ = "fenced" THEN "none" ELSE @,
              !.sent = [r \in Requests |-> IF @[r] = "fresh" THEN "old" ELSE @[r]]])

RetryDue(x) ==
  IF x.phase # "waiting-retry" \/ ~x.client \/ x.retryIn > 0 \/ InFatalBackoff(x) THEN x
  ELSE IF x.attempts >= Limit THEN Stall(x)
  ELSE Authorize(x)

Qualifies(x, state) ==
  /\ state = "ACTIVE" /\ x.client /\ ~x.meeting /\ x.latched
  /\ x.mic /\ x.modelAge > 0 /\ x.anchor > 0 /\ ~x.tool

\* The tick consumes the count of microphone frames.
SilenceTick(x, state) ==
  LET y == [x EXCEPT !.mic = FALSE]
      streak == Sooner(x.streak + 1, RequiredTicks)
      quiescent == x.spoke > 0
      vetoed == ~quiescent \/ x.sinceAttempt <= Cooldown \/ InFatalBackoff(x)
  IN IF x.phase # "idle" THEN y
     ELSE IF ~Qualifies(x, state) THEN [y EXCEPT !.streak = 0]
     ELSE LET z == [y EXCEPT !.streak = streak] IN
          IF streak < RequiredTicks \/ vetoed THEN z
          ELSE IF x.attempts >= Limit THEN Stall(z)
          ELSE Authorize(z)

StaleRequest(x, r) == x.sent[r] # "fresh"

\* A duplicate gets the first answer again, or waits with it.
Duplicate(x, r) == x.ack[r] # NoRequest \/ x.parked = r

Fresh(x) == [x EXCEPT !.attempts = 0, !.owned = TRUE, !.unanswered = 0]

Retry(x, r) ==
  IF InFatalBackoff(x)
  THEN ArmRetryTimer([Fresh(x) EXCEPT !.phase = "waiting-retry", !.parked = r,
                                      !.retryIn = x.backoff])
  ELSE Accept(Authorize(Fresh(x)), r)

\* handleClientCommand
RetryCommand(x, r) ==
  IF Duplicate(x, r) THEN x
  ELSE IF x.phase # "terminal" THEN [x EXCEPT !.ack[r] = "not-terminal"]
  ELSE IF StaleRequest(x, r) THEN [x EXCEPT !.ack[r] = "stale"]
  ELSE Retry(x, r)

-----------------------------------------------------------------------------
(* Steps of the session.                                                   *)

Happens == policyEvents < MaxPolicyEvents /\ policyEvents' = policyEvents + 1

Same == UNCHANGED policyEvents

Connected(x, attempt) ==
  Enter(SetupOk([x EXCEPT !.dial = "none", !.mine = FALSE], attempt), "ACTIVE")

\* A failed dial: its events, then the park, then the rejection of `activated`.
Failed(x, fatal, attempt) ==
  LET y == Park([NoteLoss(x, fatal) EXCEPT !.dial = "none", !.mine = FALSE], FALSE)
  IN IF attempt THEN DialFailed(y) ELSE y

DialSetsUp ==
  /\ pol.dial \in {"first", "auto", "host"}
  /\ pol' = Connected(pol, pol.mine)
  /\ Same

\* A failed automatic dial is followed by another one, after its backoff, while the
\* budget and the owner of the recovery allow it.
DialsAgain(x, fatal) ==
  {y \in {[NoteLoss(x, fatal) EXCEPT !.dial = "backoff"]} :
     x.dial = "auto" /\ ~SuppressAttachRedial(y)}

PolicyDialFails(fatal) ==
  /\ pol.dial \in {"first", "auto", "host"}
  /\ pol' \in {Failed(pol, fatal, pol.mine)} \cup DialsAgain(pol, fatal)
  /\ IF fatal THEN Happens ELSE Same

\* The backoff of an automatic reconnect ends; reconnect() disconnects first.
BackoffEnds ==
  /\ pol.dial = "backoff"
  /\ pol' = IF SuppressAttachRedial(pol) THEN Park(pol, FALSE)
          ELSE Attempt(LocalDisconnect([pol EXCEPT !.dial = "auto"]))
  /\ Same

\* A superseded dial sets up, and is disconnected, or fails; one that a newer dial
\* fenced off reports nothing.  Either way its `activated` rejects.
OrphanSettles ==
  /\ pol.orphan # "none"
  /\ \E setup \in BOOLEAN :
       LET x == [pol EXCEPT !.orphan = "none"]
           y == IF pol.orphan = "fenced" THEN x
                ELSE IF setup THEN LocalDisconnect(SetupOk(x, pol.orphan = "mine"))
                ELSE NoteLoss(x, FALSE)
       IN pol' = IF pol.orphan = "other" THEN y ELSE DialFailed(y)
  /\ Same

\* The server closes the connection; an active session reacts.
RemoteClose(fatal) ==
  /\ pol.link
  /\ LET x == GenerationClose(pol, fatal) IN
     IF x.state = "ACTIVE" THEN pol' \in PolicyReconnects(x) ELSE pol' = x
  /\ Happens

\* The response watchdog: the model is silent on a connection that is up.
WatchdogFires ==
  /\ pol.state = "ACTIVE" /\ pol.link
  /\ pol' \in PolicyReconnects(pol)
  /\ Happens

PolicyGoAway ==
  /\ pol.state = "ACTIVE" /\ pol.link
  /\ pol' = Attempt(LocalDisconnect([Enter(pol, "RECONNECTING") EXCEPT !.dial = "auto"]))
  /\ Happens

\* The host's own calls of recoverUpstream() and parkUpstream().
HostRecovers ==
  /\ pol' = PolicyRecovers(pol, FALSE)
  /\ Happens

HostParks ==
  /\ pol.state # "CONNECTING"
  /\ pol' = PolicyParks(pol)
  /\ Happens

-----------------------------------------------------------------------------
(* The client, the user and the model.                                     *)

NewClient(x) ==
  [x EXCEPT !.client = TRUE, !.idleTimer = Off, !.told = x.phase = "terminal",
            !.sent = [r \in Requests |-> IF @[r] = "fresh" THEN "old" ELSE @[r]]]

\* Mutant: a retry that came due with nobody there stays due.
ClientAttachedUnarmed(x) == NewClient(x)

ClientAttached(x) ==
  IF x.phase = "waiting-retry" /\ x.retryIn = 0 /\ ~InFatalBackoff(x)
  THEN ArmRetryTimer(NewClient(x)) ELSE NewClient(x)

\* The policy's handler, then the session's, which redials a parked session.
ClientConnects ==
  /\ ~pol.client
  /\ LET x == ClientAttached(pol) IN
     pol' = IF x.state = "UPSTREAM_LOST" /\ ~SuppressAttachRedial(x)
          THEN PolicyRecovers(x, FALSE) ELSE x
  /\ Happens

ClientDisconnects ==
  /\ pol.client
  /\ LET x == ArmIdlePark([pol EXCEPT !.client = FALSE, !.told = FALSE]) IN
     pol' = IF x.phase = "terminal" THEN x
          ELSE [x EXCEPT !.latched = FALSE, !.spoke = Off, !.streak = 0]
  /\ Same

\* The client answers voice-stalled; the command may come late, and twice.
SendRetry(r) ==
  /\ pol.told /\ pol.phase = "terminal" /\ pol.sent[r] = "unsent"
  /\ pol' = [pol EXCEPT !.sent[r] = "fresh"]
  /\ Same

ReceiveRetry(r) ==
  /\ pol.client /\ pol.sent[r] # "unsent"
  /\ pol' = RetryCommand(pol, r)
  /\ Same

MicFrame ==
  /\ pol.client /\ ~pol.mic
  /\ pol' = [pol EXCEPT !.mic = TRUE]
  /\ Same

UserSpeaks ==
  /\ pol.state = "ACTIVE" /\ ~pol.meeting
  /\ pol' = [pol EXCEPT !.latched = TRUE, !.spoke = 0, !.anchor = IF pol.latched THEN @ ELSE 0]
  /\ Same

\* turn.start, once per turn.
ModelStarts ==
  /\ pol.link /\ ~pol.turn
  /\ LET x == [pol EXCEPT !.turn = TRUE, !.modelAge = 0, !.unanswered = 0] IN
     pol' = IF pol.seen = "this" THEN [x EXCEPT !.anchor = 0, !.streak = 0] ELSE x
  /\ Happens

ModelFinishes ==
  /\ pol.link /\ pol.turn
  /\ pol' = [NoteResponse(pol) EXCEPT !.turn = FALSE, !.unanswered = 0]
  /\ Same

ToolStarts ==
  /\ pol.link /\ ~pol.tool
  /\ pol' = [pol EXCEPT !.tool = TRUE]
  /\ Happens

ToolSettles ==
  /\ pol.tool
  /\ LET x == [pol EXCEPT !.tool = FALSE] IN
     pol' = IF pol.seen = "none" THEN x ELSE [x EXCEPT !.anchor = 0, !.streak = 0]
  /\ Same

Dictates ==
  /\ pol' = IF pol.meeting THEN [pol EXCEPT !.meeting = FALSE]
          ELSE [pol EXCEPT !.meeting = TRUE, !.latched = FALSE, !.spoke = Off, !.streak = 0]
  /\ IF pol.meeting THEN Same ELSE Happens

-----------------------------------------------------------------------------
(* Timers.                                                                 *)

PolicyDials(x) == PolicyRecovers([ClearDial(x) EXCEPT !.sinceDial = 0], FALSE)

\* Mutant: the ladder does not ask active silence.
MayLadderDialUnasked(x) == x.state = "UPSTREAM_LOST" /\ x.client /\ ~x.hostParked

MayLadderDial(x) == x.state = "UPSTREAM_LOST" /\ x.client /\ ~x.hostParked /\ ~OwnsRecovery(x)

FireLadderDial ==
  /\ pol.dialTimer = 0
  /\ LET x == [pol EXCEPT !.dialTimer = Off] IN
     pol' = IF x.nextDial > 0 THEN [x EXCEPT !.dialTimer = x.nextDial]
          ELSE IF x.nextDial = Off \/ ~MayLadderDial(x) THEN x
          ELSE IF InFatalBackoff(x) THEN [x EXCEPT !.dialTimer = x.backoff]
          ELSE PolicyDials(x)
  /\ Same

FireRetryTimer ==
  /\ pol.retryTimer = 0
  /\ LET x == [pol EXCEPT !.retryTimer = Off] IN
     pol' = RetryDue(x)
  /\ Same

\* parkIdle; a session still dialing is looked at again.
FireIdleTimer ==
  /\ pol.idleTimer = 0
  /\ LET x == [pol EXCEPT !.idleTimer = Off] IN
     pol' = IF x.client THEN x
          ELSE IF x.state \in {"ACTIVE", "RECONNECTING"} THEN PolicyParks(x)
          ELSE IF x.state = "CONNECTING" THEN ArmIdlePark(x) ELSE x
  /\ Same

IsStuck(x) == x.state = "CONNECTING" /\ x.connecting > StuckConnecting

IsMissed(x) == x.state = "UPSTREAM_LOST" /\ ~x.hostParked /\ x.nextDial <= 0

BackstopDials(x) ==
  /\ ~OwnsRecovery(x) /\ (IsStuck(x) \/ IsMissed(x))
  /\ x.client /\ x.sinceDial > Backstop /\ ~InFatalBackoff(x)

\* The active-silence tick is given the state from before the backstop dial.
HealthTick ==
  /\ pol.tickDue
  /\ LET x == [pol EXCEPT !.tickDue = FALSE] IN
     pol' = SilenceTick(IF BackstopDials(x) THEN PolicyDials(x) ELSE x, pol.state)
  /\ Same

Left(n) == IF n > 0 THEN n - 1 ELSE n

Aged(n, cap) == IF n = Off THEN Off ELSE Sooner(n + 1, cap)

\* A period passes once everything due has run.
Elapse ==
  /\ ~pol.tickDue /\ 0 \notin {pol.dialTimer, pol.retryTimer, pol.idleTimer} /\ pol.dial # "backoff"
  /\ pol' = [pol EXCEPT !.tickDue = TRUE, !.nextDial = Left(@), !.dialTimer = Left(@),
                    !.retryIn = Left(@), !.retryTimer = Left(@), !.idleTimer = Left(@),
                    !.backoff = Left(@), !.setupOk = Aged(@, Stable),
                    !.sinceDial = Aged(@, Backstop + 1),
                    !.connecting = Aged(@, StuckConnecting + 1),
                    !.sinceAttempt = Aged(@, Cooldown + 1),
                    !.spoke = Aged(@, 1), !.anchor = Aged(@, 1), !.modelAge = Aged(@, 1)]
  /\ Same

SessionStep ==
  \/ DialSetsUp \/ BackoffEnds \/ OrphanSettles \/ \E fatal \in BOOLEAN : PolicyDialFails(fatal)

Outside ==
  \/ \E fatal \in BOOLEAN : RemoteClose(fatal)
  \/ WatchdogFires \/ PolicyGoAway \/ HostRecovers \/ HostParks
  \/ ClientConnects \/ ClientDisconnects
  \/ \E r \in Requests : SendRetry(r) \/ ReceiveRetry(r)
  \/ MicFrame \/ UserSpeaks \/ ModelStarts \/ ModelFinishes
  \/ ToolStarts \/ ToolSettles \/ Dictates

PolicyTimer == FireLadderDial \/ FireRetryTimer \/ FireIdleTimer \/ HealthTick

PolicyNext == SessionStep \/ Outside \/ PolicyTimer \/ Elapse

\* Timers fire, and every dial has a deadline.
Fairness ==
  /\ WF_policyVars(FireLadderDial) /\ WF_policyVars(FireRetryTimer) /\ WF_policyVars(FireIdleTimer)
  /\ WF_policyVars(HealthTick) /\ WF_policyVars(Elapse) /\ WF_policyVars(BackoffEnds) /\ WF_policyVars(OrphanSettles)

PolicySpec == PolicyInit /\ [][PolicyNext]_policyVars /\ Fairness

-----------------------------------------------------------------------------
(* Properties.                                                             *)

NewDial == pol.dial # "host" /\ pol'.dial = "host"

NewAttempt == ~pol.mine /\ pol'.mine

\* The values of the fields.  Nothing is overdue, and an episode's budget is kept.
PolicyTypeOK ==
  /\ pol.state \in PolicyStates /\ pol.dial \in {"none", "first", "auto", "backoff", "host"}
  /\ pol.orphan \in {"none", "other", "mine", "fenced"}
  /\ pol.phase \in {"idle", "restarting", "waiting-retry", "terminal"}
  /\ pol.seen \in {"none", "this", "older"}
  /\ {pol.nextDial, pol.dialTimer, pol.retryTimer, pol.idleTimer, pol.retryIn} \subseteq Nat \cup {Off}
  /\ pol.failures \in 0 .. LadderTop /\ pol.backoff \in 0 .. FatalBackoff
  /\ pol.attempts \in 0 .. Limit

\* While active silence owns the session's redials something moves them on: a
\* restart waits for a dial that will settle, a wait for a retry that a client is
\* there for has its timer armed, and a client that is there when the attempts are
\* spent has been told, so that it can retry.
OwnershipProgresses ==
  /\ pol.phase = "restarting" => (pol.dial = "host" /\ pol.mine) \/ pol.orphan \in {"mine", "fenced"}
  /\ pol.phase = "waiting-retry" /\ pol.client => pol.retryTimer # Off
  /\ pol.phase = "terminal" /\ pol.client => pol.told

\* A redial has one owner: while active silence owns the session's redials, only
\* its own attempts and the host's own call dial, and two attempts are a cooldown
\* apart unless the user asked for the second.
OneOwner ==
  [][/\ NewDial /\ OwnsRecovery(pol) => NewAttempt \/ HostRecovers
     /\ NewAttempt => \/ pol.sinceAttempt >= Cooldown
                      \/ pol.phase = "terminal" \/ pol.parked # NoRequest]_policyVars

\* A fatal close blocks every dial but the one a client attach or the host asks for.
NoDialInBackoff ==
  [][NewDial /\ InFatalBackoff(pol) => ClientConnects \/ HostRecovers]_policyVars

\* A retry command is answered once, however often it is received, and an accepted
\* one names an attempt that begins with the answer.
RetryAnsweredOnce ==
  [][\A r \in Requests :
       pol'.ack[r] # pol.ack[r] =>
         pol.ack[r] = NoRequest /\ (pol'.ack[r] = "accepted" => NewAttempt)]_policyVars

\* An episode that active silence owns while it waits for the model has no timer.
Moves == ~OwnsRecovery(pol) \/ pol.phase \in {"restarting", "waiting-retry"}

Parked == pol.state = "UPSTREAM_LOST" /\ ~pol.hostParked /\ pol.client

\* Every dial and every answer to a retry has one owner and its reason: no second
\* owner, no dial inside a fatal backoff, no second answer, and no owner that
\* nothing moves on.
DialsAreOwned == []OwnershipProgresses /\ OneOwner /\ NoDialInBackoff /\ RetryAnsweredOnce

\* A parked session with a client there, that the host did not park, is redialed or
\* the attempts are spent, once a timer or a dial moves it on.
MovingIsRedialed == Parked /\ Moves ~> ~Parked \/ pol.phase = "terminal"

\* active-silence-recovery.ts: three attempts per episode, then terminal; the client
\* gets voice-stalled, and a model response on the current connection ends the
\* episode.  So no more than that many redials follow each other without a word of the
\* model or a retry of the user.  The code does not keep this: the redial itself ends
\* the turn that the model left unfinished, which counts as a response.
EpisodeIsBounded == pol.unanswered <= Limit
=============================================================================
