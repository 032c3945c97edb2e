-------------------------- MODULE ResponseWatchdog --------------------------
(***************************************************************************)
(* The response watchdog of TransportReconnector and what feeds it: the    *)
(* client VAD's segments, their evidence ledger and terminal policies, the *)
(* LastUtteranceRetainer whose sealed utterance a recovery replays, the    *)
(* greeting gate and the synthetic-output hold a fired recovery waits for, *)
(* and the watchdog's reconnect.  The user, the model, the provider        *)
(* connection and the host's recovery are the environment.                 *)
(***************************************************************************)
EXTENDS Integers, FiniteSets

CONSTANTS MaxReconnectAttempts,  \* MAX_RECONNECT_ATTEMPTS
          MaxUtterances,         \* segments in a behaviour
          MaxEvents              \* greetings, holds, losses and mode changes

ASSUME WatchdogAssumption ==
  /\ MaxReconnectAttempts \in Nat /\ MaxUtterances \in Nat /\ MaxEvents \in Nat

VARIABLES watch,     \* see WatchInit
          watchUsed  \* the events so far

watchVars == <<watch, watchUsed>>

WatchInit ==
  /\ watch = [sess |-> "ACTIVE", agent |-> TRUE, model |-> FALSE,
              greet |-> FALSE, hold |-> FALSE,
              timer |-> FALSE, deferred |-> FALSE, held |-> FALSE,
              seg |-> 0,          \* the open VAD segment, 0 without one
              routed |-> FALSE,   \* routed.llm of that segment
              next |-> 1,
              sealed |-> 0,       \* the retained utterance
              drained |-> FALSE,  \* reconnect-window speech was drained after it
              stage |-> "idle", stageOf |-> 0,
              attempts |-> 0,
              elicit |-> FALSE,   \* the reconnect is the watchdog's
              owed |-> FALSE,     \* history: a user turn awaits the model
              inPlace |-> {}, after |-> {},  \* history: the utterances replayed
              twice |-> FALSE]
  /\ watchUsed = 0

-----------------------------------------------------------------------------
(* TransportReconnector: the timer and the replay.                         *)

Arm(w) == IF w.agent THEN [w EXCEPT !.timer = TRUE, !.deferred = FALSE] ELSE w

Disarm(w) == [w EXCEPT !.timer = FALSE]

ResetReplayState(w) == [w EXCEPT !.stage = "idle", !.stageOf = 0, !.deferred = FALSE]

NotifySegmentAborted(w) == IF w.deferred THEN Arm(w) ELSE w

\* Stage state belongs to one sealed utterance.
StageFor(w) ==
  IF w.stageOf = w.sealed THEN w ELSE [w EXCEPT !.stageOf = w.sealed, !.stage = "idle"]

Replay(w, where) ==
  [w EXCEPT !.inPlace = IF where = "inPlace" THEN @ \cup {w.sealed} ELSE @,
            !.after = IF where = "after" THEN @ \cup {w.sealed} ELSE @,
            !.twice = @ \/ w.sealed \in (IF where = "inPlace" THEN w.inPlace ELSE w.after)]

Eligible(w) == w.sealed # 0 /\ ~w.drained

\* Without a handle, or with a spent budget, the session is lost.
TriggerReconnect(w, elicit, handle) ==
  IF w.sess # "ACTIVE" THEN w
  ELSE IF handle /\ w.attempts < MaxReconnectAttempts
  THEN [w EXCEPT !.sess = "RECONNECTING", !.elicit = elicit, !.attempts = @ + 1,
                 !.model = FALSE]
  ELSE [w EXCEPT !.sess = "UPSTREAM_LOST", !.model = FALSE]

\* decideOnWatchdogFire() and its actuation; the transport may refuse a replay.
OnResponseWatchdogFired(w, connected, handle, taken) ==
  LET s   == StageFor(w)
      try == connected /\ Eligible(w) /\ s.stage = "idle"
  IN IF w.seg # 0 THEN [w EXCEPT !.deferred = TRUE]
     ELSE IF w.greet \/ w.hold THEN [w EXCEPT !.held = TRUE]
     ELSE LET r == IF w.sealed # 0 THEN s ELSE w
          IN IF try /\ taken THEN Arm(Replay([r EXCEPT !.stage = "inPlace"], "inPlace"))
             ELSE TriggerReconnect([r EXCEPT !.stage = IF try THEN "inPlace" ELSE @], TRUE, handle)

\* Mutant: a release while the user speaks cancels the held recovery.
ReevaluateOrIdle(w, handle, taken) ==
  IF ~w.held THEN w
  ELSE LET r == [w EXCEPT !.held = FALSE]
       IN IF w.sess # "ACTIVE" \/ w.seg # 0 THEN r
          ELSE OnResponseWatchdogFired(r, TRUE, handle, taken)

ReevaluateHeldRecovery(w, handle, taken) ==
  IF ~w.held THEN w
  ELSE LET r == [w EXCEPT !.held = FALSE]
       IN IF w.sess # "ACTIVE" THEN r
          ELSE IF w.seg # 0 THEN [r EXCEPT !.deferred = TRUE]
          ELSE OnResponseWatchdogFired(r, TRUE, handle, taken)

-----------------------------------------------------------------------------
(* Segments of user speech.                                                *)

Seal(w, utterance) == [w EXCEPT !.sealed = utterance, !.drained = FALSE]

\* The terminal of the open segment, seen by the retainer and the watchdog.
ActuateTerminalPolicies(w, completed, forced) ==
  LET t == [w EXCEPT !.seg = 0, !.routed = FALSE]
      s == IF completed /\ w.routed /\ ~forced THEN Seal(t, w.seg) ELSE t
  IN IF completed /\ w.routed /\ w.agent THEN Arm([s EXCEPT !.owed = TRUE])
     ELSE NotifySegmentAborted(s)

\* logProviderUserTurnRecognition(): the model's activity ends the segment,
\* completed if it was long enough.
ForceComplete(w, completed) ==
  IF w.seg = 0 THEN w ELSE ActuateTerminalPolicies(w, completed, TRUE)

Set(w, cost) ==
  /\ watchUsed + cost <= MaxEvents
  /\ watch' = w /\ watchUsed' = watchUsed + cost

SpeechStarts ==
  /\ watch.sess = "ACTIVE" /\ watch.seg = 0 /\ watch.next <= MaxUtterances
  /\ Set([watch EXCEPT !.seg = watch.next, !.next = @ + 1,
                       !.routed = watch.agent /\ ~watch.greet], 0)

\* A voiced frame of the open segment passes the greeting gate.
SpeechIsRouted ==
  /\ watch.sess = "ACTIVE" /\ watch.seg # 0 /\ watch.agent /\ ~watch.greet /\ ~watch.routed
  /\ Set([watch EXCEPT !.routed = TRUE], 0)

\* Silence, after enough speech or not; a reset of a deferred segment.
SpeechEnds ==
  /\ watch.seg # 0
  /\ \E completed \in BOOLEAN :
       /\ completed => watch.sess = "ACTIVE"
       /\ Set(ActuateTerminalPolicies(watch, completed, FALSE), 0)

-----------------------------------------------------------------------------
(* The model.                                                              *)

\* onModelTurnStart of a current turn.
ModelStarts ==
  /\ watch.sess = "ACTIVE" /\ ~watch.model
  /\ LET w == [watch EXCEPT !.model = TRUE, !.held = @ /\ watch.greet]
         c == IF w.held THEN w
              ELSE ResetReplayState([Disarm(w) EXCEPT !.sealed = 0, !.owed = FALSE])
     IN \E completed \in BOOLEAN : Set(ForceComplete(c, completed), 0)

\* Audio or a transcription of the current turn.
ModelSpeaks ==
  /\ watch.sess = "ACTIVE" /\ watch.model /\ watch.timer
  /\ Set([Disarm(watch) EXCEPT !.owed = FALSE], 0)

ToolCallArrives ==
  /\ watch.sess = "ACTIVE" /\ watch.model
  /\ \E completed \in BOOLEAN :
       Set(ForceComplete([Disarm(watch) EXCEPT !.owed = FALSE], completed), 1)

\* turnComplete resets the budget; an interruption does not.
TurnEnds ==
  /\ watch.sess = "ACTIVE" /\ watch.model
  /\ \E interrupted \in BOOLEAN :
       Set([Disarm(watch) EXCEPT !.model = FALSE, !.owed = FALSE,
                                 !.attempts = IF interrupted THEN @ ELSE 0], 0)

-----------------------------------------------------------------------------
(* The watchdog, the gates and the connection.                             *)

WatchdogFires ==
  /\ watch.timer
  /\ \E connected \in BOOLEAN, handle \in BOOLEAN, taken \in BOOLEAN :
       LET w == Disarm(watch)
       IN Set(IF w.sess # "ACTIVE" THEN w
              ELSE OnResponseWatchdogFired(w, connected, handle, taken), 0)

GreetingStarts ==
  /\ watch.sess = "ACTIVE" /\ ~watch.greet
  /\ Set([watch EXCEPT !.greet = TRUE], 1)

\* onGateReleased.
GreetingEnds ==
  /\ watch.greet
  /\ \E handle \in BOOLEAN, taken \in BOOLEAN :
       Set(ReevaluateHeldRecovery([watch EXCEPT !.greet = FALSE], handle, taken), 0)

\* Fresh evidence of the user releases the synthetic-output hold.
HoldReleases ==
  /\ watch.hold
  /\ \E handle \in BOOLEAN, taken \in BOOLEAN :
       Set(ReevaluateHeldRecovery([watch EXCEPT !.hold = FALSE], handle, taken), 0)

\* Typed input idles a held recovery, then releases the gates and the turn.
DirectInput ==
  /\ watch.sess = "ACTIVE"
  /\ Set([watch EXCEPT !.held = FALSE, !.greet = FALSE, !.hold = FALSE,
                       !.model = FALSE, !.owed = FALSE], 1)

ModeChanges ==
  /\ watch.sess = "ACTIVE"
  /\ Set([watch EXCEPT !.agent = ~@, !.owed = FALSE], 1)

\* A close, or a GoAway and a credential expiry, which dial at once.
ConnectionEnds ==
  /\ watch.sess = "ACTIVE"
  /\ \/ \E handle \in BOOLEAN :
          Set([TriggerReconnect(watch, FALSE, handle) EXCEPT !.owed = FALSE], 1)
     \/ Set([Disarm(watch) EXCEPT !.owed = FALSE, !.sess = "RECONNECTING", !.elicit = FALSE,
                                  !.model = FALSE], 1)

\* The reconnect completes; what was said meanwhile decides on the replay.
ReconnectCompletes ==
  /\ watch.sess = "RECONNECTING"
  /\ \E speech \in {"none", "local", "hosted", "unknown"}, taken \in BOOLEAN :
       LET w == [watch EXCEPT !.sess = "ACTIVE", !.drained = @ \/ speech = "local"]
           s == StageFor(w)
           replay == Eligible(w) /\ s.stage # "after" /\ taken
       IN Set(IF ~w.elicit \/ ~w.agent THEN w
              ELSE IF speech = "local" THEN Arm(w)
              ELSE IF speech # "none" THEN [w EXCEPT !.owed = FALSE]
              ELSE IF replay THEN Arm([Replay(s, "after") EXCEPT !.stage = "after"])
              ELSE [(IF w.sealed # 0 THEN s ELSE w) EXCEPT !.owed = FALSE], 0)

ReconnectFails ==
  /\ watch.sess = "RECONNECTING"
  /\ Set([watch EXCEPT !.sess = "UPSTREAM_LOST"], 0)

\* The host's recovery: the boundary, then a connection under its hold.
HostRecovers ==
  /\ watch.sess \in {"ACTIVE", "RECONNECTING", "UPSTREAM_LOST"}
  /\ \E hold \in BOOLEAN :
       Set([Disarm(watch) EXCEPT !.sess = "ACTIVE", !.held = FALSE, !.sealed = 0,
                                 !.greet = FALSE, !.hold = hold \/ @, !.attempts = 0,
                                 !.model = FALSE, !.owed = FALSE], 1)

\* resetConversationContext().
ContextReset ==
  /\ watch.sess = "ACTIVE"
  /\ Set(ResetReplayState([watch EXCEPT !.sealed = 0, !.owed = FALSE]), 1)

\* finalizeForClose() and dispose().
SessionCloses ==
  /\ watch.sess # "CLOSED"
  /\ Set(ResetReplayState([Disarm(watch) EXCEPT !.sess = "CLOSED", !.sealed = 0,
                                                !.held = FALSE, !.owed = FALSE]), 1)

WatchNext ==
  \/ SpeechStarts \/ SpeechIsRouted \/ SpeechEnds
  \/ ModelStarts \/ ModelSpeaks \/ ToolCallArrives \/ TurnEnds
  \/ WatchdogFires \/ GreetingStarts \/ GreetingEnds \/ HoldReleases
  \/ DirectInput \/ ModeChanges \/ ConnectionEnds
  \/ ReconnectCompletes \/ ReconnectFails \/ HostRecovers \/ ContextReset \/ SessionCloses

WatchSpec == WatchInit /\ [][WatchNext]_watchVars

-----------------------------------------------------------------------------

(* The replay ladder: a retained utterance is replayed at most once in place
   and once after a reconnect, however fires, releases, reconnects and newer
   utterances interleave.

   While a completed user turn awaits the model on an ACTIVE agent session,
   something will recover it: the timer, the open segment a fire deferred to,
   or the gate a fire is held behind.  The debt is written off where the code
   has no timer to offer: a mode change, typed input, a context reset, and a
   close, GoAway or expiry that reconnects without eliciting. *)
OwedIsWatched ==
  /\ ~watch.twice
  /\ watch.owed /\ watch.sess = "ACTIVE" /\ watch.agent =>
       \/ watch.timer
       \/ watch.deferred /\ watch.seg # 0
       \/ watch.held /\ (watch.greet \/ watch.hold)
=============================================================================
