----------------------- MODULE StreamingTranscription -----------------------
(***************************************************************************)
(* The two streaming STT providers with a reconnecting socket: OpenAI's     *)
(* gpt-realtime-whisper and ElevenLabs' Scribe.  Both keep one _ws, one     *)
(* slot for the promise of the latest _connect(), an uncleared deadline per *)
(* attempt and a reconnect timer; the handlers of an older socket stay      *)
(* attached.  The owner, the server and the timers are the environment.     *)
(***************************************************************************)
EXTENDS Integers, FiniteSets

CONSTANTS StrProviders,   \* subset of {"whisper", "scribe"}
          MaxStrSockets,  \* connection attempts in a behaviour
          MaxTimers,   \* reconnect timers in flight at once
          MaxStrCalls     \* start() and stop() calls

ASSUME StreamingAssumption ==
  /\ StrProviders \subseteq {"whisper", "scribe"}
  /\ MaxStrSockets \in Nat /\ MaxTimers \in Nat /\ MaxStrCalls \in Nat

VARIABLES str,          \* the provider, see StrInit
          strProvider,
          strUsed       \* the owner's calls so far

strVars == <<str, strProvider, strUsed>>

NoSocket == 0
StrSocks == 1 .. MaxStrSockets
Whisper == strProvider = "whisper"

StrInit ==
  /\ strProvider \in StrProviders
  /\ str = [state |-> "idle", ws |-> NoSocket,
            slot |-> NoSocket,       \* the attempt whose resolve and reject are stored
            count |-> 0, over |-> FALSE,
            sock |-> [s \in StrSocks |-> "unused"],
            purpose |-> [s \in StrSocks |-> "none"],   \* "start" or "reconnect"
            settled |-> [s \in StrSocks |-> FALSE],
            deadline |-> [s \in StrSocks |-> FALSE],
            timers |-> 0, handle |-> FALSE,  \* pending, and the last one's handle
            audio |-> FALSE,     \* the reconnect buffer holds audio
            dialed |-> FALSE]    \* history: a socket dialed after stop()
  /\ strUsed = 0

\* Behaviours that need more sockets or timers than the bounds are cut off.
StrDoes(s) == ~s.over /\ s.timers <= MaxTimers /\ str' = s /\ UNCHANGED <<strProvider, strUsed>>
StrCalls(s) ==
  /\ ~s.over /\ str' = s /\ UNCHANGED strProvider
  /\ strUsed < MaxStrCalls /\ strUsed' = strUsed + 1

-----------------------------------------------------------------------------
(* Attempts.                                                               *)

StrConnect(s, purpose) ==
  IF s.count = MaxStrSockets THEN [s EXCEPT !.over = TRUE]
  ELSE LET n == s.count + 1
       IN [s EXCEPT !.count = n, !.ws = n, !.slot = n, !.sock[n] = "connecting",
                    !.purpose[n] = purpose, !.deadline[n] = TRUE,
                    !.dialed = @ \/ s.state = "stopped"]

ScheduleReconnect(s) ==
  IF s.state = "reconnecting" THEN [s EXCEPT !.timers = @ + 1, !.handle = TRUE] ELSE s

StrCloseSock(s, n) ==
  IF n = NoSocket THEN s
  ELSE [s EXCEPT !.sock[n] = IF @ \in {"connecting", "open"} THEN "closing" ELSE @]

\* The continuation of a rejected attempt: start() of the whisper provider goes
\* back to idle, a reconnect is scheduled again.
Rejected(s, n) ==
  IF n = NoSocket \/ s.settled[n] THEN s
  ELSE LET r == [s EXCEPT !.settled[n] = TRUE]
       IN CASE s.purpose[n] = "reconnect" -> ScheduleReconnect(r)
            [] s.purpose[n] = "start" /\ Whisper ->
                 [StrCloseSock(r, r.ws) EXCEPT !.state = "idle", !.ws = NoSocket]
            [] OTHER -> r

\* A rejection through the slot: whisper rejects the attempt the slot holds,
\* scribe the attempt whose own handler runs.
RejectBy(s, n) ==
  IF s.slot = NoSocket THEN s
  ELSE Rejected([s EXCEPT !.slot = NoSocket], IF Whisper THEN s.slot ELSE n)

-----------------------------------------------------------------------------
(* The owner.                                                              *)

StrStart ==
  IF str.state \in (IF Whisper THEN {"idle", "stopped"} ELSE {"idle"})
  THEN StrCalls(StrConnect([str EXCEPT !.state = "connecting"], "start"))
  ELSE StrCalls(str)

StrStop ==
  /\ str.state # "stopped" /\ (Whisper => str.state # "idle")
  /\ StrCalls([str EXCEPT !.state = "stopped", !.ws = NoSocket, !.audio = FALSE,
                       !.timers = IF str.handle THEN @ - 1 ELSE @, !.handle = FALSE,
                       !.sock = [s \in StrSocks |->
                         IF s = str.ws /\ @[s] = "open" THEN "closing" ELSE @[s]]])

StrFeedAudio ==
  /\ str.state \notin {"stopped", "idle"}
  /\ ~(str.state = "connected" /\ str.ws # NoSocket /\ str.sock[str.ws] = "open")
  /\ Whisper \/ str.state # "connected"
  /\ StrDoes([str EXCEPT !.audio = TRUE])

-----------------------------------------------------------------------------
(* The sockets; every handler acts on the provider, whichever socket it is. *)

StrSocketOpens(n) ==
  /\ str.sock[n] = "connecting"
  /\ StrDoes([str EXCEPT !.sock[n] = "open"])

\* session.updated, session_started; the flush needs an open _ws.
SessionStarted(n) ==
  LET up == str.state \in {"connecting", "reconnecting"}
      s  == [str EXCEPT !.state = IF up THEN "connected" ELSE @,
                        !.audio = IF up THEN FALSE ELSE @, !.slot = NoSocket]
  IN /\ str.sock[n] \in {"open", "closing"}
     /\ StrDoes(IF str.slot = NoSocket THEN s ELSE [s EXCEPT !.settled[str.slot] = TRUE])

\* A server error before the session is set up.
ServerErrors(n) ==
  /\ Whisper /\ str.sock[n] = "open"
  /\ StrDoes(RejectBy(str, n))

HandleClose(s, n) ==
  LET c == [s EXCEPT !.sock[n] = "closed", !.ws = NoSocket]
  IN IF s.state = "stopped" THEN c
     ELSE IF Whisper /\ s.slot # NoSocket THEN RejectBy(c, n)
     ELSE ScheduleReconnect([c EXCEPT !.state = "reconnecting"])

StrSocketCloses(n) ==
  /\ str.sock[n] \in {"connecting", "open", "closing"}
  /\ StrDoes(HandleClose(str, n))

\* 'error', then 'close', before any continuation runs.
SocketFails(n) ==
  LET slot  == str.slot
      owner == IF Whisper THEN slot ELSE n
      c     == HandleClose([str EXCEPT !.slot = NoSocket], n)
  IN /\ str.sock[n] \in {"connecting", "closing"}
     /\ StrDoes(IF slot = NoSocket THEN c ELSE Rejected(c, owner))

-----------------------------------------------------------------------------
(* Timers.                                                                 *)

StrConnectTimesOut(n) ==
  /\ str.deadline[n]
  /\ StrDoes(RejectBy([str EXCEPT !.deadline[n] = FALSE], n))

\* Mutant: the timer dials without asking whether the provider still reconnects.
ReconnectAnyway(s) == StrConnect(s, "reconnect")

Reconnect(s) == IF s.state = "reconnecting" THEN StrConnect(s, "reconnect") ELSE s

ReconnectTimerFires ==
  /\ str.timers > 0
  /\ StrDoes(Reconnect([str EXCEPT !.timers = @ - 1, !.handle = FALSE]))

StrNext ==
  \/ StrStart \/ StrStop \/ StrFeedAudio \/ ReconnectTimerFires
  \/ \E n \in StrSocks :
       \/ StrSocketOpens(n) \/ SessionStarted(n) \/ ServerErrors(n)
       \/ StrSocketCloses(n) \/ SocketFails(n) \/ StrConnectTimesOut(n)

StrSpec == StrInit /\ [][StrNext]_strVars

-----------------------------------------------------------------------------
(* A stopped provider stays off the network: no timer, deadline or event left
   over from a run dials after stop(), although stop() clears only the last
   reconnect timer's handle. *)
StoppedNeverDials == ~str.dialed

(* A provider that is reconnecting has something under way: a timer, or a
   socket whose events or deadline are still to come. *)
ReconnectIsDriven ==
  str.state = "reconnecting" =>
    str.timers > 0 \/ \E n \in StrSocks : str.sock[n] \in {"connecting", "open", "closing"}

\* A stopped provider stays away, and a lost connection has exactly what brings it back.
ReconnectsAreOwned == StoppedNeverDials /\ ReconnectIsDriven
=============================================================================
