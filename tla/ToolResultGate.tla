--------------------------- MODULE ToolResultGate ---------------------------
(***************************************************************************)
(* The way of a tool result to the provider: VoiceSession wraps            *)
(* transport.sendToolResult twice.  DictationController holds results back *)
(* outside agent mode; behind it DialGenerationFence drops the results of  *)
(* calls that a connection abandoned at a recovery boundary had issued;    *)
(* the transport drops what is sent while no connection is open.           *)
(*                                                                         *)
(* The transport has dial generations (Gemini) and speaks audio: the       *)
(* buffer it keeps in text mode while a server turn winds down, and the    *)
(* controller's twin queue for content turns, are not modelled.            *)
(***************************************************************************)
EXTENDS Naturals, FiniteSets

CONSTANTS Calls,       \* tool-call ids the provider issues
          Blocking,    \* calls of BLOCKING functions
          Silent,      \* calls whose result is silent and honoured as such
          Quiescible,  \* capabilities.quiescible of the transport
          MaxDials,    \* bound: connections dialed
          MaxFlips     \* bound: entries into transcription mode

ASSUME GateAssumption ==
  /\ Blocking \subseteq Calls /\ Silent \subseteq Calls
  /\ Quiescible \in BOOLEAN
  /\ MaxDials \in Nat \ {0} /\ MaxFlips \in Nat

VARIABLES mode, flip,   \* DictationController.internalMode, and its pending await
          held,         \* pendingToolResultsAwaitingAgentMode
          stamps,       \* DialGenerationFence.toolCallGens, 0 for no entry
          awaited,      \* DialGenerationFence.awaitedCalls
          boundaryGen,  \* DialGenerationFence.boundaryGen, 0 for null
          dialGen,      \* the transport's dial generation
          connected,    \* whether the transport holds a session
          era,          \* history: the server session, numbered from 1
          issuedIn,     \* history: the server session that issued a call, 0 before
          thisTurn,     \* history: blocking calls issued since the last completed turn
          cancelled,    \* history: calls the provider cancelled
          sends,        \* history: results handed to transport.sendToolResult
          written,      \* history: results written to the provider
          lost,         \* history: results sent while not connected
          flips         \* entries into transcription mode

dictation == <<mode, flip, held, flips>>
fence == <<stamps, awaited, boundaryGen>>
connection == <<dialGen, connected, era>>
provider == <<issuedIn, thisTurn, cancelled>>
outcome == <<sends, written, lost>>

gateVars == <<dictation, fence, connection, provider, outcome>>

GateInit ==
  /\ mode \in {"agent", "transcription"} /\ flip = "none"
  /\ held = {} /\ flips = 0
  /\ stamps = [c \in Calls |-> 0] /\ awaited = {} /\ boundaryGen = 0
  /\ dialGen = 1 /\ connected = TRUE /\ era = 1
  /\ issuedIn = [c \in Calls |-> 0] /\ thisTurn = {} /\ cancelled = {}
  /\ sends = [c \in Calls |-> 0] /\ written = [c \in Calls |-> 0] /\ lost = {}

-----------------------------------------------------------------------------
(* The provider's events, as the session's transport callbacks see them.   *)

Stamp(c) ==
  /\ stamps' = [stamps EXCEPT ![c] = dialGen]
  /\ awaited' = IF c \in Blocking THEN awaited \cup {c} ELSE awaited

IssueCall(c) ==
  /\ connected
  /\ issuedIn[c] = 0
  /\ issuedIn' = [issuedIn EXCEPT ![c] = era]
  /\ thisTurn' = thisTurn \cup ({c} \cap Blocking)
  /\ Stamp(c)
  /\ UNCHANGED <<boundaryGen, cancelled, connection, dictation, outcome>>

Forget(c) ==
  /\ stamps' = [stamps EXCEPT ![c] = 0]
  /\ awaited' = awaited \ {c}

CancelCall(c) ==
  /\ connected
  /\ issuedIn[c] = era
  /\ c \notin cancelled
  /\ cancelled' = cancelled \cup {c}
  /\ Forget(c)
  /\ UNCHANGED <<boundaryGen, issuedIn, thisTurn, connection, dictation, outcome>>

TurnCompleted ==
  /\ connected
  /\ thisTurn' = {}
  /\ awaited' = {}
  /\ UNCHANGED <<stamps, boundaryGen, issuedIn, cancelled, connection, dictation, outcome>>

\* A loss, or the disconnect of a reconnect that resumes the server session.
Disconnect ==
  /\ connected
  /\ dialGen < MaxDials
  /\ connected' = FALSE
  /\ UNCHANGED <<dialGen, era, fence, provider, dictation, outcome>>

Dial ==
  /\ ~connected
  /\ dialGen < MaxDials
  /\ dialGen' = dialGen + 1
  /\ connected' = TRUE
  /\ UNCHANGED <<era, fence, provider, dictation, outcome>>

BoundaryUnmarkedOnRotation ==
  /\ dialGen + 1 < MaxDials
  /\ dialGen' = dialGen + 1 \/ (connected /\ dialGen' = dialGen)
  /\ boundaryGen' = IF dialGen' = dialGen THEN boundaryGen ELSE dialGen
  /\ connected' = FALSE
  /\ era' = era + 1
  /\ UNCHANGED <<stamps, awaited, provider, dictation, outcome>>

\* crossBoundary marks the generation, then the connection is given up for a
\* fresh server session: by abortIncumbent, which advances the generation, or
\* by a credential-expiry rotation, which does not.
CrossBoundary ==
  /\ dialGen + 1 < MaxDials
  /\ boundaryGen' = dialGen
  /\ dialGen' = dialGen + 1 \/ (connected /\ dialGen' = dialGen)
  /\ connected' = FALSE
  /\ era' = era + 1
  /\ UNCHANGED <<stamps, awaited, provider, dictation, outcome>>

-----------------------------------------------------------------------------
(* The fence and the dictation guard.                                      *)

Stale(c) == stamps[c] # 0 /\ boundaryGen # 0 /\ stamps[c] <= boundaryGen

\* The wrapped sender: a stamp is settled whether its result is dropped or sent.
PassFence(results) ==
  LET fresh == {c \in results : ~Stale(c)} IN
  /\ stamps' = [c \in Calls |-> IF c \in results THEN 0 ELSE stamps[c]]
  /\ awaited' = awaited \ results
  /\ written' = [c \in Calls |-> IF connected /\ c \in fresh THEN written[c] + 1 ELSE written[c]]
  /\ lost' = IF connected THEN lost ELSE lost \cup fresh

PassesAgentOnlyByPublicMode(c) == c \in Silent \/ mode \in {"agent", "stopping"}

PassesNow(c) == c \in Silent \/ mode = "agent"

\* transport.sendToolResult, as the tool call paths see it.
SendToolResult(c) ==
  /\ sends' = [sends EXCEPT ![c] = @ + 1]
  /\ \/ /\ PassesNow(c)
        /\ PassFence({c})
        /\ UNCHANGED held
     \/ /\ ~PassesNow(c)
        /\ held' = held \cup {c}
        /\ UNCHANGED <<stamps, awaited, written, lost>>
  /\ UNCHANGED <<mode, flip, flips, boundaryGen, connection, provider>>

FlushPendingToolResults ==
  /\ PassFence(held)
  /\ held' = {}

EnterTranscription ==
  /\ flip = "none" /\ mode = "agent"
  /\ flips < MaxFlips
  /\ flips' = flips + 1
  /\ mode' = "starting" /\ flip' = "entering"
  /\ UNCHANGED <<held, fence, connection, provider, outcome>>

WhisperStarts ==
  /\ flip = "entering"
  /\ mode' = "transcription" /\ flip' = "none"
  /\ UNCHANGED <<held, flips, fence, connection, provider, outcome>>

\* The rollback restores agent mode and leaves what was held meanwhile.
WhisperFails ==
  /\ flip = "entering"
  /\ mode' = "agent"
  /\ flip' = IF Quiescible THEN "rollback" ELSE "none"
  /\ UNCHANGED <<held, flips, fence, connection, provider, outcome>>

RolledBack ==
  /\ flip = "rollback"
  /\ flip' = "none"
  /\ UNCHANGED <<mode, held, flips, fence, connection, provider, outcome>>

ExitTranscription ==
  /\ flip = "none" /\ mode = "transcription"
  /\ mode' = "stopping" /\ flip' = "exiting"
  /\ UNCHANGED <<held, flips, fence, connection, provider, outcome>>

\* The queue is flushed at once, or after the transport's awaited unquiesce.
WhisperStops ==
  /\ flip = "exiting"
  /\ mode' = "agent"
  /\ \/ /\ Quiescible
        /\ flip' = "unquiescing"
        /\ UNCHANGED <<held, fence, outcome>>
     \/ /\ ~Quiescible
        /\ flip' = "none"
        /\ FlushPendingToolResults
        /\ UNCHANGED <<boundaryGen, sends>>
  /\ UNCHANGED <<flips, connection, provider>>

Unquiesced ==
  /\ flip = "unquiescing"
  /\ flip' = "none"
  /\ FlushPendingToolResults
  /\ UNCHANGED <<mode, flips, boundaryGen, sends, connection, provider>>

-----------------------------------------------------------------------------

\* Any tool call path that answers an issued call at most once.
SendResult(c) ==
  /\ issuedIn[c] # 0
  /\ sends[c] = 0
  /\ SendToolResult(c)

BeginFlip == EnterTranscription \/ ExitTranscription

EndFlip == WhisperStarts \/ WhisperFails \/ RolledBack \/ WhisperStops \/ Unquiesced

ConnectionStep == TurnCompleted \/ Disconnect \/ Dial \/ CrossBoundary

GateNext ==
  \/ \E c \in Calls : IssueCall(c) \/ CancelCall(c) \/ SendResult(c)
  \/ ConnectionStep \/ BeginFlip \/ EndFlip

\* A mode flip that began comes to its end; nobody has to begin one.
GateSpec == GateInit /\ [][GateNext]_gateVars /\ WF_gateVars(EndFlip)

-----------------------------------------------------------------------------
(* Properties.                                                             *)

\* The state variables hold what the fields can hold.
GateTypeOK ==
  /\ mode \in {"agent", "starting", "transcription", "stopping"}
  /\ flip \in {"none", "entering", "rollback", "exiting", "unquiescing"}
  /\ held \subseteq Calls /\ flips \in 0..MaxFlips
  /\ stamps \in [Calls -> 0..MaxDials] /\ awaited \subseteq Calls
  /\ boundaryGen \in 0..MaxDials
  /\ dialGen \in 1..MaxDials /\ connected \in BOOLEAN /\ era \in Nat \ {0}
  /\ issuedIn \in [Calls -> Nat]
  /\ thisTurn \subseteq Blocking /\ cancelled \subseteq Calls
  /\ sends \in [Calls -> Nat] /\ written \in [Calls -> Nat] /\ lost \subseteq Calls

\* A result whose function starts a response is never written outside agent
\* mode: not one that arrives during either transition, and none of the queue
\* before the mode is 'agent' again.
QuietOutsideAgentMode ==
  [][\A c \in Calls : written'[c] # written[c] => c \in Silent \/ mode' = "agent"]_gateVars

\* Leaving transcription mode delivers everything held back.
ExitDrains == mode = "stopping" ~> held = {}

HasOpenToolCalls ==
  \E c \in awaited : stamps[c] # 0 /\ (boundaryGen = 0 \/ stamps[c] > boundaryGen)

\* hasOpenToolCalls, by which a reconnect decides whether to release a
\* notification, is true exactly while a blocking call of the turn in progress,
\* issued by the live server session, is neither answered nor cancelled,
\* through held results, boundaries, reconnects and late results.
OpenCallsExact ==
  HasOpenToolCalls <=>
    \E c \in thisTurn :
      issuedIn[c] = era /\ c \notin cancelled /\ (sends[c] = 0 \/ c \in held)

\* The gate gives the provider what ToolCallContract promises: one response per
\* call, on the server session that issued it.
Contract == INSTANCE ToolCallContract
              WITH session <- era, issued <- issuedIn,
                   withdrawn <- cancelled, answers <- written

KeepsContract == Contract!ContractSpec

\* What the gate promises the provider: silence outside agent mode, and one response
\* per call on the session that issued it, with the calls that the provider still
\* waits for known exactly.
ResultsAreGated == []OpenCallsExact /\ QuietOutsideAgentMode /\ KeepsContract
=============================================================================
