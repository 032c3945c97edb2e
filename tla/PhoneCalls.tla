------------------------------- MODULE PhoneCalls ------------------------------
(***************************************************************************)
(* Calls over Twilio.  Outbound: an agent of external audio mode dials a   *)
(* human through TwilioBridge and its webhook server, while the provider   *)
(* is disconnected, and asks for the transfer back when the call ends.     *)
(* Inbound: a bridge process that makes one caller at a time a client of   *)
(* a VoiceSession.                                                         *)
(*                                                                         *)
(* Twilio (external): a call rings, may be answered, ends once; an         *)
(* answered call opens one media stream where a server listens, and the    *)
(* stream stops and closes after the call ended.  An inbound call is a     *)
(* number, which also names its nonce, its stream and the connection that  *)
(* the bridge opened to the VoiceSession for it.                           *)
(***************************************************************************)
EXTENDS Naturals, FiniteSets

CONSTANTS MaxInboundCalls, \* bound: calls that reach the inbound bridge
          MaxMediaErrors   \* bound: frames the outbound bridge cannot decode

ASSUME PhoneCallsAssumption == MaxInboundCalls \in Nat /\ MaxMediaErrors \in Nat

VARIABLES human, inbound

phoneVars == <<human, inbound>>

(***************************************************************************)
(* The human agent.  agent: where the agent's hooks are; bridge, sid: the  *)
(* state of the TwilioBridge and whether dial returned its callSid;        *)
(* phone, stream: the call and its media stream at Twilio; wired: the      *)
(* client's microphone goes to the bridge; connects, ends, asks: how often *)
(* a connection and an end were told, and a transfer back asked for.       *)
(***************************************************************************)
HumanInit ==
  human = [agent |-> "out", bridge |-> "idle", sid |-> FALSE, server |-> FALSE, phone |-> "none",
           stream |-> "none", wired |-> FALSE, connects |-> 0, ends |-> 0, asks |-> 0,
           errors |-> 0, unheard |-> FALSE]

\* safeRequestTransfer: nothing ever sets clientDisconnected.
AskBack(h) == [h EXCEPT !.asks = @ + 1]

\* onEnter, up to bridge.start.
EnterHuman == human.agent = "out" /\ human' = [human EXCEPT !.agent = "starting"]

\* The server listens: dial sends its request.
Dial ==
  /\ human.agent = "starting"
  /\ human' = [human EXCEPT !.agent = "dialing", !.server = TRUE, !.bridge = "dialing"]

TwilioCalls ==
  /\ human.agent \in {"dialing", "leaving"} /\ human.phone = "none" /\ ~human.sid /\ human.bridge # "ended"
  /\ human' = [human EXCEPT !.phone = "ringing"]

DialReturns ==
  /\ human.agent \in {"dialing", "leaving", "left"} /\ human.phone # "none" /\ ~human.sid
  /\ human' = [human EXCEPT !.sid = TRUE, !.agent = IF @ = "dialing" THEN "in" ELSE @]

DialFails ==
  /\ human.agent = "dialing" /\ human.phone = "none"
  /\ human' = AskBack([human EXCEPT !.bridge = "ended", !.agent = "in"])

\* Answered: Twilio fetches the TwiML and opens the stream, if a server is there.
\* onStreamStarted looks at the callSid, not at the state.
StreamStarts ==
  /\ human.phone = "ringing"
  /\ human' = IF human.server
              THEN [human EXCEPT !.phone = "up", !.stream = "open", !.bridge = "connected",
                                 !.connects = @ + 1, !.wired = TRUE]
              ELSE [human EXCEPT !.phone = "over"]

\* No answer, busy, or somebody hangs up.  The status callback of the webhook
\* server has no handler, so that the bridge hears of it by the stream alone.
PhoneEnds == human.phone \in {"ringing", "up"} /\ human' = [human EXCEPT !.phone = "over"]

\* onStreamStopped, by the stop message or the close of the socket: a call whose
\* stream broke ends too.
StreamStops ==
  /\ human.stream = "open" /\ human.phone \in {"up", "over"}
  /\ LET told == human.bridge \in {"connected", "dialing", "ringing"}
         closed == [human EXCEPT !.stream = "closed", !.phone = "over"]
     IN human' = IF told THEN AskBack([closed EXCEPT !.bridge = "ended", !.ends = @ + 1]) ELSE closed

\* onMediaReceived: a frame that does not decode is an error of the call.
MediaFails ==
  /\ human.stream = "open" /\ human.bridge = "connected" /\ human.errors < MaxMediaErrors
  /\ human' = AskBack([human EXCEPT !.errors = @ + 1])

\* onExit: the router takes up a transfer that was asked for, also while
\* onEnter still waits for dial.
LeaveHuman ==
  /\ human.agent = "in" \/ (human.agent = "dialing" /\ human.asks > 0)
  /\ human' = [human EXCEPT !.agent = "leaving", !.wired = FALSE]

\* hangup: a failed update is ignored.
HangUpHuman ==
  /\ human.agent = "leaving" /\ human.sid /\ human.bridge \notin {"ended", "disposed"}
  /\ \E works \in BOOLEAN :
       human' = [human EXCEPT !.bridge = "ended", !.phone = IF works THEN "over" ELSE @,
                              !.unheard = ~works /\ human.phone # "over"]

\* dispose: the server stops, its socket closes without a callback.
DisposeBridge ==
  /\ human.agent = "leaving" /\ (~human.sid \/ human.bridge \in {"ended", "disposed"})
  /\ human' = [human EXCEPT !.agent = "left", !.bridge = "disposed", !.server = FALSE,
                            !.stream = IF @ = "open" THEN "closed" ELSE @,
                            !.unheard = @ \/ ~human.sid]

HumanBridgeSteps == Dial \/ DialReturns \/ StreamStops \/ HangUpHuman \/ DisposeBridge

HumanNext ==
  \/ EnterHuman \/ TwilioCalls \/ DialFails \/ StreamStarts \/ PhoneEnds \/ MediaFails \/ LeaveHuman
  \/ HumanBridgeSteps

(***************************************************************************)
(* The inbound bridge: nonce, sid, twilio, agent and timer are the module  *)
(* variables of the process, each the call it belongs to, or 0.            *)
(***************************************************************************)
InboundCalls == 1..MaxInboundCalls

InboundInit ==
  inbound = [nonce |-> 0, sid |-> 0, twilio |-> 0, agent |-> 0, timer |-> 0,
             phone |-> [c \in InboundCalls |-> "none"], stream |-> [c \in InboundCalls |-> "none"],
             conn |-> [c \in InboundCalls |-> "none"], cutOff |-> FALSE, misheard |-> FALSE]

\* Closing a connection that still connects fails it at once.
CloseAgent(i) ==
  IF i.agent = 0 THEN i
  ELSE [i EXCEPT !.conn[i.agent] = CASE @ = "open" -> "closing" [] @ = "connecting" -> "closed" [] OTHER -> @]

\* Mutant: the timer of the call that ended goes on.
ResetCallStateKeepsTimer(i) ==
  [CloseAgent(i) EXCEPT !.nonce = 0, !.sid = 0, !.twilio = 0, !.agent = 0]

ResetCallState(i) == [CloseAgent(i) EXCEPT !.nonce = 0, !.sid = 0, !.twilio = 0, !.agent = 0, !.timer = 0]

\* A reset on behalf of call c; cutOff: it ended another call that was still on.
ResetFor(i, c) ==
  [ResetCallState(i) EXCEPT !.cutOff = @ \/ (i.nonce \notin {0, c} /\ i.phone[i.nonce] = "on")]

HandleVoice ==
  \E c \in InboundCalls :
    /\ inbound.phone[c] = "none" /\ (c > 1 => inbound.phone[c - 1] # "none")
    /\ inbound' = IF inbound.nonce # 0 THEN [inbound EXCEPT !.phone[c] = "rejected"]
                  ELSE [inbound EXCEPT !.phone[c] = "on", !.nonce = c]

\* The call at Twilio ends; the stream and the status callbacks tell of it later.
CallerHangsUp ==
  \E c \in InboundCalls : inbound.phone[c] = "on" /\ inbound' = [inbound EXCEPT !.phone[c] = "off"]

StatusInitiated ==
  \E c \in InboundCalls :
    /\ inbound.phone[c] \in {"on", "off", "rejected"} /\ inbound.sid = 0
    /\ inbound' = [inbound EXCEPT !.sid = c]

StatusTerminal ==
  \E c \in InboundCalls :
    /\ inbound.phone[c] \in {"off", "rejected"}
    /\ LET over == [inbound EXCEPT !.phone[c] = "over"]
       IN inbound' = IF inbound.sid \in {0, c} THEN ResetFor(over, c) ELSE over

\* The start message with the nonce of the call in it.
InboundStreamStarts ==
  \E c \in InboundCalls :
    /\ inbound.phone[c] = "on" /\ inbound.stream[c] = "none"
    /\ inbound' = IF inbound.nonce # c THEN [inbound EXCEPT !.stream[c] = "closed"]
                  ELSE [inbound EXCEPT !.stream[c] = "open", !.twilio = c, !.agent = c,
                                       !.conn[c] = "connecting"]

\* The stop message resets whatever stream it comes from; a close only its own call.
InboundStreamStops ==
  \E c \in InboundCalls :
    /\ inbound.stream[c] = "open" /\ inbound.phone[c] # "on"
    /\ inbound' = ResetFor([inbound EXCEPT !.stream[c] = "stopped"], c)

InboundStreamCloses ==
  \E c \in InboundCalls :
    /\ inbound.stream[c] \in {"open", "stopped", "closing"}
    /\ LET closed == [inbound EXCEPT !.stream[c] = "closed"]
       IN inbound' = IF inbound.twilio = c THEN ResetFor(closed, c) ELSE closed

AgentOpens ==
  \E c \in InboundCalls : inbound.conn[c] = "connecting" /\ inbound' = [inbound EXCEPT !.conn[c] = "open"]

\* Audio, a clear or a sample rate: the handler does not ask whose connection it is.
AgentSays ==
  \E c \in InboundCalls :
    /\ inbound.conn[c] \in {"open", "closing"} /\ inbound.twilio # 0
    /\ inbound' = [inbound EXCEPT !.misheard = @ \/ inbound.twilio # c]

CloseStream(i) ==
  IF i.twilio # 0 /\ i.stream[i.twilio] = "open" THEN [i EXCEPT !.stream[i.twilio] = "closing"] ELSE i

AgentCloses ==
  \E c \in InboundCalls :
    /\ inbound.conn[c] \in {"open", "closing"}
    /\ LET gone == [inbound EXCEPT !.conn[c] = "closed"]
           open == inbound.twilio # 0 /\ inbound.stream[inbound.twilio] = "open"
       IN inbound' = IF inbound.agent # c THEN gone
                     ELSE [CloseStream(gone) EXCEPT !.agent = 0, !.timer = IF open THEN c ELSE @]

\* An error closes the caller's stream and resets, whichever connection had it.
AgentErrors ==
  \E c \in InboundCalls :
    /\ inbound.conn[c] \in {"connecting", "open", "closing"}
    /\ inbound' = ResetFor(CloseStream([inbound EXCEPT !.conn[c] = "closed"]), c)

\* Five seconds after the agent's connection closed.
CleanupTimerFires ==
  /\ inbound.timer # 0
  /\ inbound' = IF inbound.nonce # 0 THEN ResetFor(inbound, inbound.timer) ELSE [inbound EXCEPT !.timer = 0]

InboundNext ==
  \/ HandleVoice \/ CallerHangsUp \/ StatusInitiated \/ StatusTerminal
  \/ InboundStreamStarts \/ InboundStreamStops \/ InboundStreamCloses
  \/ AgentOpens \/ AgentSays \/ AgentCloses \/ AgentErrors \/ CleanupTimerFires

PhoneCallsInit == HumanInit /\ InboundInit

PhoneCallsSpec ==
  /\ PhoneCallsInit
  /\ [][(HumanNext /\ UNCHANGED inbound) \/ (InboundNext /\ UNCHANGED human)]_phoneVars
  /\ WF_human(HumanBridgeSteps)

(***************************************************************************)
(* Outbound: a connection and an end are told at most once, no microphone  *)
(* is wired without a connection, and a call that the agent leaves is hung *)
(* up, unless Twilio refused or dial had not returned (onExit, hangup,     *)
(* onStreamStopped).  Inbound: the streams, connections   *)
(* and the timer the process holds are those of the one call it admitted,  *)
(* and no connection to a VoiceSession is left open without being held     *)
(* (resetCallState, connectToAgent).                                       *)
(***************************************************************************)
HumanCallIsBooked ==
  /\ human.connects <= 1 /\ human.ends <= human.connects
  /\ human.wired => human.connects = 1
  /\ (human.agent = "left" /\ ~human.unheard) => human.phone \in {"none", "over"}
  /\ human.ends > 0 => human.asks > 0

InboundIsOneCall ==
  /\ \A held \in {inbound.twilio, inbound.agent, inbound.timer} : held \in {0, inbound.nonce}
  /\ \A c \in InboundCalls : inbound.conn[c] \in {"connecting", "open"} => inbound.agent = c
  /\ Cardinality({c \in InboundCalls : inbound.stream[c] = "open" /\ inbound.phone[c] = "on"
                                       /\ ~inbound.cutOff}) <= 1

PhoneCallsAreKeptApart == HumanCallIsBooked /\ InboundIsOneCall

(***************************************************************************)
(* A call of the human agent that ended is told, so that the session       *)
(* returns to the AI agent: also a call nobody answered.                   *)
(***************************************************************************)
EndedCallsAreTold == human.phone = "over" ~> (human.asks > 0 \/ human.agent = "left")

(***************************************************************************)
(* A terminal status ends the call it names and no other.                  *)
(***************************************************************************)
OnlyItsOwnCallEnds == ~inbound.cutOff
================================================================================
