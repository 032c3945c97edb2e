------------------------- MODULE ClientConnections -------------------------
(***************************************************************************)
(* ClientTransport, the single-client WebSocket server, with the part of   *)
(* VoiceSession a client's attach, frames and detach run: the slot and its *)
(* roles, takeover and preemption, the bootstrap that waits for the        *)
(* restored memory, the greeting of an attach, the queue of early JSON and *)
(* the capture of microphone frames while the upstream connection is away. *)
(* Handlers are functions from the record to the record after them.  The   *)
(* browsers, the upstream connection and the host are the environment.     *)
(***************************************************************************)
EXTENDS Integers, Sequences, FiniteSets, SequencesExt

CONSTANTS MaxClientSockets,      \* bound: connections ever accepted
          MaxFrames,       \* bound: frames the clients send
          MaxWindows,      \* bound: times the upstream connection goes away
          MaxPendingJson,  \* MAX_PENDING_CLIENT_JSON
          Capacity,        \* frames the AudioBuffer holds
          MaxHostGates,    \* bound: changes of the greeting gate and of the host gate
          MaxClientTotal   \* bound: all of these together

ASSUME ClientAssumption ==
  /\ {MaxClientSockets, MaxFrames, MaxWindows, MaxHostGates, MaxClientTotal} \subseteq Nat
  /\ {MaxPendingJson, Capacity} \subseteq Nat \ {0}

VARIABLES client,      \* the transport, its sockets and the session, see ClientInit
          clientUsed   \* bounds used so far

clientVars == <<client, clientUsed>>

ClientSockets == 1 .. MaxClientSockets

Roles == {"real", "verify"}

ClientInit ==
  /\ \E memory \in BOOLEAN, policy \in {"per-client", "until-first-turn"} :
       client = [\* ClientTransport: client, clientRole, audioBuffer, _capturedTags
                 slot |-> 0, buffering |-> FALSE, frames |-> <<>>, tags |-> <<>>,
                 \* readyState: closing covers CLOSING and CLOSED before the close event
                 ws |-> [k \in ClientSockets |->
                           [phase |-> "none", role |-> "none", hears |-> FALSE, wire |-> <<>>]],
                 \* VoiceSession
                 state |-> "CONNECTING", turned |-> FALSE, policy |-> policy,
                 connected |-> FALSE, ready |-> ~memory, restored |-> ~memory,
                 gen |-> 0, greeted |-> 0, pendingJson |-> <<>>,
                 thens |-> <<>>,           \* closures waiting for _memoryReadyPromise
                 gate |-> FALSE,           \* greeting.shouldDropOutbound()
                 hostGate |-> FALSE,       \* suppressClientAutoActions()
                 \* history
                 excused |-> FALSE, greetings |-> 0,
                 strayed |-> FALSE, misjudged |-> FALSE]
  /\ clientUsed = [sockets |-> 0, frames |-> 0, windows |-> 0, gates |-> 0]

-----------------------------------------------------------------------------
(* The session's side of an attach.                                        *)

ReattachGreetingAllowed(c) == c.policy = "per-client" \/ ~c.turned

MaybeSendGreetingForClient(c, gen) ==
  IF ~c.connected \/ ~c.ready \/ gen # c.gen \/ c.greeted = gen THEN c
  ELSE [c EXCEPT !.greeted = gen, !.greetings = @ + 1]

RunClientAttachPolicy(c, gen) ==
  CASE c.state = "ACTIVE" ->
         IF ReattachGreetingAllowed(c) THEN MaybeSendGreetingForClient(c, gen)
         ELSE [c EXCEPT !.excused = TRUE]
    [] c.state = "UPSTREAM_LOST" -> [c EXCEPT !.state = "RECONNECTING", !.excused = TRUE]
    [] OTHER -> [c EXCEPT !.excused = @ \/ c.state # "CONNECTING"]

\* What the model, the tools or the host gets of connection k: only the attached
\* client may speak, and only after its session.config (history).  Early frames of
\* the client attached at close() are still handed on when the memory is restored.
Dispatch(c, k) ==
  [c EXCEPT !.strayed = @ \/ (c.state # "CLOSED" /\ k # c.slot) \/ ~c.connected \/ ~c.ready]

Bootstrap(c, gen) ==
  IF ~c.connected \/ gen # c.gen THEN c
  ELSE LET y == [c EXCEPT !.ready = TRUE, !.pendingJson = <<>>]
           z == FoldLeft(Dispatch, y, c.pendingJson)
       IN IF z.hostGate THEN [z EXCEPT !.excused = TRUE] ELSE RunClientAttachPolicy(z, gen)

GreetAfterSetup(c, gen) ==
  IF c.hostGate \/ ~ReattachGreetingAllowed(c) THEN [c EXCEPT !.excused = TRUE]
  ELSE MaybeSendGreetingForClient(c, gen)

Run(c, then) ==
  IF then.greet THEN GreetAfterSetup(c, then.gen) ELSE Bootstrap(c, then.gen)

RunOrWait(c, then) ==
  IF c.restored THEN Run(c, then) ELSE [c EXCEPT !.thens = Append(@, then)]

HandleClientConnected(c) ==
  RunOrWait([c EXCEPT !.connected = TRUE, !.ready = FALSE, !.gen = @ + 1,
                      !.excused = FALSE, !.greetings = 0],
            [gen |-> c.gen + 1, greet |-> FALSE])

HandleClientDisconnected(c) ==
  [c EXCEPT !.connected = FALSE, !.ready = FALSE, !.pendingJson = <<>>,
            !.gen = @ + 1]

HandleJsonFromClient(c, k, rtc) ==
  IF ~c.ready /\ ~rtc
  THEN IF Len(c.pendingJson) >= MaxPendingJson THEN c
       ELSE [c EXCEPT !.pendingJson = Append(@, k)]
  ELSE IF rtc THEN c ELSE Dispatch(c, k)

\* AudioRouter: a frame reaches the model only through an ACTIVE session.
HandleAudioFromClient(c, k) ==
  IF c.state # "ACTIVE" \/ ~c.ready THEN c ELSE Dispatch(c, k)

-----------------------------------------------------------------------------
(* ClientTransport: one slot, judged before a connection is attached.      *)

CloseSocket(c, k) ==
  IF k = 0 \/ c.ws[k].phase # "open" THEN c ELSE [c EXCEPT !.ws[k].phase = "closing"]

\* Callbacks fire for a real client only: nothing of the session hears a verifier.
ReleaseIncumbent(c) ==
  LET y == [c EXCEPT !.slot = 0, !.ws[c.slot].hears = FALSE]
  IN IF c.ws[c.slot].role = "real" THEN HandleClientDisconnected(y) ELSE y

DetachIncumbent(c) == CloseSocket(ReleaseIncumbent(c), c.slot)

Attach(c, k) ==
  LET y == [c EXCEPT !.slot = k, !.ws[k].hears = TRUE]
  IN IF c.ws[k].role = "real" THEN HandleClientConnected(y) ELSE y

RejectBusy(c, k) == CloseSocket(c, k)

HandleClientConnection(c, k, takeover) ==
  LET y == IF c.slot # 0 /\ c.ws[c.slot].phase # "open" THEN ReleaseIncumbent(c) ELSE c
      challenger == y.ws[k].role = "real"
  IN IF y.slot = 0 THEN Attach(y, k)
     ELSE IF challenger /\ (takeover \/ y.ws[y.slot].role = "verify")
          THEN Attach(DetachIncumbent(y), k)
          ELSE RejectBusy(y, k)

\* AudioBuffer.push: the oldest frames go first.
Push(frames, frame) ==
  IF Len(frames) >= Capacity THEN Append(Tail(frames), frame) ELSE Append(frames, frame)

Capture(c, k) ==
  LET frame == [gated |-> c.gate, from |-> k]
  IN [c EXCEPT !.tags = Append(@, c.gate), !.frames = Push(@, frame)]

OnMessage(c, k, frame) ==
  IF c.slot # k \/ c.ws[k].role # "real" THEN c
  ELSE IF frame = "audio"
       THEN IF c.buffering THEN Capture(c, k) ELSE HandleAudioFromClient(c, k)
       ELSE HandleJsonFromClient(c, k, frame = "rtc")

\* Mutant: any socket that closes empties the slot.
OnCloseUnfenced(c, k) ==
  LET y == [c EXCEPT !.ws[k].phase = "closed", !.ws[k].hears = FALSE, !.ws[k].wire = <<>>]
  IN IF c.ws[k].role = "real" THEN HandleClientDisconnected([y EXCEPT !.slot = 0])
     ELSE [y EXCEPT !.slot = 0]

OnClose(c, k) ==
  LET y == [c EXCEPT !.ws[k].phase = "closed", !.ws[k].hears = FALSE, !.ws[k].wire = <<>>]
  IN IF c.slot # k THEN y
     ELSE IF c.ws[k].role = "real" THEN HandleClientDisconnected([y EXCEPT !.slot = 0])
          ELSE [y EXCEPT !.slot = 0]

-----------------------------------------------------------------------------
(* Capture of microphone frames while the upstream connection is away.     *)

StartBuffering(c) == [c EXCEPT !.buffering = TRUE, !.frames = <<>>]

DiscardBuffered(c) == [c EXCEPT !.buffering = FALSE, !.tags = <<>>, !.frames = <<>>]

GateActiveAtCapture(c, i) == i <= Len(c.tags) /\ c.tags[i]

\* stopInboundCapture() and the admission of what it returns.
DrainCapturedInboundFrames(c) ==
  [DiscardBuffered(c) EXCEPT
     !.misjudged = @ \/ /\ Len(c.tags) <= Capacity
                        /\ \E i \in DOMAIN c.frames : GateActiveAtCapture(c, i) # c.frames[i].gated]

HandleSetupComplete(c) ==
  LET y == [c EXCEPT !.state = "ACTIVE"]
  IN IF ~y.connected THEN y ELSE RunOrWait(y, [gen |-> y.gen, greet |-> TRUE])

MemoryRestored(c) == FoldLeft(Run, [c EXCEPT !.restored = TRUE, !.thens = <<>>], c.thens)

\* ClientTransport.stop(), from close(): no callback runs.
StopClient(c) ==
  LET y == [DiscardBuffered(c) EXCEPT !.state = "CLOSED", !.slot = 0] IN
  IF c.slot = 0 THEN y
  ELSE [CloseSocket(y, c.slot) EXCEPT !.ws[c.slot].hears = FALSE]

-----------------------------------------------------------------------------

ClientSpend(kind) ==
  /\ clientUsed.sockets + clientUsed.frames + clientUsed.windows + clientUsed.gates
       < MaxClientTotal
  /\ clientUsed' = [clientUsed EXCEPT ![kind] = @ + 1]

\* A browser connects; a probe is answered and closed and touches nothing.
Accept ==
  /\ clientUsed.sockets < MaxClientSockets /\ client.state # "CLOSED"
  /\ ClientSpend("sockets")
  /\ LET k == clientUsed.sockets + 1 IN
     \E role \in Roles, takeover \in BOOLEAN :
       client' = HandleClientConnection(
         [client EXCEPT !.ws[k] = [phase |-> "open", role |-> role, hears |-> FALSE,
                                   wire |-> <<>>]], k, takeover)

ClientSends ==
  /\ clientUsed.frames < MaxFrames /\ ClientSpend("frames")
  /\ \E k \in ClientSockets, frame \in {"audio", "json", "rtc"} :
       /\ client.ws[k].phase \in {"open", "closing"}
       /\ client' = [client EXCEPT !.ws[k].wire = Append(@, frame)]

\* A frame arrives; what a socket no listener hears receives is dropped.
ServerHears ==
  \E k \in ClientSockets :
    /\ client.ws[k].wire # <<>> /\ client.ws[k].phase \in {"open", "closing"}
    /\ LET y == [client EXCEPT !.ws[k].wire = Tail(@)] IN
       client' = IF y.ws[k].hears THEN OnMessage(y, k, Head(client.ws[k].wire)) ELSE y
    /\ UNCHANGED clientUsed

BrowserCloses ==
  /\ \E k \in ClientSockets :
       /\ client.ws[k].phase = "open"
       /\ client' = CloseSocket(client, k)
  /\ UNCHANGED clientUsed

\* closeClientConnection()
CloseClient ==
  /\ client.slot # 0 /\ client.ws[client.slot].phase = "open"
  /\ client' = CloseSocket(client, client.slot)
  /\ UNCHANGED clientUsed

ClientCloseEvent ==
  /\ \E k \in ClientSockets :
       /\ client.ws[k].phase = "closing"
       /\ client' = IF client.state = "CLOSED"
                    THEN [client EXCEPT !.ws[k].phase = "closed", !.ws[k].wire = <<>>]
                    ELSE OnClose(client, k)
  /\ UNCHANGED clientUsed

ClientSetupCompletes ==
  /\ client.state = "CONNECTING"
  /\ client' = HandleSetupComplete(client)
  /\ UNCHANGED clientUsed

MemoryLoads ==
  /\ ~client.restored
  /\ client' = MemoryRestored(client)
  /\ UNCHANGED clientUsed

\* A lost connection, a GoAway or a transfer starts to capture the microphone.
ConnectionLeaves ==
  /\ client.state = "ACTIVE" /\ clientUsed.windows < MaxWindows /\ ClientSpend("windows")
  /\ \E state \in {"RECONNECTING", "TRANSFERRING"} :
       client' = StartBuffering([client EXCEPT !.state = state])

\* A redial by the host captures nothing.
ConnectionReturns ==
  /\ client.state \in {"RECONNECTING", "TRANSFERRING"}
  /\ client' = [(IF client.buffering THEN DrainCapturedInboundFrames(client) ELSE client)
                  EXCEPT !.state = "ACTIVE"]
  /\ UNCHANGED clientUsed

ConnectionParks ==
  /\ client.state = "RECONNECTING"
  /\ client' = [DiscardBuffered(client) EXCEPT !.state = "UPSTREAM_LOST"]
  /\ UNCHANGED clientUsed

TurnEnds ==
  /\ client.state = "ACTIVE" /\ ~client.turned /\ client.policy = "until-first-turn"
  /\ client' = [client EXCEPT !.turned = TRUE]
  /\ UNCHANGED clientUsed

GateChanges ==
  /\ clientUsed.gates < MaxHostGates /\ ClientSpend("gates")
  /\ \/ client' = [client EXCEPT !.gate = ~@]
     \/ client' = [client EXCEPT !.hostGate = ~@]

SessionCloses ==
  /\ client.state # "CLOSED"
  /\ client' = StopClient(client)
  /\ UNCHANGED clientUsed

ClientNext ==
  \/ Accept \/ ClientSends \/ ServerHears \/ BrowserCloses \/ CloseClient \/ ClientCloseEvent
  \/ ClientSetupCompletes \/ MemoryLoads \/ ConnectionLeaves \/ ConnectionReturns
  \/ ConnectionParks \/ TurnEnds \/ GateChanges \/ SessionCloses

ClientSpec == ClientInit /\ [][ClientNext]_clientVars

-----------------------------------------------------------------------------

\* What the session is handed is the attached client's, and comes after the
\* session.config that client was sent: no early frame of a client that left, no
\* frame of a superseded, preempted or closing socket (ClientTransport.attach and
\* VoiceSession.handleJsonFromClient).
InputIsTheAttachedClients == ~client.strayed

\* The session believes a client is attached exactly while a real client holds the
\* slot, whatever the order in which challengers connect and old sockets close.
SessionKnowsItsClient ==
  client.state # "CLOSED" =>
    (client.connected <=> client.slot # 0 /\ client.ws[client.slot].role = "real")

\* A client that stays attached to a session that is up has been greeted, once,
\* unless the host gate, the policy or the state of the session at its attach said
\* otherwise: the setup and the attach may both come first, and may both wait for
\* the memory (VoiceSession.handleSetupComplete, runClientAttachPolicy).
GreetedOnce ==
  /\ client.greetings <= 1
  /\ client.state = "ACTIVE" /\ client.connected /\ client.restored
       => client.greetings = 1 \/ client.excused

\* "drain the captured inbound frames WITH their ingress tags": a frame is admitted
\* or discarded by the gate at its own capture (ClientTransport.stopInboundCapture),
\* unless the buffer overflowed, which drops frames and keeps their tags.
TagsAreTheFrames == ~client.misjudged

\* The session is told, greeted and fed by the client that is attached and no other.
OneClientAtATime ==
  InputIsTheAttachedClients /\ SessionKnowsItsClient /\ GreetedOnce /\ TagsAreTheFrames
=============================================================================
