# Formal models of the bodhi realtime agent

TLA+ models of the framework under `src/src/` and of the relays under
`src/examples/lib/`: a voice session that connects a client to a realtime LLM
provider, keeps that connection alive, takes and gives turns, routes tool calls,
hosts background agents and delivers their notifications. TLC checks the modules on
small instances; TLAPS proves the properties that matter most for every value of the
constants. File names below are relative to `src/src/` unless they begin with
`examples/` or `docs/`.

## 1. Inventory

### How the parts interact

```
 client <-> ClientTransport <-> VoiceSession <-> LLMTransport (Gemini, OpenAI, ...) <-> provider
               |                   |   |   \
   AudioRouter, VAD,  SessionManager   |    +-- DictationController, DialGenerationFence
   retainer, shadow   TransportReconnector        (wrap transport.sendToolResult)
   STT, STT and TTS   HostRecoveryController, UpstreamRecoveryPolicy, ActiveSilenceRecovery
   providers          TurnManager, playback gates, transcripts, history, post-session
                                   |
              actor runtime (one FIFO mailbox per actor, one event loop)
      SessionActor -> BackgroundAgentHostActor        ToolRouterActor -> SubagentSupervisorActor
      NotificationSink -> NotificationActor -> TransportActor <- tool results -'
              or the legacy runtime
      ToolCallRouter -> ToolExecutor, AgentRouter -> SubagentSession, BackgroundNotificationQueue
```

Everything runs on one event loop. Concurrency is therefore of three kinds:
promises that settle between any two steps, timers, and callbacks that call back
into the object that is calling them. A mailbox whose handler does not await is
drained before the next timer or provider callback; one whose handler awaits is
not, and that is where most orders nobody wrote a test for come from.

### Components

| Component | State | Operations | Hard behaviour | What makes it correct |
|---|---|---|---|---|
| `SessionActor` | phase, attempt, timers | ready, error, closed, transfer outcome, close, timer | timers against state; two loss policies | one timer, only while reconnecting; budget; a reconnect ends |
| `BackgroundAgentHostActor` | per agent started / stopped / failed / aborted | fan-out handlers, `onStop` | awaited user code; two stop loops over one list | at shutdown every agent is stopped |
| `NotificationSink`, `NotificationActor`, `TransportActor` | debounce, gate, hold, queue, subscribers | publish, turn signals, hold, subscribe, write | two copies of one fact; the hold is itself a message; restart | nothing written under a hold; latest wins; nothing lost or doubled |
| `ActorRuntime`, `Supervisor`, orchestrator | mailboxes, registry, restart counts | send, start, stop, supervise | messages to stopped actors, restarts mid-mailbox | serial handling; order of start and stop |
| `ToolRouterActor`, `SubagentSupervisorActor` | workflow map | call, cancel, spawn, completion | head-of-line awaits; cancel racing spawn and result | one answer per call; cancelled work stops |
| `DialGenerationFence` | stamps, awaited calls, boundary | stamp, forget, result, boundary | results that outlive their connection | no result to a session that did not issue its call |
| `DictationController` | mode, withheld results and turns | enter, exit, send | awaits in the middle of a flip; rollback | silence while dictating; withheld results come out |
| `TransportReconnector`, `HostRecoveryController`, `SessionManager` | window, backoff, attempt token, deadline, epochs, hold, session state | loss, GOAWAY, rotation, takeover, park, transfer, close | late dials, takeovers, re-entrant subscribers | one redial driver; every reconnect ends; legal transitions |
| `UpstreamRecoveryPolicy`, `ActiveSilenceRecovery` | ladder, backoff, episode, evidence | tick, loss, turn, client and retry events | six parties that redial one session | a redial has one owner; a parked session is redialed |
| Response watchdog | timer, retained utterance | arm, disarm, fire, replay | fires between a turn, a tool and a loss | replays no turn that was answered |
| Turns, playback, TTS, greeting | turn ids, playback ids, deferral, hold on the microphone | audio, ended, interrupt, finalise | late callbacks of an older turn | a turn completes once, in order; cut speech is silent |
| `GeminiLiveTransport` | session, dial generation, credential timer, ledger, buffers | connect, disconnect, reconnect, abort, send | two awaited halves of a reconnect; observers that call back | a retired dial never lands, a report names its attempt |
| OpenAI, Qwen and text transports | response state, waiters, queues, sockets | responses, cancels, updates, quiesce, reconnect | a replaced socket's late events, waiters of two kinds | one response at a time; nothing of one session in another |
| STT and TTS providers | connections, request contexts, timers | start, stop, feed, rotate, reconnect, synthesize, cancel | overtaken dials and requests, one timer for two failures | no audio stranded; callbacks under their request |
| Client transports, multi-user sessions | clients, buffers, guards, limits | attach, takeover, detach, validate, set up, tear down, stop | replaced clients' late events, a socket that closes under an await | one client; every place given out is given back |
| `SubagentSession`, `AgentRouter`, `ToolExecutor`, `ToolCallRouter` | session phase, pending calls | ask, answer, cancel, timeout, transfer | timeouts racing answers, transfer in a batch | one outcome per run |
| Transcripts, context, history writer, memory | queues of items, checkpoint | write, flush, drain, distil | failing stores, overlapping flushes | order, nothing dropped on close |
| Session inputs | chain of typed, dictated and injected turns | send, correct, flip, replay, update | chain against losses and flips | order of inputs; cancelled answers |
| Speech front end | segments, retained utterance, evidence, comparisons | frame, timer, route, dictate | silence timers against frames in flight | a frame is heard by one; no voice lost |
| Post-session pipeline | runs, processors, slot, memory file | dispatch, settle, time out, drain | a shared slot, overlapping writers | one report per run, the slot comes back |
| Latency tracker | ring of facts, open sample | publish, drain | facts dropped before the join | a sample is of its own turn |
| Relays and demos (`examples/lib`) | tasks, leases, threads, questions, calls | poll, ack, result, crash, restart | leases against crashes, overlapping runs | a task is done once and accounted for |
| Telephony | calls, streams | dial, answer, status, end | statuses out of order | calls kept apart |
| Behaviors, wire formats, metrics, configuration | none or little | | | |

`PROJECT.json` lists every component with its status, and the hazards of the
code, each at its line with the properties that would notice it.

## 2. The modules

| Module | Models | Built on |
|---|---|---|
| `SessionActor` | `runtime/actors/session-actor.ts`, the mailbox | |
| `BackgroundAgentHost` | `background-agent-host-actor.ts`, `RuntimeOrchestrator.stop` | extends `SessionActor` |
| `Notifications` | hold, sink, `NotificationActor`, `TransportActor`, supervised restart | |
| `ActorScheduling` | mailboxes, supervisor, orchestrator, `MainAgentActor`, `ClientGatewayActor` | |
| `ToolCallContract` | abstract: what the provider may rely on for its calls | |
| `ToolResultGate` | `DictationController` and `DialGenerationFence` around the transport | refines `ToolCallContract` |
| `ToolWorkflow` | router, supervisor and transport actors in front of the gate | extends and refines `ToolResultGate` |
| `ToolCalls`, `SubagentSessions` | the legacy runtime: router, executor, background queue; hand-offs, questions, interaction modes, persistent instances | |
| `UpstreamRecovery` | reconnector, host recovery, session manager, Gemini dials, start, transfer, close | |
| `UpstreamRecoveryPolicy` | `upstream-recovery-policy.ts`, `active-silence-recovery.ts` | an abstraction of the session's recovery |
| `TurnTaking` | turns, playback gates, completion arbiter, TTS pipeline, barge-in, greeting, server turns | |
| `ResponseWatchdog` | watchdog, evidence ledger, retained utterance, replay, greeting gate | |
| `GeminiConnection`, `GeminiSending` | the Gemini transport: connections; what it sends and puts aside | |
| `OpenAIRealtime`, `OtherTransports` | the OpenAI transport; the text and the Qwen transport | |
| `TranscribeRotation`, `StreamingTranscription`, `SpeechSynthesis` | STT with rotating sessions; whisper and Scribe; Cartesia, ElevenLabs, Hume | |
| `ClientConnections`, `HostedConnections` | single-client transport with attach and capture; multi-client transport with the session manager | |
| `SessionInputs`, `SessionHistory`, `UserSpeech`, `TurnLatency`, `PostSession` | inputs on the chain; transcripts, context and writer; microphone to segment; latency samples; post-session runs | |
| `OpenclawRuns`, `SutandoRelay`, `Interviews`, `ClaudeCodeRuns`, `PhoneCalls` | the demos' relays and the telephone bridges | |
| `MC*` | TLC instances, each of components that are checked with each other | |
| `*Proofs` | theorems | the modules they name, TLAPS |

Conventions. A component whose code runs synchronously through several objects is one
record variable, and its handlers are functions from the record to the record after
them; a step applies them in the order of the calls. A component that is mailboxes and
promises has a variable per field. In both a step is a stretch of code between two
awaits. A variable whose comment says *history* is read by properties only.

**SessionActor.** `sessionMail` is the mailbox, one `Handle...` action per
envelope type. Handlers never await, so `FireTimer` needs an empty mailbox. Timers
are counted, because the code pushes them on a list; `attempt` travels through
the timeout envelope as in the code. `upstreamHeld` is chosen once.

**BackgroundAgentHost.** Two threads run the host's loops: the mailbox, and the
runtime, which removes the host from its map and calls `onStop` on it even while
the mailbox awaits a hook. `at[t]` is the hook a thread awaits. User hooks may take
arbitrarily long, and may reject; `onStart` is not assumed to settle.

**Notifications.** The session's calls are actions at any time, as long as their
envelopes fit (`MaxMail`), so that a hold may stand behind notifications under way;
`underWay` is the last of those. `wire` is what was written. A throwing write loses its envelope and restarts the
`TransportActor` within the supervisor's limit.

**ActorScheduling.** Actors are numbered in their order of start. A handler is
suspended at its awaits, a failure is decided by the supervisor at once and carried out
in later steps, and time passes in ticks of the restart window. The desk's transfers
await `onExit` and `onEnter`; the host's `onAgentTransfer` hook runs after the answer.

**ToolResultGate.** `mode` is the controller's internal mode, `flip` where its
asynchronous transition stands, `held` the withheld results, `stamps`, `awaited`
and `boundaryGen` the fence, `dialGen` and `connected` the transport. The boundary is
marked while the old connection is still current. The environment issues, withdraws and
answers calls and ends turns. **ToolWorkflow** replaces the environment's free choice of
results by the code that produces them: the router's mailbox awaits inline and transfer
calls one after another (`awaiting`); background executions are awaited by nobody.

**UpstreamRecovery.** The code of four files runs synchronously through each
other's callbacks. Where it publishes an event whose subscribers may call the
session back, the remainder is a frame on `stack`: the host may call in, and only
then does the frame go on. Timers and promises settle only with an empty stack.

**UpstreamRecoveryPolicy** is about *when* to redial, where `UpstreamRecovery` is
about *how*. Six parties decide: the ladder's timer, the health tick, the idle park,
a client that attaches, the host, and active silence with its own timer, budget and
retry command. A failed dial publishes its events, then parks the session, then rejects
`activated`, and each of the three reaches the policy. Time is counted in health-tick
periods; `Elapse` lets one pass once every due timer has fired. The session under it is
reduced to its state, its socket, the dial under way and the dial a park superseded.

**TurnTaking** runs one of several `Modes`: who ends a turn (the provider or the
player), who owns an interrupt, native audio or an external TTS. A reply is its server
turn, the pieces of audio and the ids the gates compare. **ResponseWatchdog** counts
what is armed, what was fired and what was kept of the last utterance; the host's
recovery is one of its environment's answers.

**GeminiConnection** gives each dial its number; `fence` is `dialGen`. The ledger's
observers may dial, disconnect or abort from inside any report: a step chooses at most
one such reaction (`react`), which runs where its report is made. `Drain` is the
microtasks after a step. **OpenAIRealtime** keeps a socket's listeners after it was
replaced, so that its late events are delivered. **GeminiSending** takes dials for
atomic, and **TurnTaking** decides which server turn is open.

**TranscribeRotation** and **StreamingTranscription** give each connection or socket a
number, and the object a slot for the one that serves; whoever else is alive still
delivers its events. **SpeechSynthesis** has the three providers as three values of one
field, with the means of each: a numbered context and the map from it to the request, a
replaced socket, an id that the service may echo or not. What the service was sent is a set
of jobs, each with its socket, its label and the request whose text it really is; the gate
in front (`live`) moves before a cancel, as `voice-session.ts` does it.

**HostedConnections.** `live` are the connections with their place in the pipeline of
validation, setup and announcement, the resources they own, and what else is pending
for them; `books` is the session manager's count. **ClientConnections** has the slot,
the queues and the bootstrap of the single-client server.

The remaining modules state at their head what a number or a name in them stands for,
and what is the environment.

## 3. What the runs check

| Run | Instance | Question |
|---|---|---|
| `actors` (`MCActors`) | `SessionActor` with 2 attempts and 4 events over 2 hosted agents, one cancelled on transfer; 2 notifications, 2 envelopes at a time, 2 throwing writes, 1 restart; 641 000 states | Are all agents stopped when the runtime is down? Is there ever a second timer, a loss that ends a held session, a give-up too early? Does a hold let nothing out that was published after it? Is nothing lost, doubled or reordered? Does it all end? |
| `session` (`MCSession`) | both loss policies, with and without credentials, 2 attempts, 2 recoveries, 4 events; the gate with 2 calls, 4 dials, 1 flip; a guarded server of 2 connections and one session; 401 000 | One driver, holds and budgets exact, late dials dropped, legal transitions; results gated; every place given out is given back; every wait ends |
| `tool_workflow` (`ToolWorkflow`) | a transfer, a background and a pending-message call, 2 dials, 1 flip; 509 000 | Do the three actors implement the caller the gate is specified for, is every call answered that was not cancelled, do cancelled tasks stop? |
| `upstream_recovery_policy` (`UpstreamRecoveryPolicy`) | budget 2, cooldown 2, fatal backoff 2, 1 retry command, 2 disturbances; 681 000 | Has a redial one owner, does nothing dial inside a fatal backoff, is a retry answered once, does something end every wait, is a parked session redialed? |
| `turn_taking` (`MCTurnTaking`) | every mode of who ends a turn and who owns an interrupt; two replies of two pieces, one segment, a greeting, an interrupt, a loss; the watchdog with 3 utterances and 3 events; 527 000 | Do turns end once and in order, is a cut speech silent, is every user turn that waits watched, does the floor become free? |
| `providers` (`MCProviders`) | each transport and provider against a server that answers late, refuses, closes or is silent, and an owner that calls back; the three synthesis providers over 3 requests and 2 sockets; 302 000 | One response at a time and no waiter of another; no retired dial lands; no audio is stranded; nothing is dialed after a stop; every caller returns |
| `session_parts` (`MCSessionParts`) | eight parts of a session, each alone; 2 568 000 | See the header of each part's property |
| `workers` (`MCWorkers`) | what works beside a conversation, each alone; 1 167 000 | See the header of each part's property |
| `background_agents_late_start` | as in `actors` | *Fails*: an agent is started after the host was stopped. |
| `stale_answer_written` | 1 call, 3 dials | *Fails*: a withdrawn call's late result is written to the next server session. |
| `closed_leaks_connection` | transfer against close | *Fails*: a closed, torn-down session holds a live connection. |
| `silence_without_end` | as in `upstream_recovery_policy` | *Fails*: more redials than an episode allows, with no word of the model between them. |

The components in an `MC` module share no state unless one extends the other, so
their product says nothing that the parts do not; the variable `moves` picks the
one that a behaviour moves, and the state space is the sum of theirs. Parts that
do interact are composed in one module (`ToolWorkflow` over `ToolResultGate`,
`BackgroundAgentHost` over `SessionActor`).

**Several questions in one property.** A property whose comment has several
paragraphs is a conjunction of the named formulas above it:
`LossesFollowThePolicy` (one timer, a held session survives a loss, a give-up is
earned), `ResultsAreGated` (the answer to `hasOpenToolCalls` is exact, silence
outside agent mode, the contract), `DialsAreOwned`, `ActorsRecover`, `WaitsEnd`,
`WaitersReturn`. TLC reports the part that fails.

**Bounds.** Events, publications, failures, dials and flips are bounded in the
guards, by constants named `Max...`, and no cfg has a state constraint. Where that is
still too much for one search, an `MC` module also narrows the steps of a part in its own
next-state relation, or its initial states, and says so in a comment: sends are checked
without a held guard, and with one where every send arrives; microphone frames in agent
mode, and without external speech; samples with one source, with two, and with a reset;
interviews in the order of their calls; OpenClaw, the relay and Claude Code with few calls
and every mishap, and with more calls and fewer mishaps. What lies between
two such settings is not searched, and the theorems, where there are any, hold for
all of it. Four events for `SessionActor` are a loss, its recovery, a second loss and a give-up.
Two agents suffice for every relative position of two loops over a list. Two
notifications are one under way and one after it, of which the second may replace the first. Two recoveries
and four events allow a recovery superseded by another, by a park or by a close, with
a loss before it; five events find nothing more. Four dials put a boundary
between two ordinary reconnects. In `UpstreamRecoveryPolicy` two disturbances are what
begins something: a close, a fatal failure, a watchdog, a host call, an attach, a
turn, a tool, a dictation; its end is free, and so are ticks, failing dials, speech
and microphone frames, so that whole episodes of redials fit. The durations keep the
order of the code's defaults where the code compares them and are otherwise as small
as possible. In `TurnTaking` two replies of two pieces let every callback of one
arrive in the other; three utterances of the watchdog are one that was replayed, one
that is retained and one being spoken. Two connections against a limit of one make
each wait for, or be refused because of, the other. Two tasks, two calls, two runs or
three sockets are in each of the parts what lets one overtake, replace or outlive
another. Ten facts in a ring of two are enough for two samples, and for a sample after
the ring overflowed; three synthesis requests for one that is overtaken, one that is
cancelled and one that speaks; three calls of Claude Code for two threads that completed
and one that resumes.

**Deadlock** is not checked where the modelled system may stop: a bounded number
of events, a shut-down runtime, a closed session. `tool_workflow` and
`upstream_recovery_policy` check it.

**Fairness.** Weak fairness of handling a mailbox, of armed timers firing and of a
restart's own steps: the event loop does these without anyone's help. Weak fairness of
an agent's `onStart` and `onStop` settling where shutdown and close are claimed to
end, since the host awaits them without a deadline: a hook that hangs hangs the host,
and the properties say nothing of it. In `ToolWorkflow` inline tools and transfers
settle (the executor bounds them), background executions need not. In
`UpstreamRecovery` a dial settles (the transport bounds it) but the close of an
old socket and user finalizers may hang, and still every reconnect ends. In
`UpstreamRecoveryPolicy` timers fire, periods pass, and a superseded dial settles; the
dial under way need not. In `HostedConnections` the application's promises settle and
a closing socket closes within the 30 s that `ws` allows it. The OpenAI transport's
timers fire and its own continuations run; a server answers nothing fairly, except that
the TCP connection delivers what was sent before its close. A provider of speech
answers a flush (`DoneArrives`), for which the code has no timer. No external event
is fair.

## 4. What is proved

All theorems hold for every value of the constants under the named assumptions
of the modules (bounds are naturals, sets are sets, a place-holder is none of them).

- `ActorProofs`: `IInv` adds to the properties that a pending timeout envelope carries
  the current attempt and excludes an armed timer (`PendingTimeout`), that triggered
  generations are the counted attempts (`AttemptsCounted`), and that nothing was announced
  before the first activation. The budget is not inductive without the first two.
  `LossPolicyKept` is the property of the run. For the host of the background agents
  `HostInv` extends it with the progress of the two loops: everything before the agent a
  loop stands at is done. From it: when the runtime is down every agent is aborted and
  stopped, for any number of agents. For the telephone, what a bridge holds belongs to the
  call it admitted, no connection that is still to be used is forgotten, and the open stream
  of a call that goes on is the one held (`HumanSound`, `InboundSound`): a late event of an
  earlier call is harmless only because of the first. For the actors' runtime, an envelope
  is in the mailbox or being handled, a restart that the policy's window still sees is among
  its stamps, and every transfer asked for is queued, under way, completed or failed
  (`ActorsInv`). For the Sutando relay, `TaskSound` and `CallSound` say for each task where the
  ledger, the relay's table, the Mac and the caller can stand together: "executed once" is not
  inductive without knowing that a task still to be leased was never acknowledged, nor "a
  posted result has one fate" without who still waits for it (`DelegationsAccounted`). For
  the interviews, each anchor has as many answers as questions but the one that waits, the
  call that decides is the head of the lock's queue, and while no two calls crossed the one
  there is knows the question that was heard (`InterviewSound`): "an answer is filed under the
  question heard" is not inductive without the last (`InterviewKeepsOrder`).
- `NotificationsProofs`: the sink's debounce and the actor's gate differ exactly by
  what is in the mailbox (`GateInv`), and while a hold is engaged the gate is shut once
  what stands in the mailbox is handled, and all that is still to be delivered was published
  before the hold (`HoldInv`). From it: agreement, and a hold that lets nothing new out.
  Mailbox, queue, the transport's mail and the wire are one line in which a notification
  stands once and the ids of a key rise, but for the queue, where a key is held once, in its
  latest words (`QueueInv`); that replacing keeps one entry per key takes a least
  counterexample, not an induction. From it: nothing is lost or written twice, and none after
  a newer one of its key (`QueueKeepsFaith`).
- `ToolResultGateProofs`: `GateIInv` relates stamps to the connection a call was issued
  on, and the boundary to the current dial. From it: the gate refines
  `ToolCallContract`, its answer to `hasOpenToolCalls` is exact, and it is quiet outside
  agent mode.
- `ToolWorkflowProofs`: every call is in exactly one place (`Placed`), a cancel stands
  behind what it cancels (`CancelComes`). From it: the workflow implements the gate's
  specification, hence the contract; cancelled tasks are stopped.
- `SessionProofs`: the stage of a hosted connection says what it holds (`HostConnSound`):
  nothing, its place and resources, or nothing any more, with exactly one release; and
  what `stop()` has not waited for is not under way (`HostStopSound`). Exactly-once release
  is not inductive without the socket's state, since a close may come in every stage.
  `RecInv` does the same for recovery, over the session's record *and* the stack of frames
  that one event runs through: who owns the attempt that is counted (`Attempts`, `Recoveries`,
  `Driven`), which epochs are begun, promised or overtaken (`Starts`, `Generations`), and what
  is buffered or held meanwhile (`Buffers`, `Holds`, `Budget`). "At most one driver" is not
  inductive without the owner of the top frame, nor the landing of a dial without the epochs
  that were promised. It assumes `~Reentrant`: with `Reentrant = TRUE` the books are not kept
  (section 5, `core/transport-reconnector.ts:490`), and the runs keep it `FALSE` too. From it:
  `RecoveryBooksAreKept` and, since every other step is `Steady` (it installs no connection
  and activates nothing), `DialsLandWhereTheyBegan`.
- `TurnTakingProofs`: the utterances that were replayed are older than the open segment
  and than any to come, and the stage remembers what became of the retained one
  (`WatchLadder`); a reconnect under way with a debt is the watchdog's own (`Elicited`). The first
  makes "at most once each way" inductive, the second carries the debt over a reconnect.
  Of the turns themselves: the current one is the last born, a captured or typed turn has
  been born, a cancelled text is older than the current request (`TurnsInductive`), so that a
  late end of a turn ends no other. Of the user's speech (`MicInv`): what is cut of a segment
  and what was heard of it agree from their ends backwards (`EndAlike`), which is what survives
  a buffer that drops its oldest frame; the dictation and the transition buffer are each in
  order behind the frame at which the dictation began; and in the middle of a handler only
  the detector may be ahead of the ledger. `UserIsBooked` follows.
- `ProvidersProofs`: a streaming provider is driven by a timer, by a socket that can still
  report, or it is settled (`StrSound`, `Driven`); a rotating provider's connections serve,
  follow or close, and what waits belongs to the run that serves. For the OpenAI transport
  (`OaiSound`) an event on a wire names the response created last before it; a response that
  is not done either goes on at the provider or has its end on the wire before another is
  created; and a wait that is not over is for the transport's own unfinished response. All of
  it holds until a replaced socket speaks (`stale`), as the property says.
- `SessionPartsProofs`: a subagent that waits is in the talk, holding the floor or queued
  for it (`TalkInv`), and a key's promise, its factory and its instance exclude each other
  (`KeeperInv`); who is next in the talk is the least index left, which `LeastIn` supplies.
  A tool call that was answered early and is over has exactly one note of its outcome,
  waiting, sent or dropped, and any other call has none (`Once`, `Never` in `CallInv`):
  counting notes is not inductive without saying which queue entries they are.
  The history (`HistoryKept`): a reserved item has a watch until it is committed, the log
  ascends and ends before what is pending, and an item behind the checkpoint of a recorded
  session was handed to the writer or passed by an extraction, never both (`Handed`). The inputs
  (`InputsOrdered`): the direct inputs that wait are younger than those sent, held or
  recorded, what is held for agent mode is younger than what was sent, and a declaration that
  is pending and the newest is the one that stands. The Gemini send paths (`SendsOrdered`): what
  waits in the buffer ascends and is younger than what went out, what the guard of the
  dictation put aside excepted, and a buffer that is not empty has a session that winds down.

**Only model-checked:** every liveness property (liveness and facts about enabledness
are out of the prover's reach); `OneClientAtATime`, `SamplesAreSound`, `TransportsKeepResults`,
`PostSessionIsBooked`, `DelegationsAreAnswered` and `RelaysKeepTheThread`, whose models fold,
filter or count over sequences, so that a step needs an induction over data;
`DialsKeepTheirOwn`, whose model passes handlers to operators of a higher order; and, so far,
`DialsAreOwned` and `CallbacksNameTheirRequest`.

The provers expand a nested `@` in an `EXCEPT` wrongly, so no handler uses one: an update of
a part of a field names the old value.

## 5. Disagreements between code and text

Each of the four failing runs is a finding in `PROJECT.json`. These others were met on
the way and have no run; the models do what the code does, and the properties leave
these cases out by name.

Lifecycle and notifications:

- `docs/advanced/background-agents.md:25` says `onStop` is "always invoked once"; the
  host marks an agent stopped only after `onStop` settled, so two overlapping stops call
  it twice (`runtime/actors/background-agent-host-actor.ts:271`).
- `agent/background-agent.ts:103` says the signal "aborts when the session closes
  (always)"; three ways to `closed` in `session-actor.ts` (fatal error, failed transfer,
  spent budget) fan nothing out, so it aborts only at shutdown.
- `agent/background-agent.ts:110` calls the session view live; its cached phase is never
  `reconnecting`.
- `core/notification-sink.ts:28` says holds are "legacy orchestration only: the actor
  back-end throws"; it sends `notification.set_held`.
- `agent.transfer_completed` and `agent.transfer_failed` are both sent for one transfer when
  the host's `onAgentTransfer` hook throws (`runtime/actors/main-agent-actor.ts:139`); the
  session's actor then takes the transfer for failed and closes
  (`runtime/actors/session-actor.ts:246`).
- A supervised restart does not await the actor it restarts; `stopAll` may leave a mailbox
  draining, or be followed by the `onStart` of a restart that was under way. A failing
  `onEnter` is reported as `transfer_failed` though the agent has moved.

Recovery:

- `core/host-recovery.ts:203` describes results that survive a resumed connection; a
  result sent while the transport is between connections is dropped
  (`transport/gemini-live-transport.ts:1796`).
- `core/host-recovery.ts:275` says cancelled calls get no result; an awaited inline call
  that was cancelled still sends one (`tool-router-actor.ts:146`).
- `core/dictation-controller.ts:84` says withheld results are "flushed in order on
  re-entry"; the rollback of a failed flip (line 338) re-enters agent mode without a flush.
- A subscriber of the RECONNECTING transition that recovers from inside the notification
  starts a second driver (`core/transport-reconnector.ts:490`). With `Reentrant = TRUE` TLC
  finds `OneDriver` violated; the runs keep it `FALSE`.
- An idle episode that active silence owns is waiting for the model, without a timer, and
  the ladder, the tick and the attach gate stand down for it
  (`core/upstream-recovery-policy.ts:494`, `core/active-silence-recovery.ts:303`). If the session is then
  parked without a close of the connection the episode adopted, nothing redials it: the
  response watchdog parks with the socket open (`core/transport-reconnector.ts:483`), or the
  dial of a host's `recoverUpstream` fails. `MovingIsRedialed` without `Moves` is violated
  this way.
- `core/upstream-recovery-policy.ts:21` says that a park the host asked for is left alone.
  A retry of active silence redials it, and a park of a session that was parked already is
  not published, so that the ladder goes on (`core/transport-reconnector.ts:701`).
- A retry timer that fires before the clock has reached its deadline is not armed again
  (`core/active-silence-recovery.ts:314`); the ladder's timer is
  (`core/upstream-recovery-policy.ts:491`). Timers that fire early are not modelled.
- A retry command parked by a fatal backoff stays parked when the wait ends by another way
  than its own attempt: repeats of it get no answer, and the next attempt, whatever started
  it, acknowledges it (`core/active-silence-recovery.ts:715`).
- A callback that throws after `transitionTo('ACTIVE')` is taken for a failed attempt
  (`core/transport-reconnector.ts:827`); steps that throw are not modelled.

Transports and providers:

- The text transport sends a request with an unanswered tool call after a cancel
  (`transport/text-llm-transport.ts:561`), does not count synchronous rounds towards
  `maxToolRounds`, and stays `closing` when it is connected again.
- The Qwen transport holds a `when_idle` result past a cancelled response, takes a late
  `session.updated` for the acknowledgement of the next update, and never clears the
  waiters of a cancelled response.
- The Gemini transport re-queues what it could not send without its order, drops buffered
  text at a flush, and sends a silent context as a turn when it was put aside first.
- `types/tts.ts` says every callback "MUST carry the same requestId". ElevenLabs messages carry
  no id: a late one of an overtaken request, or of a socket that a cancel replaced, is
  reported under the current request, whose end it may take away (`_handleMessage`). Hume
  does the same when the service echoes no id (`hume-tts-provider.ts:237`).
  `CallbacksNameTheirRequest` asks less of both, and `FlushedIsDone` nothing for their
  overtaken requests.
- ElevenLabs drops a request's text and its flush under backpressure, and every provider the
  text that comes while it connects.

Subagents, inputs, history:

- A button pressed for an earlier question answers a later one; with `maxInputRetries`
  above 1 a run that times out never aborts and stays in its waiting state.
- Calls behind `transfer_to_agent` in one batch get no answer; a cancel after a transfer
  looks for the call in the new executor; a call without a pending message fails in silence.
- `memory-distiller.ts` promises a distillation "every `turnFrequency` turns"; turns that end
  while one is under way are not counted.
- Two overlapping declarations that are rejected leave the first one's tools listed; a
  correction that a mode flip overtakes is sent after the dictation; the replay behind a
  hold is skipped for good.
- `dictation-controller.ts:350` starts a dictation on what an earlier one had left.
- A processor whose `run()` throws at once rejects the report of the whole run;
  `forceExtract` returns while an extraction is in flight; overlapping writers of the memory
  file lose facts.
- An extraction of the memory that runs between a turn's flush and its end moves the
  checkpoint that the history writer reads, so that what an agent, a hook or a subscriber
  injected there is never written (`core/memory-distiller.ts:144`). `voice-session.ts:4641` logs
  that this may happen; `EveryItemIsWritten` says when it may, and that nothing else skips an item.
- A reset inside a turn lets the follow-up response be measured as a first one.

Relays and telephony:

- OpenClaw: a stream that ends without its last event hangs its caller, as does a socket
  that closes during the handshake; an abort during `chatSend` is missed; event queues are
  never dropped.
- Sutando: the relay's table of tasks is never pruned. Interviews: a question that is
  dropped files the next answer under a question nobody asked. Claude Code:
  `canUseTool` is never passed, so `needs_input` and `respond` are unreachable; two runs on
  one thread resume the same session.
- Telephony: `twilio-bridge.ts` never wires the status callback, so that a call which is not
  answered is not reported; a status without a sequence number takes over the inbound bridge
  (`twilio-inbound-bridge.ts:165`); a session that closes does not hang up.

## 6. Not modelled

- In the modelled parts: `transport.transfer_session`, `notification.clear`, subscription
  filters, `subagent.needs_input`, `subagent.timeout` and `interaction.answer_delivered`
  (handled, never sent) in the actors; the hooks observer; external-audio transfers,
  text-mode session updates and steps that throw in `UpstreamRecovery`.
- In `UpstreamRecoveryPolicy`: `isLive` and what reads it, `dispose`, the host's `onFatal` and
  `onRecovered` callbacks, jitter, `TRANSFERRING`, credential rotation, a retry command that
  names another voice session.
- `runOpenClawInteractiveSession`, the browser client and the stores' formats.
- Dead-letter queue, reconnect recovery and subagent completion helpers take no part in
  the system's message flow.
- Signal processing, wire formats, configuration and observability beyond the latency
  tracker have no interleavings of their own.
- Two hazards have no property: a result sent between a disconnect and the end of the
  next dial is lost by the transport as written, and the parked episode above has no timer.

## 7. Plan

The theorems that are left, in the order of their worth: `OwnershipProgresses` and
`NoDialInBackoff` of `UpstreamRecoveryPolicy`; the parts of a session that have none
(`OtherTransports`, `TurnLatency`); then the workers (`PostSession`,
`OpenclawRuns`, `ClaudeCodeRuns`).
