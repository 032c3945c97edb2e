----------------------------- MODULE TurnTaking -----------------------------
(***************************************************************************)
(* A conversation's turns in VoiceSession: TurnManager and the turn's      *)
(* single finalization, the two playback gates and the arbiter that        *)
(* completes or defers a turn, the external TTS pipeline, the client's     *)
(* voice detector and its barge-in, the greeting's suppression, and the    *)
(* part of the two model transports that decides which server turn a       *)
(* signal belongs to.  The model, the TTS provider, the client's player    *)
(* and the timers are the environment; the order in which their events     *)
(* arrive is theirs.  Handlers are functions from the session's record to  *)
(* the record after them.                                                  *)
(***************************************************************************)
EXTENDS Integers, Sequences, FiniteSets, SequencesExt

CONSTANTS Modes,        \* the session configurations explored
          MaxResponses, \* bound: responses (server turns) the model begins
          MaxOutputs,   \* bound: pieces of output of all the responses
          MaxSegments,  \* bound: speech segments the client's detector opens
          MaxSignals,   \* bound: typed inputs and speech starts the model detects
          MaxGreetings, \* bound: greetings sent
          MaxLosses,    \* bound: lost connections
          MaxTotal      \* bound: segments, signals, greetings and losses together

\* ids: the transport numbers its server turns (Gemini Live) or not (OpenAI
\* Realtime); owns: frameworkOwnsInterrupt; gated: nativePlaybackGatingActive;
\* hush: greetingInterruptible is false.
AllModes == [tts : BOOLEAN, ids : BOOLEAN, owns : BOOLEAN, gated : BOOLEAN, hush : BOOLEAN]

ASSUME TurnTakingAssumption ==
  /\ Modes \subseteq {m \in AllModes : /\ m.owns => ~m.ids
                                       /\ m.gated => ~m.tts /\ ~m.ids}
  /\ {MaxResponses, MaxOutputs, MaxSegments, MaxSignals,
      MaxGreetings, MaxLosses, MaxTotal} \subseteq Nat

VARIABLES talk,   \* the session, its transport and its TTS provider, see TurnsInit
          spent   \* bounds used so far

turnsVars == <<talk, spent>>

Turns == 1 .. (2 * MaxResponses + MaxTotal + 1)

TurnsInit ==
  /\ \E m \in Modes :
       talk = [mode |-> m,
               current |-> 0, previous |-> 0,      \* TurnManager; 0 is null
               owned |-> [n \in Turns |-> {}],     \* Turn._serverTurnIds
               over |-> {},                        \* finalized turns
               counter |-> 0,                      \* TurnManager.turnId
               dispatched |-> FALSE,               \* _nativeResponseDispatchedToolCall
               audible |-> FALSE,                  \* _assistantAudioStartedAtMs is set
               deferred |-> FALSE,                 \* PlaybackCompletionArbiter.deferred
               \* NativeAudioPlaybackGate; forgotten: its timers that arm() replaced
               native |-> [id |-> 0, pending |-> FALSE, captured |-> 0, audio |-> FALSE,
                           timer |-> "none", forgotten |-> {}],
               \* ExternalTtsPlaybackGate
               tts |-> [id |-> 0, hasText |-> FALSE, llmDone |-> FALSE, audioDone |-> FALSE,
                        speaking |-> FALSE, audio |-> FALSE, hard |-> FALSE, timer |-> "none"],
               speech |-> <<>>,                    \* texts the TTS provider synthesizes
               \* ClientVadDetector
               vad |-> [active |-> FALSE, eligible |-> FALSE, fired |-> FALSE,
                       long |-> FALSE, routed |-> FALSE],
               \* GreetingController and GreetingGatePolicy
               greet |-> [hold |-> FALSE, grace |-> IF m.owns THEN "ready" ELSE "off",
                          live |-> FALSE, bindable |-> FALSE, bound |-> 0, timer |-> FALSE],
               typed |-> [waits |-> FALSE, turn |-> 0], \* preEmptForDirectInput awaiting its cancel
               player |-> 0,                       \* an audio.done the client has not answered
               \* the transport's side of the model's response
               model |-> [turn |-> 0, state |-> "idle", gen |-> "idle", genEnd |-> 0,
                          windingDown |-> FALSE, emitted |-> FALSE, tool |-> FALSE,
                          silenced |-> 0, generating |-> FALSE, muted |-> FALSE],
               \* the model itself
               reply |-> [phase |-> "idle", number |-> 0, outputs |-> 0, spoke |-> FALSE,
                          textDone |-> FALSE],
               \* history
               born |-> 0, phantom |-> FALSE, late |-> FALSE, lost |-> FALSE]
  /\ spent = [segments |-> 0, signals |-> 0, greetings |-> 0, losses |-> 0]

Spend(kind, max) ==
  /\ spent[kind] < max
  /\ spent.segments + spent.signals + spent.greetings + spent.losses < MaxTotal
  /\ spent' = [spent EXCEPT ![kind] = @ + 1]

-----------------------------------------------------------------------------
(* TurnManager.                                                            *)

\* getActiveServerTurnId(): 0 on a transport that numbers none.
ActiveServerTurn(t) == IF t.model.state \in {"generating", "ended_early"} THEN t.model.turn ELSE 0

Bind(t, n, id) == IF id = 0 THEN t ELSE [t EXCEPT !.owned[n] = @ \cup {id}]

ActiveTurn(t) == IF t.current \in t.over THEN 0 ELSE t.current

\* ensureCurrent() returns null: trailing content of a turn that is over.
Trailing(t, id) == t.current \in t.over /\ id # 0 /\ id \in t.owned[t.current]

EnsureCurrent(t, id) ==
  IF ActiveTurn(t) # 0 THEN Bind(t, t.current, id)
  ELSE IF Trailing(t, id) THEN t
  ELSE Bind([t EXCEPT !.previous = t.current, !.current = t.born + 1, !.born = @ + 1],
            t.born + 1, id)

Ensure(t) == EnsureCurrent(t, ActiveServerTurn(t))

New == 0
Stale == -1

\* resolve() of a completion or an interrupt.
Resolve(t, id) ==
  LET cur == t.current IN
  IF cur = 0 THEN New
  ELSE IF id = 0 THEN IF cur \in t.over THEN New ELSE cur
  ELSE IF id \in t.owned[cur] THEN cur
  ELSE IF t.previous # 0 /\ id \in t.owned[t.previous] THEN t.previous
  ELSE IF t.owned[cur] = {} THEN IF cur \in t.over THEN New ELSE cur
  ELSE IF \A k \in t.owned[cur] : id > k THEN New ELSE Stale

-----------------------------------------------------------------------------
(* The gates, the TTS provider and the greeting, as finalizeTurn uses them. *)

ClearNative(t) ==
  [t EXCEPT !.native.id = @ + 1, !.native.pending = FALSE, !.native.captured = 0,
            !.native.audio = FALSE, !.native.timer = "none", !.deferred = FALSE]

ClearTtsTimers(t) == [t EXCEPT !.tts.hard = FALSE, !.tts.timer = "none"]

\* The gate's part of an interrupt, before the provider's cancel().
ResetForInterrupt(t) ==
  ClearTtsTimers([t EXCEPT !.deferred = FALSE, !.tts.speaking = FALSE, !.tts.llmDone = FALSE,
                           !.tts.audioDone = FALSE, !.tts.hasText = FALSE, !.tts.id = @ + 1])

\* cancel(): the provider may still emit what it had ready.
CancelSpeech(t) == [t EXCEPT !.speech = [i \in DOMAIN @ |-> [@[i] EXCEPT !.cancelled = TRUE]]]

\* synthesize(): a text after its request's flush is one more request to the provider.
Synthesize(t, of) ==
  LET open(i) == t.speech[i].id = t.tts.id /\ ~t.speech[i].flushed /\ ~t.speech[i].cancelled
      text == [id |-> t.tts.id, flushed |-> FALSE, cancelled |-> FALSE, of |-> of, spoken |-> FALSE]
  IN IF \E i \in DOMAIN t.speech : open(i) THEN t ELSE [t EXCEPT !.speech = Append(@, text)]

FlushSpeech(t) ==
  [t EXCEPT !.speech = [i \in DOMAIN @ |->
                          IF @[i].id = t.tts.id THEN [@[i] EXCEPT !.flushed = TRUE] ELSE @[i]]]

NoToken(greet) == [greet EXCEPT !.live = FALSE, !.bindable = FALSE, !.bound = 0]

ReleaseGreeting(t) == [t EXCEPT !.greet = [NoToken(@) EXCEPT !.hold = FALSE, !.timer = FALSE]]

\* onTurnFinalized: a bound token is released by its own turn only.
GreetingTurnOver(t, n) ==
  IF t.greet.hold /\ t.greet.bound \in {0, n} THEN ReleaseGreeting(t) ELSE t

RequestInterrupt(t) == ~t.greet.hold /\ t.greet.grace # "active"

\* Mutant: finalizes again a turn that is over.
FinalizeTwice(t, n, interrupted) ==
  IF n = 0 THEN t ELSE [t EXCEPT !.over = @ \cup {n}, !.audible = FALSE, !.counter = @ + 1]

FinalizeTurn(t, n, interrupted) ==
  IF n = 0 \/ n \in t.over THEN t
  ELSE LET a == GreetingTurnOver([t EXCEPT !.over = @ \cup {n}, !.audible = FALSE], n)
           b == IF t.mode.gated THEN ClearNative(a) ELSE a
           c == IF interrupted /\ t.mode.tts THEN CancelSpeech(ResetForInterrupt(b)) ELSE b
       IN [c EXCEPT !.counter = @ + 1]

-----------------------------------------------------------------------------
(* Completion: the TTS gate, the native gate and the arbiter.              *)

MaybeComplete(t) ==
  IF ~(t.tts.llmDone /\ t.tts.audioDone) THEN t
  ELSE FinalizeTurn(ClearTtsTimers([t EXCEPT !.tts.llmDone = FALSE, !.tts.audioDone = FALSE,
                                             !.tts.hasText = FALSE]),
                    t.current, FALSE)

CompleteAudio(t) == MaybeComplete([t EXCEPT !.tts.audioDone = TRUE, !.tts.speaking = FALSE])

CompletePlayback(t) ==
  IF t.mode.gated /\ t.native.pending THEN FinalizeTurn(t, t.native.captured, FALSE)
  ELSE IF t.mode.tts THEN CompleteAudio(t) ELSE t

GatePending(t) == IF t.mode.tts THEN t.tts.speaking ELSE t.mode.gated /\ t.native.pending
GateTimer(t) == IF t.mode.tts THEN t.tts.timer ELSE t.native.timer
GateId(t) == IF t.mode.tts THEN t.tts.id ELSE t.native.id

ClearGateTimer(t) ==
  IF t.mode.tts THEN ClearTtsTimers(t) ELSE [t EXCEPT !.native.timer = "none"]

ArmGateTimer(t, kind) ==
  IF t.mode.tts THEN [t EXCEPT !.tts.timer = kind] ELSE [t EXCEPT !.native.timer = kind]

\* Mutant: defers without the timer that caps the wait.
DeferWithoutCap(t) ==
  IF t.vad.active /\ t.vad.eligible
  THEN [ClearGateTimer(t) EXCEPT !.deferred = TRUE]
  ELSE CompletePlayback(ClearGateTimer(t))

FinishOrDeferForVad(t) ==
  IF t.vad.active /\ t.vad.eligible
  THEN ArmGateTimer([ClearGateTimer(t) EXCEPT !.deferred = TRUE], "defer")
  ELSE CompletePlayback(ClearGateTimer(t))

NoSegment == [active |-> FALSE, eligible |-> FALSE, fired |-> FALSE, long |-> FALSE, routed |-> FALSE]

ForceCompleteAfterVadDefer(t) ==
  CompletePlayback([t EXCEPT !.deferred = FALSE, !.vad = NoSegment])

ResolveDeferredPlayback(t) ==
  IF t.deferred /\ GatePending(t)
  THEN CompletePlayback(ClearGateTimer([t EXCEPT !.deferred = FALSE])) ELSE t

\* handleTurnComplete() of the three finalization paths.
CompleteByTts(t) ==
  MaybeComplete([t EXCEPT !.tts.llmDone = TRUE,
                          !.tts.audioDone = @ \/ ~t.tts.hasText,
                          !.tts.hard = @ \/ t.tts.hasText])

\* The timer the native gate holds, with the id that guards its callback.
Running(t) ==
  IF t.native.timer = "none" THEN {} ELSE {[kind |-> t.native.timer, id |-> t.native.id]}

\* arm() does not clear a timer that runs.
ArmNative(t, n) ==
  [t EXCEPT !.native.pending = TRUE, !.native.captured = n, !.native.timer = "fallback",
            !.native.forgotten = @ \cup Running(t), !.player = t.native.id]

HandleTurnComplete(t, id) ==
  LET found == Resolve(t, id)
      a == IF found = New THEN EnsureCurrent(t, id)
           ELSE IF found = t.current THEN Bind(t, found, id) ELSE t
      turn == IF found = New THEN a.current ELSE found
  IN IF found = Stale \/ turn \in a.over \/ turn # a.current THEN a
     ELSE IF t.mode.tts THEN CompleteByTts(a)
     ELSE IF t.mode.gated /\ a.native.audio /\ ~a.dispatched THEN ArmNative(a, turn)
     ELSE FinalizeTurn(a, turn, FALSE)

HandleInterrupted(t, id) ==
  LET found == Resolve(t, id)
      a == IF found = New THEN EnsureCurrent(t, id)
           ELSE IF found = t.current THEN Bind(t, found, id) ELSE t
      turn == IF found = New THEN a.current ELSE found
  IN IF found = Stale \/ turn # a.current THEN a ELSE FinalizeTurn(a, turn, TRUE)

-----------------------------------------------------------------------------
(* The client's voice detector, interrupts and typed input.                *)

\* shouldDropOutbound(): the hold, the window before a greeting's first audio, the grace.
MicDropped(t) == t.greet.hold \/ t.greet.grace \in {"sent", "active"}

\* complete(): a user's turn that reached the model makes later starts ambiguous.
EndSegment(t) ==
  LET a == ResolveDeferredPlayback([t EXCEPT !.vad = NoSegment]) IN
  IF t.vad.long /\ t.vad.routed THEN [a EXCEPT !.greet.bindable = FALSE] ELSE a

Suppressed(t) == t.model.silenced # 0 /\ t.model.silenced = ActiveServerTurn(t)

\* cancelResponse(): Gemini Live only silences what is left of the server turn.
CancelResponse(t) ==
  IF t.mode.ids
  THEN [t EXCEPT !.model.silenced = IF t.mode.tts THEN 0 ELSE ActiveServerTurn(t)]
  ELSE IF ~t.model.generating THEN t
  ELSE [t EXCEPT !.model.generating = FALSE, !.model.muted = TRUE, !.reply.phase = "cancelled"]

AssistantAudioActive(t) ==
  IF t.mode.tts \/ t.mode.gated THEN GatePending(t) ELSE t.mode.ids /\ t.audible

BargeIn(t) ==
  FinalizeTurn(CancelResponse(t),
               IF t.native.captured # 0 THEN t.native.captured ELSE t.current, TRUE)

VoicedFrame(t, loud, sustained) ==
  LET a == IF t.vad.active THEN [t EXCEPT !.vad.long = t.mode.hush]
           ELSE [t EXCEPT !.vad = [NoSegment EXCEPT !.active = TRUE]]
      b == [a EXCEPT !.vad.eligible = @ \/ loud, !.vad.routed = @ \/ (t.mode.hush /\ ~MicDropped(t))]
  IN IF /\ AssistantAudioActive(b) /\ ~b.vad.fired /\ loud /\ sustained
        /\ RequestInterrupt(b)
     THEN BargeIn([b EXCEPT !.vad.fired = TRUE]) ELSE b

\* onSpeechStarted with native audio: the tail, then the response itself.
NativeSpeechStarted(t) ==
  IF ~t.mode.owns
  THEN IF t.native.pending THEN FinalizeTurn(t, t.native.captured, TRUE) ELSE t
  ELSE IF ActiveTurn(t) = 0 \/ ~RequestInterrupt(t) THEN t
  ELSE FinalizeTurn(CancelResponse(t),
                    IF t.native.pending THEN t.native.captured ELSE t.current, TRUE)

TtsSpeechStarted(t) ==
  IF ~t.tts.speaking \/ ~RequestInterrupt(t) THEN t
  ELSE IF t.tts.llmDone \/ (t.mode.owns /\ ActiveTurn(t) # 0)
  THEN FinalizeTurn(IF t.mode.owns THEN CancelResponse(t) ELSE t, t.current, TRUE)
  ELSE t

OnSpeechStarted(t) == IF t.mode.tts THEN TtsSpeechStarted(t) ELSE NativeSpeechStarted(t)

\* The rest of preEmptForDirectInput, once its cancel is over: `n` is the turn of
\* before the wait.
FinishTyped(t, n) ==
  LET a == [t EXCEPT !.typed = [waits |-> FALSE, turn |-> 0]] IN
  IF n # 0 /\ n \notin a.over THEN FinalizeTurn(a, n, TRUE)
  ELSE IF a.native.pending THEN FinalizeTurn(a, a.native.captured, TRUE) ELSE a

ResumeTyped(t) == IF t.typed.waits THEN FinishTyped(t, t.typed.turn) ELSE t

HandleTextInput(t) ==
  LET a == CancelResponse(ReleaseGreeting(t)) IN
  IF ~t.mode.ids /\ t.reply.phase # "idle"
  THEN [a EXCEPT !.typed = [waits |-> TRUE, turn |-> t.current]]
  ELSE FinishTyped(a, t.current)

-----------------------------------------------------------------------------
(* What the transport's callbacks do in the session.                       *)

NoteAudioStarted(t) == IF t.greet.grace \in {"ready", "sent"} THEN [t EXCEPT !.greet.grace = "active"] ELSE t

\* logProviderUserTurnRecognition: the provider has heard the user.
Recognized(t) == IF t.vad.active THEN EndSegment(t) ELSE t

BindGreeting(t, n) ==
  IF n # 0 /\ t.greet.live /\ t.greet.bindable /\ t.greet.bound = 0
  THEN [t EXCEPT !.greet.bound = n] ELSE t

OnModelTurnStart(t) ==
  LET a == Ensure([t EXCEPT !.dispatched = FALSE, !.audible = FALSE])
      turn == IF Trailing(t, ActiveServerTurn(t)) THEN 0 ELSE a.current
  IN Recognized(BindGreeting(a, turn))

OnToolCall(t) == Recognized([t EXCEPT !.dispatched = t.mode.gated])

HandleAudioOutput(t) ==
  IF Trailing(t, ActiveServerTurn(t)) THEN t
  ELSE LET a == NoteAudioStarted([Ensure(t) EXCEPT !.audible = ~t.mode.gated]) IN
       IF ~t.mode.gated THEN a
       ELSE [a EXCEPT !.native.id = IF a.native.audio THEN @ ELSE @ + 1,
                      !.native.audio = TRUE]

\* The TTS pipeline does not ask whether the text is trailing.
OnTextOutput(t) ==
  LET a == Ensure(t)
      b == IF a.tts.hasText THEN a
           ELSE [a EXCEPT !.deferred = FALSE, !.tts.id = @ + 1, !.tts.hasText = TRUE,
                          !.tts.audio = FALSE]
  IN [Synthesize(b, b.current) EXCEPT
        !.phantom = @ \/ (~t.mode.ids /\ t.reply.phase = "cancelled")]

OnTextDone(t) == IF t.tts.hasText THEN FlushSpeech(t) ELSE t

Output(t) ==
  IF t.mode.tts THEN OnTextOutput([t EXCEPT !.model.emitted = TRUE])
  ELSE IF t.model.muted \/ Suppressed(t) THEN t ELSE HandleAudioOutput(t)

-----------------------------------------------------------------------------
(* Gemini Live: server turns and generations.                              *)

BeginServerTurn(t) ==
  IF t.model.state \in {"generating", "ended_early"} THEN t
  ELSE [t EXCEPT !.model.state = "generating", !.model.turn = @ + 1, !.model.emitted = FALSE,
                 !.model.tool = FALSE, !.model.windingDown = FALSE, !.model.silenced = 0]

CloseServerTurn(t) == [t EXCEPT !.model.state = "closed", !.model.windingDown = FALSE]

EndGeneration(t) ==
  IF t.model.gen \notin {"active", "draining"} THEN t
  ELSE [t EXCEPT !.model.gen = "terminal", !.model.genEnd = ActiveServerTurn(t)]

\* beginGenerationIfNew
BeginGeneration(t, signal) ==
  IF \/ t.model.gen = "active"
     \/ t.model.gen = "draining" /\ signal = "toolCall"
     \/ /\ t.model.gen = "terminal" /\ signal = "modelTurn"
        /\ t.model.genEnd # 0 /\ t.model.genEnd = ActiveServerTurn(t)
  THEN t
  ELSE OnModelTurnStart([EndGeneration(t) EXCEPT !.model.gen = "active"])

ServerContent(t) == Output(BeginGeneration(BeginServerTurn(t), "modelTurn"))

ServerToolCall(t) ==
  OnToolCall(BeginGeneration([BeginServerTurn(t) EXCEPT !.model.tool = TRUE], "toolCall"))

ServerInterrupted(t) ==
  LET a == BeginServerTurn(t)
      b == EndGeneration([a EXCEPT !.model.windingDown = t.mode.tts \/ @])
  IN HandleInterrupted(OnSpeechStarted(b), b.model.turn)

\* generationComplete ends a text turn before the server does.
ServerGenerationComplete(t) ==
  LET a == EndGeneration(t) IN
  IF /\ t.mode.tts /\ a.model.emitted /\ ~a.model.tool
     /\ a.model.state = "generating" /\ ~a.model.windingDown
  THEN HandleTurnComplete(
         OnTextDone([a EXCEPT !.model.state = "ended_early", !.model.windingDown = TRUE]),
         a.model.turn)
  ELSE a

ServerTurnComplete(t) ==
  LET a == BeginServerTurn(t)
      b == IF a.model.gen = "active" THEN [a EXCEPT !.model.gen = "draining"] ELSE a
      c == IF t.mode.tts THEN OnTextDone(b) ELSE b
  IN CloseServerTurn(IF a.model.state = "ended_early" THEN b
                     ELSE HandleTurnComplete(c, a.model.turn))

-----------------------------------------------------------------------------
(* OpenAI Realtime: responses.                                             *)

ResponseCreated(t) ==
  OnModelTurnStart([t EXCEPT !.model.generating = TRUE, !.model.muted = FALSE])

\* response.done of a response that was not cancelled.
ResponseDone(t, tool) ==
  LET a == IF tool THEN OnToolCall(t) ELSE t
  IN ResumeTyped(HandleTurnComplete([a EXCEPT !.model.generating = FALSE], 0))

ResponseCancelled(t) == ResumeTyped([t EXCEPT !.model.generating = FALSE])

\* speech_started; a provider that owns the interrupt has cancelled the response.
InputSpeechStarted(t) ==
  LET a == OnSpeechStarted(t) IN
  IF t.mode.owns \/ ~a.model.generating THEN a
  ELSE HandleInterrupted([a EXCEPT !.model.muted = TRUE, !.model.generating = FALSE,
                                   !.reply.phase = "cancelled"], 0)

-----------------------------------------------------------------------------
(* The model.                                                              *)

Phase(t, phase) == [t EXCEPT !.reply.phase = phase]

NextReply(t) ==
  [t EXCEPT !.reply.phase = "talking", !.reply.number = @ + 1, !.reply.spoke = FALSE,
            !.reply.textDone = FALSE]

Piece(t) == [t EXCEPT !.reply.outputs = @ + 1, !.reply.spoke = TRUE]

MayBegin(t) == t.reply.phase = "idle" /\ t.reply.number < MaxResponses
MaySay(t) == t.reply.outputs < MaxOutputs

\* response.created of OpenAI Realtime; a Gemini server turn begins with its output.
ModelBegins ==
  /\ ~talk.mode.ids /\ MayBegin(talk)
  /\ talk' = ResponseCreated(NextReply(talk))
  /\ UNCHANGED spent

\* Output, of a cancelled or an interrupted response as well.
ModelSays ==
  /\ \/ talk.reply.phase \in {"talking", "cancelled"} /\ ~talk.reply.textDone
        /\ MaySay(talk) /\ talk' = IF talk.mode.ids THEN ServerContent(Piece(talk))
                                   ELSE Output(Piece(talk))
     \/ talk.mode.ids /\ MayBegin(talk) /\ MaySay(talk)
        /\ talk' = ServerContent(Piece(NextReply(talk)))
  /\ UNCHANGED spent

\* response.output_text.done
TextIsDone ==
  /\ ~talk.mode.ids /\ talk.mode.tts
  /\ talk.reply.phase = "talking" /\ talk.reply.spoke /\ ~talk.reply.textDone
  /\ talk' = OnTextDone([talk EXCEPT !.reply.textDone = TRUE])
  /\ UNCHANGED spent

\* A cancel may come too late: the response it names is done.
ModelEnds ==
  /\ IF talk.mode.ids
     THEN /\ talk.reply.phase \in {"talking", "generated", "cancelled"}
          /\ talk' = ServerTurnComplete(Phase(talk, "idle"))
     ELSE /\ talk.reply.phase \in {"talking", "cancelled"}
          /\ talk.mode.tts /\ talk.reply.spoke => talk.reply.textDone
          /\ \E tool \in BOOLEAN : talk' = ResponseDone(Phase(talk, "idle"), tool)
  /\ UNCHANGED spent

\* A turnComplete with no output before it.
ModelStaysSilent ==
  /\ talk.mode.ids /\ MayBegin(talk)
  /\ talk' = ServerTurnComplete(Phase(NextReply(talk), "idle"))
  /\ UNCHANGED spent

CancelIsDone ==
  /\ ~talk.mode.ids /\ talk.reply.phase = "cancelled"
  /\ talk' = ResponseCancelled(Phase(talk, "idle"))
  /\ UNCHANGED spent

\* Gemini Live: a tool call inside the server turn, the end of the generation, and
\* an interrupt, after which the turn goes on to its turnComplete.
ModelCallsTool ==
  /\ talk.mode.ids /\ ~talk.model.tool
  /\ talk.reply.phase \in {"talking", "generated", "cancelled"}
  /\ talk' = ServerToolCall(talk)
  /\ UNCHANGED spent

GenerationEnds ==
  /\ talk.mode.ids /\ talk.reply.phase = "talking"
  /\ talk' = ServerGenerationComplete(Phase(talk, "generated"))
  /\ UNCHANGED spent

ModelInterrupted ==
  /\ talk.mode.ids /\ talk.reply.phase \in {"talking", "generated"}
  /\ Spend("signals", MaxSignals)
  /\ talk' = ServerInterrupted(Phase(talk, "cancelled"))

ModelHears ==
  /\ Spend("signals", MaxSignals)
  /\ talk' = IF talk.mode.ids THEN OnSpeechStarted(talk) ELSE InputSpeechStarted(talk)

\* The connection is lost and replaced; what the model was saying is gone.
ConnectionLost ==
  /\ Spend("losses", MaxLosses)
  /\ talk' = ResumeTyped(Phase(
       [EndGeneration(talk) EXCEPT
          !.model = [@ EXCEPT !.state = "idle", !.gen = "idle", !.windingDown = FALSE,
                              !.emitted = FALSE, !.tool = FALSE, !.silenced = 0,
                              !.generating = FALSE, !.muted = FALSE],
          !.lost = @ \/ ActiveTurn(talk) # 0], "idle"))

-----------------------------------------------------------------------------
(* The TTS provider, the client and the timers.                            *)

Unsaid(t, i) == [t EXCEPT !.speech = RemoveAt(@, i)]

\* A chunk of audio; one of a request that is not current is dropped.  `late` is
\* history: a request that was cancelled still had its audio or its end accepted.
SpeechAudio(i) ==
  /\ ~talk.speech[i].spoken
  /\ LET text == talk.speech[i]
         a == IF text.cancelled THEN Unsaid(talk, i) ELSE [talk EXCEPT !.speech[i].spoken = TRUE]
     IN talk' = IF text.id # a.tts.id THEN a
                ELSE [NoteAudioStarted(a) EXCEPT !.tts.speaking = TRUE, !.tts.audio = TRUE,
                                                 !.late = @ \/ text.cancelled]
  /\ UNCHANGED spent

\* onDone: a turn without audio completes, any other waits for the player.
SpeechDone(i) ==
  /\ talk.speech[i].flushed
  /\ talk' = LET a == Unsaid(talk, i)
                 b == [ClearTtsTimers(a) EXCEPT !.late = @ \/ talk.speech[i].cancelled]
             IN IF talk.speech[i].id # a.tts.id THEN a
                ELSE IF ~b.tts.audio THEN CompletePlayback(b)
                ELSE [b EXCEPT !.tts.timer = "fallback", !.player = a.tts.id]
  /\ UNCHANGED spent

SpeechDropped(i) ==
  /\ talk.speech[i].cancelled
  /\ talk' = Unsaid(talk, i)
  /\ UNCHANGED spent

SpeechGoesOn ==
  \E i \in DOMAIN talk.speech : SpeechAudio(i) \/ SpeechDone(i) \/ SpeechDropped(i)

PlaybackEnded ==
  /\ talk.player # 0
  /\ talk' = LET a == [talk EXCEPT !.player = 0] IN
             IF a.deferred \/ GateTimer(a) = "none" \/ ~GatePending(a) \/ talk.player # GateId(a)
             THEN a ELSE FinishOrDeferForVad(a)
  /\ UNCHANGED spent

Ring(t, kind) == IF kind = "defer" THEN ForceCompleteAfterVadDefer(t) ELSE FinishOrDeferForVad(t)

\* The timer of the live gate.
PlaybackTimer ==
  /\ GateTimer(talk) # "none"
  /\ LET a == IF talk.mode.tts THEN [talk EXCEPT !.tts.timer = "none"]
              ELSE [talk EXCEPT !.native.timer = "none"] IN
     talk' = IF talk.mode.tts \/ GateTimer(talk) = "defer" \/ a.native.pending
             THEN Ring(a, GateTimer(talk)) ELSE a
  /\ UNCHANGED spent

\* One that arm() replaced without clearing it: it forgets the one that runs.
ForgottenTimer(x) ==
  /\ LET a == [talk EXCEPT !.native.forgotten = (@ \ {x}) \cup Running(talk),
                           !.native.timer = "none"] IN
     talk' = IF x.kind = "defer" \/ (a.native.pending /\ x.id = a.native.id)
             THEN Ring(a, x.kind) ELSE a
  /\ UNCHANGED spent

HardCap ==
  /\ talk.tts.hard
  /\ talk' = MaybeComplete([talk EXCEPT !.tts.hard = FALSE, !.tts.audioDone = TRUE,
                                        !.tts.speaking = FALSE, !.tts.id = @ + 1,
                                        !.deferred = FALSE])
  /\ UNCHANGED spent

GraceEnds ==
  /\ talk.greet.grace = "active"
  /\ talk' = [talk EXCEPT !.greet.grace = "over"]
  /\ UNCHANGED spent

NoStartTimeout ==
  /\ talk.greet.timer
  /\ talk' = IF talk.greet.hold /\ talk.greet.bound = 0 THEN ReleaseGreeting(talk)
             ELSE [talk EXCEPT !.greet.timer = FALSE]
  /\ UNCHANGED spent

\* A server turn ended early whose turnComplete does not come.
WindingDownTimeout ==
  /\ talk.model.state = "ended_early" /\ talk.reply.phase # "idle"
  /\ talk' = CloseServerTurn(Phase(talk, "idle"))
  /\ UNCHANGED spent

TypedTimeout ==
  /\ talk.typed.waits
  /\ talk' = ResumeTyped(talk)
  /\ UNCHANGED spent

-----------------------------------------------------------------------------
(* The user.                                                               *)

\* A client attaches: its reset of the greeting, and the greeting sent.
Greet ==
  /\ talk.mode.hush \/ talk.mode.owns
  /\ Spend("greetings", MaxGreetings)
  /\ talk' = [ReleaseGreeting(talk) EXCEPT
                !.greet.grace = IF @ = "off" THEN "off" ELSE "sent",
                !.greet.hold = talk.mode.hush, !.greet.live = talk.mode.hush,
                !.greet.bindable = talk.mode.hush, !.greet.timer = talk.mode.hush]

\* A voiced frame; only one loud enough counts towards a barge-in, once sustained.
UserSpeaks(loud, sustained) ==
  /\ sustained => loud
  /\ IF talk.vad.active THEN UNCHANGED spent ELSE Spend("segments", MaxSegments)
  /\ talk' = VoicedFrame(talk, loud, sustained)

UserPauses ==
  /\ talk.vad.active
  /\ talk' = EndSegment(talk)
  /\ UNCHANGED spent

UserTypes ==
  /\ ~talk.typed.waits
  /\ Spend("signals", MaxSignals)
  /\ talk' = HandleTextInput(talk)

-----------------------------------------------------------------------------
ModelActs ==
  \/ ModelBegins \/ ModelSays \/ TextIsDone \/ ModelEnds \/ ModelStaysSilent \/ CancelIsDone
  \/ ModelCallsTool \/ GenerationEnds \/ ModelInterrupted \/ ModelHears \/ ConnectionLost

TimersRing ==
  \/ PlaybackTimer \/ HardCap \/ GraceEnds \/ NoStartTimeout \/ WindingDownTimeout \/ TypedTimeout
  \/ \E x \in talk.native.forgotten : ForgottenTimer(x)

UserActs ==
  \/ PlaybackEnded \/ Greet \/ UserPauses \/ UserTypes
  \/ \E loud, sustained \in BOOLEAN : UserSpeaks(loud, sustained)

TurnsNext == ModelActs \/ SpeechGoesOn \/ TimersRing \/ UserActs

\* A provider completes what it began, the TTS provider ends what was flushed
\* (types/tts.ts:53-58), and timers ring.  None of these can go on forever within
\* the bounds, so one condition is fair to each.  A segment may stay open: a
\* client that stops sending frames ends none.
Progress == TextIsDone \/ ModelEnds \/ CancelIsDone \/ SpeechGoesOn \/ TimersRing

TurnsSpec == TurnsInit /\ [][TurnsNext]_turnsVars /\ WF_turnsVars(Progress)

-----------------------------------------------------------------------------
(* Properties.                                                             *)

\* Turns are born and finalized one at a time, each exactly once: whatever order
\* a completion, an interrupt, a gate's timer and the player's answer come in, at
\* most one turn is open and the counter counts every turn that is over.  Audio and
\* completions of a TTS request that an interrupt cancelled are told from the
\* current request's, however late the provider emits them: cut speech is neither
\* played nor taken for the end of the next turn.
TurnsEndInOrder ==
  /\ talk.over = 1 .. talk.counter
  /\ talk.born \in {talk.counter, talk.counter + 1}
  /\ ~talk.late

\* The floor comes back to the user: every turn ends and every greeting's hold on
\* the microphone is released.  A turn's gate has timers for a player that does
\* not answer, a segment of the user's that stays open and speech that never
\* completes; a greeting is released by its own turn, or by its timer when none
\* starts.  Excused: a connection lost under an open turn, and a turn opened by
\* what a cancelled response still said, which no response completes.
FloorIsFree ==
  []<>((ActiveTurn(talk) = 0 /\ ~talk.greet.hold) \/ talk.lost \/ talk.phantom)
=============================================================================
