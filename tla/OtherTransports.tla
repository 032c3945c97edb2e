--------------------------- MODULE OtherTransports --------------------------
(***************************************************************************)
(* The two remaining LLM transports: TextLLMTransport, a chat model driven *)
(* turn by turn, and QwenRealtimeTransport, a realtime socket.             *)
(*                                                                         *)
(* Text: the history is abstracted to the tool calls that its last message *)
(* leaves unanswered and to whether anything ever came between a call and  *)
(* its results.  A generation is one request; it takes one step to start   *)
(* and one to settle.  Qwen: the server is a response that is active or    *)
(* not, the requests it has not seen, and the updates it will confirm.     *)
(***************************************************************************)
EXTENDS Naturals, Sequences, FiniteSets

CONSTANTS TextCalls,       \* ids of tool calls of the text model
          MaxToolRounds,   \* maxToolRoundsPerTurn
          ReplayLength,    \* bound: items of a replayed history
          MaxReconnects,   \* bound: reconnects of either transport
          QwenResults,     \* tool results that reach the Qwen transport
          MaxQwenUpdates,  \* bound: session updates
          MaxQwenErrors    \* bound: error events of the server

ASSUME OtherTransportsAssumption ==
  /\ MaxToolRounds \in Nat /\ ReplayLength \in Nat /\ MaxReconnects \in Nat
  /\ MaxQwenUpdates \in Nat /\ MaxQwenErrors \in Nat

VARIABLES txt, qwen

(***************************************************************************)
(* TextLLMTransport.                                                       *)
(*                                                                         *)
(* open: calls that the history asks and does not answer; waiting, got:    *)
(* calls without a result, and results not yet in the history; spoken:     *)
(* some of got is not silent; buffered, queued: user content and a request *)
(* held for the end of the turn; voided: calls were given up on.           *)
(***************************************************************************)
TextInit ==
  txt = [up |-> FALSE, seeded |-> FALSE, running |-> FALSE, stale |-> FALSE,
         open |-> {}, waiting |-> {}, got |-> {}, spoken |-> FALSE, used |-> {},
         buffered |-> FALSE, queued |-> FALSE, rounds |-> 0, redials |-> 0,
         mixed |-> FALSE, malformed |-> FALSE, voided |-> FALSE]

\* One message joins the history.
Joins(t) == [t EXCEPT !.mixed = @ \/ t.open # {}]

Answers(t, calls) ==
  [t EXCEPT !.mixed = @ \/ ~(calls \subseteq t.open), !.open = @ \ calls]

Asks(t, calls) == [Joins(t) EXCEPT !.open = calls]

\* runGeneration sends the history as it is.
RunGeneration(t) ==
  IF t.running \/ ~t.up THEN t
  ELSE [t EXCEPT !.running = TRUE, !.stale = FALSE, !.malformed = @ \/ t.open # {}]

Busy(t) == t.running \/ t.waiting # {}

Schedule(t) ==
  IF ~t.up THEN t ELSE IF Busy(t) THEN [t EXCEPT !.queued = TRUE] ELSE RunGeneration(t)

\* Mutant: user content is committed although tool calls are outstanding.
SettleIdleEarly(t) ==
  LET flushed == IF t.buffered THEN [Joins(t) EXCEPT !.buffered = FALSE] ELSE t
  IN IF t.running \/ ~t.up THEN t
     ELSE IF flushed.queued THEN RunGeneration([flushed EXCEPT !.queued = FALSE, !.rounds = 0])
     ELSE flushed

SettleIdle(t) ==
  LET flushed == IF t.buffered THEN [Joins(t) EXCEPT !.buffered = FALSE] ELSE t
  IN IF Busy(t) \/ ~t.up THEN t
     ELSE IF flushed.queued THEN RunGeneration([flushed EXCEPT !.queued = FALSE, !.rounds = 0])
     ELSE flushed

\* The last result of a turn puts all of them into the history, in a row, and
\* resumes the turn unless every one of them is silent.
Resulted(t, c, silent) ==
  LET took == [t EXCEPT !.waiting = @ \ {c}, !.got = @ \cup {c}, !.spoken = @ \/ ~silent]
      whole == [Answers(took, took.got) EXCEPT !.got = {}, !.spoken = FALSE]
  IN IF c \notin t.waiting THEN t
     ELSE IF took.waiting # {} THEN took
     ELSE IF took.spoken THEN Schedule(whole) ELSE SettleIdle(whole)

(***************************************************************************)
(* applyReplay: prior items become messages; a call is kept with its       *)
(* result, in one group, and everything else of a group is dropped.        *)
(***************************************************************************)
ReplayItems == [type : {"text", "skip"}] \cup [type : {"tool_call", "tool_result"}, id : TextCalls]

NoGroup == [calls |-> <<>>, results |-> {}, seen |-> {}]

GroupIds(g) == {g.calls[i] : i \in DOMAIN g.calls}

FlushGroup(a) ==
  LET matched == GroupIds(a.group) \cap a.group.results
  IN [out |-> IF matched = {} THEN a.out ELSE Answers(Asks(a.out, matched), matched),
      group |-> [NoGroup EXCEPT !.seen = a.group.seen]]

ReplayItem(a, item) ==
  LET closed == FlushGroup(a)
      open == IF a.group.results # {} THEN closed ELSE a
  IN CASE item.type = "text" -> [closed EXCEPT !.out = Joins(@)]
       [] item.type = "skip" -> closed
       [] item.type = "tool_call" ->
            IF item.id \in open.group.seen THEN open
            ELSE [open EXCEPT !.group.seen = @ \cup {item.id},
                              !.group.calls = Append(@, item.id)]
       [] item.type = "tool_result" ->
            IF item.id \in GroupIds(a.group) \ a.group.results
            THEN [a EXCEPT !.group.results = @ \cup {item.id}] ELSE a

ApplyReplay(t, items) ==
  LET fold[n \in 0..Len(items)] ==
        IF n = 0 THEN [out |-> t, group |-> NoGroup] ELSE ReplayItem(fold[n - 1], items[n])
  IN FlushGroup(fold[Len(items)]).out

ReplayInputs == UNION {[1..n -> ReplayItems] : n \in 0..ReplayLength}

ConnectText(items) ==
  /\ ~txt.seeded
  /\ txt' = [ApplyReplay(txt, items) EXCEPT !.up = TRUE, !.seeded = TRUE]

\* What is in flight is superseded, and all that waits is dropped.
Voided(t) ==
  [t EXCEPT !.stale = t.running, !.queued = FALSE, !.waiting = {}, !.got = {},
            !.spoken = FALSE, !.buffered = FALSE, !.voided = @ \/ t.open # {}]

CancelText == txt.up /\ txt' = Voided(txt)

DisconnectText == txt.up /\ txt' = [Voided(txt) EXCEPT !.up = FALSE]

ReconnectText ==
  /\ txt.seeded /\ ~txt.up /\ txt.redials < MaxReconnects
  /\ txt' = [txt EXCEPT !.up = TRUE, !.redials = @ + 1]

SendContentText(complete) ==
  LET joined == Joins(txt)
  IN /\ txt.up
     /\ txt' = IF Busy(txt) THEN [txt EXCEPT !.buffered = TRUE, !.queued = @ \/ complete]
               ELSE IF complete THEN Schedule([joined EXCEPT !.rounds = 0]) ELSE joined

TriggerText ==
  /\ txt.up
  /\ txt' = IF Busy(txt) THEN [txt EXCEPT !.queued = TRUE] ELSE Schedule([txt EXCEPT !.rounds = 0])

SendToolResultText(c, silent) == txt.up /\ txt' = Resulted(txt, c, silent)

TextSettled(t) == SettleIdle([t EXCEPT !.running = FALSE, !.stale = FALSE])

\* The stream ends with text or an error; one that was superseded is mute.
AnswerSettles(errs) ==
  /\ txt.running
  /\ txt' = TextSettled(IF txt.stale \/ errs THEN txt ELSE Joins(txt))

\* The stream ends with tool calls, of which the host may answer some before
\* it returns (a transfer, a pending message).
CallsSettle(calls, atOnce) ==
  LET asked == [Asks(txt, calls) EXCEPT !.waiting = calls, !.rounds = @ + 1, !.used = @ \cup calls]
      one == IF atOnce = {} THEN asked
             ELSE Resulted(asked, CHOOSE c \in atOnce : TRUE, FALSE)
      all == IF Cardinality(atOnce) < 2 THEN one
             ELSE Resulted(one, CHOOSE c \in atOnce : c # (CHOOSE d \in atOnce : TRUE), FALSE)
  IN /\ txt.running /\ ~txt.stale /\ txt.rounds < MaxToolRounds
     /\ calls # {} /\ calls \cap txt.used = {} /\ atOnce \subseteq calls /\ Cardinality(atOnce) <= 2
     /\ txt' = TextSettled(all)

TextNext ==
  \/ \E items \in ReplayInputs : ConnectText(items)
  \/ CancelText \/ DisconnectText \/ ReconnectText \/ TriggerText
  \/ \E b \in BOOLEAN : SendContentText(b) \/ AnswerSettles(b)
  \/ \E c \in TextCalls, silent \in BOOLEAN : SendToolResultText(c, silent)
  \/ \E calls, atOnce \in SUBSET TextCalls : CallsSettle(calls, atOnce)

(***************************************************************************)
(* QwenRealtimeTransport.                                                  *)
(*                                                                         *)
(* epoch: the connection; gen: isGenerating; idle: pendingWhenIdle; intr:  *)
(* interruptToolResultQueue, whose head is cancelling while awaiting;      *)
(* slot: resolveActiveResponseDone is set; ack: the update whose answer    *)
(* pendingUpdateAck awaits (0: none), updates: those queued behind it.     *)
(* server: the response that runs there and the session.updated events on  *)
(* their way, by the update they answer.  taken, sent: the connection a    *)
(* result was accepted on, and those it was sent on; cut: the last         *)
(* response was cancelled; lost: an update was given up on.                *)
(***************************************************************************)
QwenInit ==
  qwen = [up |-> FALSE, dialing |-> FALSE, epoch |-> 0, gen |-> FALSE, calls |-> FALSE,
          idle |-> <<>>, intr |-> <<>>, awaiting |-> FALSE, slot |-> FALSE,
          ack |-> 0, updates |-> <<>>, asked |-> 0, errors |-> 0,
          server |-> [active |-> FALSE, creates |-> FALSE, cancel |-> FALSE, acks |-> <<>>],
          taken |-> <<>>, sent |-> [r \in QwenResults |-> <<>>],
          cut |-> FALSE, lost |-> FALSE, crossed |-> FALSE]

SendQwenResultNow(q, r, creates) ==
  [q EXCEPT !.sent[r] = Append(@, q.epoch), !.server.creates = @ \/ creates]

\* cancelResponse with waitForDone; it is over at once when nothing generates.
CancelQwenResponse(q) ==
  IF ~q.up \/ ~q.gen THEN q
  ELSE [q EXCEPT !.gen = FALSE, !.slot = TRUE, !.server.cancel = TRUE, !.awaiting = TRUE]

\* The head of the interrupt queue stops waiting: it and all behind it go
\* out, for nothing generates any more, unless the connection is gone.
DrainInterrupts(q) ==
  LET n == Len(q.intr)
      drained[i \in 0..n] ==
        IF i = 0 THEN [q EXCEPT !.intr = <<>>, !.awaiting = FALSE]
        ELSE IF q.up THEN SendQwenResultNow(drained[i - 1], q.intr[i], TRUE) ELSE drained[i - 1]
  IN drained[n]

\* resolveActiveResponseDone?.()
ResponseIsDone(q) ==
  IF ~q.slot THEN q
  ELSE IF q.awaiting THEN [DrainInterrupts(q) EXCEPT !.slot = FALSE]
  ELSE [q EXCEPT !.slot = FALSE]

\* pendingUpdateAck is settled and the next update of the queue goes out.
NextUpdate(q) ==
  IF q.updates = <<>> THEN [q EXCEPT !.ack = 0]
  ELSE [q EXCEPT !.ack = Head(q.updates), !.updates = Tail(@),
                 !.server.acks = IF q.up THEN Append(@, Head(q.updates)) ELSE @]

RejectUpdate(q) == IF q.ack = 0 THEN q ELSE [NextUpdate(q) EXCEPT !.lost = TRUE]

\* disconnect and cleanupOnClose.
Cleanup(q) ==
  LET down == [q EXCEPT !.up = FALSE, !.dialing = FALSE, !.gen = FALSE, !.calls = FALSE,
                        !.idle = <<>>,
                        !.server = [active |-> FALSE, creates |-> FALSE, cancel |-> FALSE,
                                    acks |-> <<>>]]
  IN ResponseIsDone(RejectUpdate(down))

ConnectQwen ==
  /\ ~qwen.up /\ ~qwen.dialing /\ qwen.epoch <= MaxReconnects
  /\ qwen' = [qwen EXCEPT !.dialing = TRUE, !.epoch = @ + 1]

\* The first session.updated settles the dial and is then handled as any other.
ConnectSettles(opens) ==
  LET up == [qwen EXCEPT !.up = TRUE, !.dialing = FALSE]
  IN /\ qwen.dialing
     /\ qwen' = IF ~opens THEN Cleanup(qwen)
                 ELSE IF up.ack = 0 THEN up ELSE [NextUpdate(up) EXCEPT !.crossed = TRUE]

LoseQwen == qwen.up /\ qwen' = Cleanup(qwen)

SendToolResultQwen(r, scheduling) ==
  LET taken == [qwen EXCEPT !.taken = Append(@, qwen.epoch)]
  IN /\ r = Len(qwen.taken) + 1 /\ r \in QwenResults /\ qwen.up
     /\ qwen' =
          IF scheduling = "when_idle" /\ qwen.gen THEN [taken EXCEPT !.idle = Append(@, r)]
          ELSE IF scheduling = "interrupt" /\ (qwen.gen \/ qwen.slot)
          THEN LET queued == [taken EXCEPT !.intr = Append(@, r)]
                   head == CancelQwenResponse(queued)
               IN IF qwen.awaiting THEN queued
                  ELSE IF head.awaiting THEN head ELSE DrainInterrupts(queued)
          ELSE SendQwenResultNow(taken, r, scheduling # "silent")

\* The host cancels without waiting for the end of the response.
CancelQwen ==
  /\ qwen.up /\ qwen.gen
  /\ qwen' = [qwen EXCEPT !.gen = FALSE, !.server.cancel = TRUE]

CancelTimesOut == qwen.awaiting /\ qwen' = DrainInterrupts(qwen)

TriggerQwen == qwen.up /\ ~qwen.server.creates /\ qwen' = [qwen EXCEPT !.server.creates = TRUE]

UpdateSessionQwen ==
  LET id == qwen.asked + 1
      asked == [qwen EXCEPT !.asked = id]
  IN /\ qwen.up /\ qwen.asked < MaxQwenUpdates
     /\ qwen' = IF qwen.ack = 0
                 THEN NextUpdate([asked EXCEPT !.updates = <<id>>])
                 ELSE [asked EXCEPT !.updates = Append(@, id)]

UpdateTimesOut == qwen.ack # 0 /\ qwen' = RejectUpdate(qwen)

SessionUpdated ==
  LET a == Head(qwen.server.acks)
      heard == [qwen EXCEPT !.server.acks = Tail(@)]
  IN /\ qwen.server.acks # <<>>
     /\ qwen' = IF qwen.ack = 0 THEN heard
                 ELSE [NextUpdate(heard) EXCEPT !.crossed = @ \/ a # qwen.ack]

\* A request, or what the server hears by itself, starts a response.
ResponseCreated ==
  /\ qwen.up /\ ~qwen.server.active
  /\ qwen' = [qwen EXCEPT !.gen = TRUE, !.calls = FALSE, !.cut = FALSE,
                           !.server.active = TRUE, !.server.creates = FALSE,
                           !.server.cancel = FALSE]

ToolCallDone == qwen.server.active /\ ~qwen.calls /\ qwen' = [qwen EXCEPT !.calls = TRUE]

\* One request covers all that waited for the model to fall silent.
FlushQwenWhenIdle(q) ==
  LET n == Len(q.idle)
      flushed[i \in 0..n] ==
        IF i = 0 THEN [q EXCEPT !.idle = <<>>] ELSE SendQwenResultNow(flushed[i - 1], q.idle[i], TRUE)
  IN flushed[n]

HandleResponseDone(cancelled) ==
  LET over == [ResponseIsDone([qwen EXCEPT !.server.active = FALSE, !.server.cancel = FALSE])
                 EXCEPT !.calls = FALSE, !.gen = FALSE]
  IN /\ qwen.server.active /\ (cancelled => qwen.server.cancel)
     /\ qwen' = IF cancelled THEN [over EXCEPT !.cut = TRUE] ELSE FlushQwenWhenIdle(over)

\* An error event ends whatever waits, be it about it or not.
QwenErrorEvent ==
  /\ qwen.up /\ qwen.errors < MaxQwenErrors
  /\ qwen' = RejectUpdate(ResponseIsDone([qwen EXCEPT !.errors = @ + 1]))

QwenNext ==
  \/ ConnectQwen \/ LoseQwen \/ CancelQwen \/ CancelTimesOut \/ TriggerQwen
  \/ UpdateSessionQwen \/ UpdateTimesOut \/ SessionUpdated
  \/ ResponseCreated \/ ToolCallDone \/ QwenErrorEvent
  \/ \E b \in BOOLEAN : ConnectSettles(b) \/ HandleResponseDone(b)
  \/ \E r \in QwenResults, s \in {"immediate", "when_idle", "interrupt", "silent"} :
       SendToolResultQwen(r, s)

OtherTransportsInit == TextInit /\ QwenInit

OtherTransportsNext ==
  \/ TextNext /\ UNCHANGED qwen
  \/ QwenNext /\ UNCHANGED txt

OtherTransportsSpec == OtherTransportsInit /\ [][OtherTransportsNext]_<<txt, qwen>>

(***************************************************************************)
(* Properties.                                                             *)
(***************************************************************************)
\* The calls of a text turn that the history leaves open are those the host
\* still owes and those whose results are held back; nothing but their
\* results ever follows them, and no request leaves them behind, unless the
\* turn was cancelled under them.  An idle transport holds nothing back.
TextTurnsAreWhole ==
  /\ txt.waiting \cap txt.got = {}
  /\ txt.voided \/ (txt.waiting \cup txt.got = txt.open /\ ~txt.mixed /\ ~txt.malformed)
  /\ txt.running => txt.waiting = {} /\ txt.got = {}
  /\ txt.up /\ ~Busy(txt) => ~txt.buffered /\ ~txt.queued

\* A Qwen tool result goes out at most once, on the connection it came in on,
\* and in its turn: it is held at most in one place, what waits for silence
\* waits only while the model speaks or since it was cancelled, and an
\* interrupting result waits only for the response it cancelled.  An update is
\* confirmed by its own answer unless one was given up on before.
QwenResultsAreKept ==
  LET held == {qwen.idle[i] : i \in DOMAIN qwen.idle} IN
  LET queued == {qwen.intr[i] : i \in DOMAIN qwen.intr}
  IN /\ held \cap queued = {}
     /\ \A r \in QwenResults :
          /\ Len(qwen.sent[r]) <= (IF r \in held \cup queued THEN 0 ELSE 1)
          /\ \A i \in DOMAIN qwen.sent[r] : qwen.sent[r][i] = qwen.taken[r]
     /\ held # {} => qwen.gen \/ qwen.cut \/ qwen.server.cancel
     /\ qwen.intr # <<>> <=> qwen.awaiting
     /\ qwen.awaiting => qwen.slot /\ qwen.up
     /\ qwen.crossed => qwen.lost
     /\ qwen.updates # <<>> => qwen.ack # 0

\* Both transports keep the tool calls and the results that cross them.
TransportsKeepResults == TextTurnsAreWhole /\ QwenResultsAreKept

\* "a request with an unanswered assistant tool-call message would be
\* malformed": no request leaves a tool call of the history unanswered.
RequestsAreWellFormed == ~txt.malformed
=============================================================================
