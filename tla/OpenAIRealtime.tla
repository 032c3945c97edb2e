--------------------------- MODULE OpenAIRealtime ---------------------------
(***************************************************************************)
(* OpenAIRealtimeTransport: the response lifecycle its flags mirror, the   *)
(* waiter that sequences a cancel and the next response.create, the queues *)
(* of tool results and of session updates, and reconnect.  A socket keeps  *)
(* its listeners after it is replaced, so its late events still run.  The  *)
(* provider at the other end of the sockets, the host and the timers are   *)
(* the environment.  Handlers are functions from the transport's record to *)
(* the record after them, what they send included.                         *)
(***************************************************************************)
EXTENDS Integers, Sequences, FiniteSets, SequencesExt

CONSTANTS ProviderOwned,  \* values of interrupt_response
          Results,        \* tool results the host may send
          MaxSockets,     \* bound: sockets ever opened
          MaxResponses,   \* bound: responses the provider ever creates
          MaxUpdates,     \* bound: updateSession() and transferSession() calls
          MaxHostCalls,   \* bound: the other calls of the host
          MaxTotal,       \* bound: all of these together
          MaxFaults       \* bound: sockets that close by themselves, refused updates
                          \* and timers that ring before an answer on its way

ASSUME OpenAIAssumption ==
  /\ ProviderOwned \subseteq BOOLEAN
  /\ {MaxSockets, MaxResponses, MaxUpdates, MaxHostCalls, MaxTotal, MaxFaults} \subseteq Nat

VARIABLES openai,   \* the transport and its sockets, see OpenAIInit
          used      \* bounds used so far

openaiVars == <<openai, used>>

Sockets == 1 .. MaxSockets

Schedulings == {"immediate", "silent", "when_idle", "interrupt"}

OpenAIInit ==
  /\ \E owned \in ProviderOwned :
       openai = [providerOwned |-> owned,      \* interrupt_response: true
                 rt |-> 0, connected |-> FALSE,
                 dial |-> [sock |-> 0, phase |-> "idle"],  \* connect()
                 generating |-> FALSE, suppressAudio |-> FALSE, quiesced |-> FALSE,
                 waiter |-> FALSE,             \* _resolveActiveResponseDone is set
                 calls |-> <<>>,               \* completedToolCallsThisResponse
                 whenIdle |-> <<>>,            \* _pendingWhenIdle
                 interrupts |-> <<>>,          \* _interruptToolResultQueue
                 direct |-> <<>>,              \* direct inputs awaiting their cancel
                 updates |-> <<>>,             \* _sessionUpdateQueue
                 \* the sockets, and the response the provider runs on each
                 net |-> [k \in Sockets |->
                            [open |-> FALSE, up |-> <<>>, down |-> <<>>, active |-> 0]],
                 \* history
                 response |-> 0, mixed |-> FALSE, stale |-> FALSE,
                 cut |-> FALSE, overlap |-> FALSE]
  /\ used = [sockets |-> 0, responses |-> 0, updates |-> 0, host |-> 0, faults |-> 0]

-----------------------------------------------------------------------------
(* Sockets.  What is sent on one that is gone is dropped.  Conversation    *)
(* items ask nothing of the provider and are not put on the wire.          *)

Event(kind, id) == [kind |-> kind, id |-> id]

Ready(o) == o.rt # 0 /\ o.connected

Send(o, kind, id) ==
  IF o.rt = 0 \/ ~o.net[o.rt].open THEN o
  ELSE [o EXCEPT !.net[o.rt].up = Append(@, Event(kind, id))]

Emit(o, k, kind, id) == [o EXCEPT !.net[k].down = Append(@, Event(kind, id))]

HangUp(o, k) ==
  IF k = 0 \/ ~o.net[k].open THEN o
  ELSE Emit([o EXCEPT !.net[k].open = FALSE, !.net[k].active = 0], k, "close", 0)

-----------------------------------------------------------------------------
(* The active-response waiter, cancels and response.create.                *)

\* An interrupt result whose turn in the queue has not come.
NotYet == [over |-> FALSE, excused |-> FALSE, of |-> -1]

MarkResponsePending(o) == [o EXCEPT !.waiter = TRUE]

\* Every wait on the promise is over; `excused` is history: not by a response.done.
Over(wait, excused) == [wait EXCEPT !.over = TRUE, !.excused = @ \/ excused]

ResolveWaiter(o, excused) ==
  [o EXCEPT !.waiter = FALSE,
            !.direct = [i \in DOMAIN @ |-> Over(@[i], excused)],
            !.interrupts = [i \in DOMAIN @ |->
               IF @[i].wait = NotYet THEN @[i]
               ELSE [@[i] EXCEPT !.wait = Over(o.interrupts[i].wait, excused)]]]

CreateResponse(o) == Send(MarkResponsePending(o), "create", 0)

ActuateCancelInternal(o) ==
  LET y == [o EXCEPT !.suppressAudio = TRUE, !.generating = FALSE, !.cut = TRUE] IN
  IF o.generating THEN Send(y, "cancel", 0) ELSE y

\* The part of cancelResponse() before its wait.
CancelResponse(o, truncate) ==
  IF o.generating \/ truncate THEN ActuateCancelInternal(o) ELSE o

\* The promise that cancelResponse({ waitForDone }) captures, with the response
\* it cancels (history).
WaitFor(o) == [over |-> ~o.waiter, excused |-> ~o.waiter,
               of |-> IF o.generating THEN o.response ELSE 0]

SendToolResultNow(o, result) ==
  IF ~Ready(o) THEN o
  ELSE IF result.scheduling = "silent" THEN o ELSE CreateResponse(o)

FlushPendingWhenIdle(o) ==
  IF o.rt = 0 \/ o.whenIdle = <<>> \/ o.quiesced THEN o
  ELSE CreateResponse([o EXCEPT !.whenIdle = <<>>])

-----------------------------------------------------------------------------
(* connect, disconnect, and the queue of session updates.                  *)

\* Its ack is awaited on the socket of now, sent on the socket of then.
EnqueueUpdate(o, forConnect) ==
  [o EXCEPT !.updates = Append(@, [sock |-> o.rt, forConnect |-> forConnect,
                                   flying |-> FALSE])]

UpdateFlying(o, k) ==
  o.updates # <<>> /\ Head(o.updates).flying /\ Head(o.updates).sock = k

\* The head of the queue resolves or rejects; connect() awaits its own.
SettleUpdate(o, ok) ==
  LET y == [o EXCEPT !.updates = Tail(@)] IN
  IF Head(o.updates).forConnect
  THEN [y EXCEPT !.dial.phase = IF ok THEN "ready" ELSE "failed"] ELSE y

Disconnect(o) ==
  HangUp([ResolveWaiter(o, TRUE) EXCEPT !.connected = FALSE, !.whenIdle = <<>>,
            !.generating = FALSE, !.suppressAudio = FALSE, !.rt = 0], o.rt)

Connect(o, k) ==
  [o EXCEPT !.rt = k, !.dial = [sock |-> k, phase |-> "opening"], !.net[k].open = TRUE]

Dialing(o) == o.dial.phase \in {"opening", "updating"}

-----------------------------------------------------------------------------
(* Listeners of socket k; they change the transport whatever rt is now.    *)

\* connect() goes on; a disconnect() meanwhile has left it no socket.
OnSessionCreated(o, k) ==
  IF o.dial # [sock |-> k, phase |-> "opening"] THEN o
  ELSE LET y == [o EXCEPT !.connected = TRUE,
                          !.dial.phase = IF o.rt = 0 THEN "failed" ELSE "updating"] IN
       IF o.rt = 0 THEN y ELSE EnqueueUpdate(y, TRUE)

OnSessionUpdated(o, k) == IF UpdateFlying(o, k) THEN SettleUpdate(o, TRUE) ELSE o

OnResponseCreated(o, r) ==
  MarkResponsePending([o EXCEPT !.generating = TRUE, !.calls = <<>>,
                                !.suppressAudio = @ /\ o.quiesced,
                                !.response = r, !.cut = FALSE])

OnFunctionCallDone(o, r) == [o EXCEPT !.calls = Append(@, r)]

\* onToolCall with the batch of response r; `mixed` is history.
DispatchCalls(o, batch, status, r) ==
  [o EXCEPT !.mixed = @ \/ (batch # <<>> /\ status = "cancelled")
                        \/ \E c \in ToSet(batch) : c # r]

\* Mutant: a cancelled response dispatches its calls like a completed one.
OnAnyResponseDone(o, status, r) ==
  LET y == [ResolveWaiter(o, FALSE) EXCEPT !.calls = <<>>, !.generating = FALSE] IN
  FlushPendingWhenIdle(DispatchCalls(y, o.calls, status, r))

OnResponseDone(o, status, r) ==
  LET y == [ResolveWaiter(o, FALSE) EXCEPT !.calls = <<>>, !.generating = FALSE] IN
  IF status = "cancelled" THEN [y EXCEPT !.cut = TRUE]
  ELSE FlushPendingWhenIdle(DispatchCalls(y, o.calls, status, r))

\* Provider-owned barge-in; otherwise only onSpeechStarted is called.
OnSpeechStarted(o) ==
  IF ~o.providerOwned \/ ~o.generating THEN o
  ELSE [o EXCEPT !.suppressAudio = TRUE, !.generating = FALSE, !.cut = TRUE]

\* An update in flight takes an error that echoes its id, or no id at all.
OnError(o, k, mine) ==
  LET y == ResolveWaiter(o, TRUE) IN
  IF mine /\ UpdateFlying(o, k) THEN SettleUpdate(y, FALSE) ELSE y

OnSocketClose(o) == [ResolveWaiter(o, TRUE) EXCEPT !.connected = FALSE]

Listener(o, k, e) ==
  CASE e.kind = "session"   -> OnSessionCreated(o, k)
    [] e.kind = "updated"   -> OnSessionUpdated(o, k)
    [] e.kind = "created"   -> OnResponseCreated(o, e.id)
    [] e.kind = "call"      -> OnFunctionCallDone(o, e.id)
    [] e.kind \in {"completed", "cancelled"} -> OnResponseDone(o, e.kind, e.id)
    [] e.kind = "speech"    -> OnSpeechStarted(o)
    [] e.kind \in {"refused", "error"} -> OnError(o, k, e.kind = "refused")
    [] e.kind = "close"     -> OnSocketClose(o)

\* stale is history: a socket that was replaced has changed the transport.
Handle(o, k, e) ==
  LET y == [o EXCEPT !.net[k].down = Tail(@)]
      z == Listener(y, k, e)
  IN [z EXCEPT !.stale = @ \/ (k # o.rt /\ z # y)]

-----------------------------------------------------------------------------
(* What settles before the next event: promise continuations.              *)

InterruptReady(o) ==
  /\ o.interrupts # <<>>
  /\ LET wait == Head(o.interrupts).wait IN wait = NotYet \/ wait.over

DirectReady(o) == o.direct # <<>> /\ Head(o.direct).over

UpdateReady(o) == o.updates # <<>> /\ ~Head(o.updates).flying

Quiet == ~InterruptReady(openai) /\ ~DirectReady(openai) /\ ~UpdateReady(openai)

\* The response a wait was for is still running, and nothing excuses it: history.
Overlaps(o, wait) ==
  /\ wait.of # 0 /\ o.rt # 0 /\ o.net[o.rt].active = wait.of
  /\ ~wait.excused /\ ~o.stale

\* The head of the interrupt queue: cancel first, deliver once it is over.
RunInterrupt(o) ==
  LET item == Head(o.interrupts)
      dropped == [o EXCEPT !.interrupts = Tail(@)]
      cancelled == CancelResponse(o, FALSE)
  IN IF ~Ready(o) THEN dropped
     ELSE IF item.wait = NotYet
     THEN [cancelled EXCEPT !.interrupts[1].wait = WaitFor(o)]
     ELSE SendToolResultNow([dropped EXCEPT !.overlap = @ \/ Overlaps(o, item.wait)],
                            item.result)

RunDirect(o) ==
  LET y == [o EXCEPT !.direct = <<>>] IN
  IF ~Ready(o) THEN y ELSE CreateResponse(y)

StartUpdate(o) == Send([o EXCEPT !.updates[1].flying = TRUE], "update", 0)

Continue ==
  /\ \/ InterruptReady(openai) /\ openai' = RunInterrupt(openai)
     \/ DirectReady(openai) /\ openai' = RunDirect(openai)
     \/ UpdateReady(openai) /\ openai' = StartUpdate(openai)
  /\ UNCHANGED used

Deliver(k) ==
  /\ Quiet /\ openai.net[k].down # <<>>
  /\ openai' = Handle(openai, k, Head(openai.net[k].down))
  /\ UNCHANGED used

-----------------------------------------------------------------------------
(* Bounds.                                                                 *)

Spend(field) ==
  /\ used.sockets + used.responses + used.updates + used.host + used.faults < MaxTotal
  /\ used' = [used EXCEPT ![field] = @ + 1]

Fault == used.faults < MaxFaults /\ Spend("faults")

-----------------------------------------------------------------------------
(* Timers: 2 s of a cancel's wait, 15 s of a dial and of an update.        *)

\* A timer that rings while an answer is on its way is a fault.
Ring ==
  /\ Quiet
  /\ IF \A k \in Sockets : openai.net[k].down = <<>> THEN UNCHANGED used
     ELSE Fault

CancelTimeout ==
  /\ Ring
  /\ \/ openai.interrupts # <<>>
        /\ openai' = [openai EXCEPT !.interrupts[1].wait =
                                  Over(openai.interrupts[1].wait, TRUE)]
     \/ openai.direct # <<>> /\ openai' = [openai EXCEPT !.direct[1] = Over(@, TRUE)]

DialTimeout ==
  /\ Ring /\ openai.dial.phase = "opening"
  /\ openai' = [openai EXCEPT !.dial.phase = "failed"]

\* Mutant: an update waits for its acknowledgement however long it takes.
NoUpdateTimeout == FALSE /\ UNCHANGED openaiVars

UpdateTimeout ==
  /\ Ring /\ openai.updates # <<>>
  /\ openai' = SettleUpdate(openai, FALSE)

-----------------------------------------------------------------------------
(* The host.                                                               *)

\* The host calls once onSessionReady, or the failure of connect(), was reported.
HostCall == Quiet /\ ~Dialing(openai) /\ used.host < MaxHostCalls /\ Spend("host")

\* reconnect() is disconnect(), then connect(); the first dial is the same.
Redial ==
  /\ Quiet /\ ~Dialing(openai) /\ used.sockets < MaxSockets /\ Spend("sockets")
  /\ openai' = Connect(Disconnect(openai), used.sockets + 1)

HostDisconnect ==
  /\ Quiet /\ used.host < MaxHostCalls /\ Spend("host") /\ openai.rt # 0
  /\ openai' = Disconnect(openai)

UpdateSession ==
  /\ Quiet /\ ~Dialing(openai) /\ Ready(openai)
  /\ used.updates < MaxUpdates /\ Spend("updates")
  /\ openai' = EnqueueUpdate(openai, FALSE)

\* VoiceSession's direct input, one at a time: cancelResponse, then sendContent.
DirectInput ==
  /\ HostCall /\ Ready(openai) /\ openai.direct = <<>>
  /\ openai' = [CancelResponse(openai, FALSE) EXCEPT !.direct = <<WaitFor(openai)>>]

\* A barge-in: cancelResponse({ truncate }), no wait.
BargeIn == HostCall /\ Ready(openai) /\ openai' = CancelResponse(openai, TRUE)

\* sendContent() or triggerGeneration() without a cancel before it.
SendContent == HostCall /\ Ready(openai) /\ openai' = CreateResponse(openai)

Quiesce ==
  /\ HostCall
  /\ LET y == [openai EXCEPT !.quiesced = TRUE] IN
     openai' = IF Ready(openai) THEN ActuateCancelInternal(y) ELSE y

Unquiesce ==
  /\ HostCall /\ openai.quiesced
  /\ openai' = FlushPendingWhenIdle([openai EXCEPT !.quiesced = FALSE,
                                                  !.suppressAudio = FALSE])

SendToolResult(id, scheduling) ==
  LET result == [id |-> id, scheduling |-> scheduling] IN
  /\ HostCall /\ Ready(openai)
  /\ openai' =
       IF scheduling = "when_idle" /\ openai.generating
       THEN [openai EXCEPT !.whenIdle = Append(@, result)]
       ELSE IF scheduling = "interrupt" /\ (openai.generating \/ openai.waiter)
       THEN [openai EXCEPT !.interrupts =
               Append(@, [result |-> result, wait |-> NotYet])]
       ELSE SendToolResultNow(openai, result)

-----------------------------------------------------------------------------
(* The provider, one per socket (external).                                *)

ServerOpens(k) ==
  /\ openai.dial = [sock |-> k, phase |-> "opening"] /\ openai.net[k].open
  /\ openai.net[k].up = <<>> /\ openai.net[k].down = <<>>
  /\ openai' = Emit(openai, k, "session", 0)
  /\ UNCHANGED used

\* A response of the provider's own accord, or for a response.create.
Begin(o, k, r) == Emit([o EXCEPT !.net[k].active = r], k, "created", r)

\* A response ends, with or without a function call among its items.
End(o, k, status) ==
  {[o EXCEPT !.net[k].active = 0,
             !.net[k].down = @ \o items \o <<Event(status, o.net[k].active)>>] :
     items \in {<<>>, <<Event("call", o.net[k].active)>>}}

\* A refusal of a create or cancel carries no id of an update.
ServerReads(k) ==
  /\ openai.net[k].open /\ openai.net[k].up # <<>>
  /\ LET m == Head(openai.net[k].up)
         o == [openai EXCEPT !.net[k].up = Tail(@)] IN
     \/ /\ m.kind = "create" /\ o.net[k].active = 0 /\ used.responses < MaxResponses
        /\ openai' = Begin(o, k, used.responses + 1) /\ Spend("responses")
     \/ /\ m.kind = "create" /\ o.net[k].active # 0
        /\ openai' = Emit(o, k, "error", 0) /\ UNCHANGED used
     \/ /\ m.kind = "cancel"
        /\ openai' \in IF o.net[k].active = 0 THEN {Emit(o, k, "error", 0)}
                       ELSE End(o, k, "cancelled")
        /\ UNCHANGED used
     \/ /\ m.kind = "update"
        /\ \/ openai' = Emit(o, k, "updated", 0) /\ UNCHANGED used
           \/ openai' = Emit(o, k, "refused", 0) /\ Fault

ServerResponds(k) ==
  /\ openai.net[k].open /\ openai.net[k].active = 0 /\ used.responses < MaxResponses
  /\ Ready(openai)
  /\ openai' = Begin(openai, k, used.responses + 1) /\ Spend("responses")

ServerCompletes(k) ==
  /\ openai.net[k].active # 0
  /\ openai' \in End(openai, k, "completed")
  /\ UNCHANGED used

\* Speech: a provider that owns interruption cancels its response itself.
ServerHearsSpeech(k) ==
  /\ openai.net[k].active # 0 /\ openai.providerOwned
  /\ openai' \in End(Emit(openai, k, "speech", 0), k, "cancelled")
  /\ UNCHANGED used

ServerCloses(k) ==
  /\ openai.net[k].open /\ Fault
  /\ openai' = HangUp(openai, k)

-----------------------------------------------------------------------------
(* Specification.                                                          *)

OpenAITimers == CancelTimeout \/ DialTimeout \/ UpdateTimeout

OpenAIHost ==
  \/ Redial \/ HostDisconnect \/ UpdateSession \/ DirectInput \/ BargeIn
  \/ SendContent \/ Quiesce \/ Unquiesce
  \/ \E id \in Results, scheduling \in Schedulings : SendToolResult(id, scheduling)

OpenAIServer(k) ==
  \/ ServerOpens(k) \/ ServerReads(k) \/ ServerResponds(k) \/ ServerCompletes(k)
  \/ ServerHearsSpeech(k) \/ ServerCloses(k)

OpenAINext ==
  \/ Continue \/ OpenAITimers \/ OpenAIHost
  \/ \E k \in Sockets : Deliver(k) \/ (Quiet /\ OpenAIServer(k))

\* Continuations run, what was sent to us arrives and timers ring; nothing is
\* promised of the provider.
OpenAIFairness ==
  /\ WF_openaiVars(Continue) /\ WF_openaiVars(OpenAITimers)
  /\ WF_openaiVars(\E k \in Sockets : Deliver(k))

OpenAISpec == OpenAIInit /\ [][OpenAINext]_openaiVars /\ OpenAIFairness

-----------------------------------------------------------------------------
(* Properties.                                                             *)

\* onToolCall is given the calls of the response that just completed: none left
\* over from a response that was cancelled, unless a replaced socket spoke after
\* its replacement.
CancelledCallsStay == ~openai.stale => ~openai.mixed

\* An interrupt result asks for its response only after the response it
\* cancelled has ended, except when the wait ran out or an error ended it.
InterruptsFollowTheirCancel == ~openai.overlap

\* A when_idle result stays behind an idle model only where a cancel cut the
\* last response off, never through a completed response or an unquiesce().
IdleResultsMove ==
  /\ Ready(openai) /\ ~openai.quiesced /\ ~openai.generating /\ ~openai.stale
  /\ openai.whenIdle # <<>>
  => openai.cut

\* Whatever the provider does, an awaited cancel, a queued tool result, a dial
\* and a session update all come to an end.
CallersReturn ==
  []<>(/\ openai.direct = <<>> /\ openai.interrupts = <<>>
       /\ openai.updates = <<>> /\ ~Dialing(openai))

\* Calls, interrupts and results that wait for idle follow the response they belong
\* to, through cancels that race its end.
ResponsesAreKeptApart == CancelledCallsStay /\ InterruptsFollowTheirCancel /\ IdleResultsMove
=============================================================================
