---------------------------- MODULE OpenclawRuns ----------------------------
(***************************************************************************)
(* Delegating tasks to an OpenClaw gateway: the WebSocket client and the   *)
(* HTTP one (both hand the events of a run to whoever waits for its next   *)
(* one), the persistent subagent whose invoke() sends a message and reads  *)
(* the run to its end, and the openclaw_chat tool of the relay subagent.   *)
(* Invocations of one instance may overlap.  A message is its parts: the   *)
(* HTTP client posts all but the last and streams that one, each after the *)
(* response to the one before.  The gateway and the sockets are the        *)
(* environment; promise continuations run before its next event.           *)
(***************************************************************************)
EXTENDS Integers, Sequences, SequencesExt

CONSTANTS ClawClients,   \* subset of {"ws", "http"}
          MaxInvokes,    \* invocations
          MaxClawEvents, \* events of the gateway that end no run
          MaxParts       \* parts of a message

ASSUME OpenclawAssumption ==
  /\ ClawClients \subseteq {"ws", "http"}
  /\ {MaxInvokes, MaxClawEvents, MaxParts} \subseteq Nat \ {0}

VARIABLE claw   \* the client, the subagent and the gateway, see ClawInit

Invokes == 1 .. MaxInvokes
MaxRunAttempts == 2
Runs == 1 .. MaxRunAttempts * MaxInvokes
Terminal == {"final", "empty", "error", "aborted"}

\* An event of a run: its kind and its number in the run.
Events == [kind : Terminal \cup {"delta"}, n : Nat]

NewInvoke == [st |-> "none",      \* none, sending, reading, done
              form |-> "invoke",  \* invoke: the subagent; execute: the tool
              attempt |-> 0, run |-> 0, parts |-> 1,
              text |-> FALSE,     \* the answer so far is not empty
              told |-> FALSE,     \* the abort listener ran while it listened
              got |-> "none"]     \* how it ended

NewClawRun == [of |-> 0,          \* the invocation, 0: no such run
            gateway |-> "none",   \* none, running, ended, cut: no last event
            left |-> 0,           \* parts to post before the stream
            sent |-> 0,           \* events sent
            read |-> 0,           \* history: events read
            queue |-> <<>>,       \* eventQueues
            waiter |-> FALSE,     \* eventWaiters
            controller |-> FALSE] \* _controllers

ClawInit ==
  \E client \in ClawClients :
    claw = [client |-> client,
            link |-> IF client = "ws" THEN "none" ELSE "up",  \* opening, up, down
            connecting |-> FALSE,    \* connect() has not settled
            disposed |-> FALSE,
            active |-> 0,            \* activeRunId
            next |-> 1,              \* the next run
            events |-> 0,
            misread |-> FALSE,       \* history: an event read out of its order
            invoke |-> [i \in Invokes |-> NewInvoke],
            run |-> [r \in Runs |-> NewClawRun]]

-----------------------------------------------------------------------------
(* Reading a run.  The operators take the state and return it.             *)

\* A run's reader ends: finally { activeRunId = null }, whoever's it is.
InvokeEnds(w, i, got) ==
  [w EXCEPT !.invoke[i].st = "done", !.invoke[i].got = got,
            !.active = IF w.invoke[i].form = "invoke" THEN 0 ELSE @]

\* One event, read by the invocation of run r.
ReadEvent(w, r, e) ==
  LET i  == w.run[r].of
      v  == [w EXCEPT !.run[r].read = e.n, !.misread = @ \/ e.n # w.run[r].read + 1]
      on == [v EXCEPT !.invoke[i].text = @ \/ e.kind = "final"]
  IN  CASE e.kind = "delta" -> [v EXCEPT !.invoke[i].text = TRUE]
        [] e.kind = "final" \/ (e.kind = "empty" /\ w.invoke[i].text) ->
             InvokeEnds(on, i, "answer")
        [] e.kind = "empty" /\ ~w.invoke[i].text /\ w.invoke[i].attempt < MaxRunAttempts ->
             [v EXCEPT !.invoke[i].st = "retry",
                       !.active = IF w.invoke[i].form = "invoke" THEN 0 ELSE @]
        [] OTHER -> InvokeEnds(v, i, IF e.kind = "aborted" THEN "aborted" ELSE "error")

\* The loop on nextChatEvent(): the events of the queue, then a waiter.
ReadOn(w, r) ==
  LET one(v, e) == IF v.invoke[v.run[r].of].st = "reading" /\ v.invoke[v.run[r].of].run = r
                   THEN ReadEvent([v EXCEPT !.run[r].queue = Tail(@)], r, e) ELSE v
      v == FoldLeft(one, w, w.run[r].queue)
      i == w.run[r].of
  IN  IF v.invoke[i].st = "reading" /\ v.invoke[i].run = r
      THEN [v EXCEPT !.run[r].waiter = TRUE] ELSE v

\* Mutant: the event is handed to the waiter and queued as well.
HandleEventTwice(w, r, kind) ==
  LET e == [kind |-> kind, n |-> w.run[r].sent + 1]
      v == [w EXCEPT !.run[r].sent = e.n]
  IN  IF v.run[r].waiter
      THEN ReadOn(ReadEvent([v EXCEPT !.run[r].waiter = FALSE,
                                      !.run[r].queue = Append(@, e)], r, e), r)
      ELSE [v EXCEPT !.run[r].queue = Append(@, e)]

\* handleEvent(), _enqueueEvent(): to the one who waits, else to the queue.
HandleEvent(w, r, kind) ==
  LET e == [kind |-> kind, n |-> w.run[r].sent + 1]
      v == [w EXCEPT !.run[r].sent = e.n]
  IN  IF v.run[r].waiter
      THEN ReadOn(ReadEvent([v EXCEPT !.run[r].waiter = FALSE], r, e), r)
      ELSE [v EXCEPT !.run[r].queue = Append(@, e)]

\* chatSend() resolved with the run: the reader of invocation i starts.
RunStarts(w, i, r) ==
  ReadOn([w EXCEPT !.invoke[i].st = "reading", !.invoke[i].run = r, !.run[r].of = i,
                   !.active = IF w.invoke[i].form = "invoke" THEN r ELSE @], r)

\* The HTTP client answers chatSend() itself and starts the request pipeline.
StartRequestPipeline(w, i) ==
  LET r == w.next
  IN  RunStarts([w EXCEPT !.next = r + 1, !.run[r].gateway = "running",
                          !.run[r].left = w.invoke[i].parts - 1,
                          !.run[r].controller = TRUE], i, r)

\* chatSend(): a request of the WebSocket client needs its connection.
ChatSend(w, i) ==
  LET v == [w EXCEPT !.invoke[i].attempt = @ + 1, !.invoke[i].text = FALSE]
  IN  IF w.client = "http" THEN StartRequestPipeline(v, i)
      ELSE IF w.link # "up" THEN InvokeEnds(v, i, "error")
      ELSE [v EXCEPT !.invoke[i].st = "sending"]

\* The reader that found nothing in the answer sends the message once more.
Retry(w) ==
  FoldLeft(LAMBDA v, i : IF v.invoke[i].st = "retry" THEN ChatSend(v, i) ELSE v,
           w, [i \in Invokes |-> i])

\* chatAbort().  HTTP: the request is aborted and the reader told at once.
ChatAbort(w, r) ==
  IF w.client = "ws" THEN w
  ELSE HandleEvent([w EXCEPT !.run[r].controller = FALSE, !.run[r].gateway = "ended"],
                   r, "aborted")

ClawDoes(w) == claw' = Retry(w)

-----------------------------------------------------------------------------
(* The callers.                                                            *)

\* invoke() of the persistent subagent: refused once it is disposed.
Invoke(i) ==
  /\ claw.invoke[i].st = "none" /\ \A j \in 1 .. i - 1 : claw.invoke[j].st # "none"
  /\ \E parts \in 1 .. MaxParts :
       ClawDoes(IF claw.disposed
                THEN [claw EXCEPT !.invoke[i].st = "done", !.invoke[i].got = "refused"]
                ELSE ChatSend([claw EXCEPT !.invoke[i].parts = parts], i))

\* The tool: the same loop without a signal, and not of the instance.
ExecuteTool(i) ==
  /\ claw.invoke[i].st = "none" /\ \A j \in 1 .. i - 1 : claw.invoke[j].st # "none"
  /\ ClawDoes(ChatSend([claw EXCEPT !.invoke[i].form = "execute"], i))

\* The signal of an invocation aborts.  Its listener is there while a run is
\* read, not while the message is being sent.
AbortInvoke(i) ==
  LET v == claw.invoke[i]
  IN  /\ v.form = "invoke" /\ ~v.told
      /\ v.st = "reading"
      /\ ClawDoes(ChatAbort([claw EXCEPT !.invoke[i].told = TRUE], v.run))

\* dispose(): the run read last is aborted.
Dispose ==
  /\ ~claw.disposed
  /\ LET v == [claw EXCEPT !.disposed = TRUE]
         d == IF v.active = 0 THEN v ELSE ChatAbort(v, v.active)
     IN  ClawDoes([d EXCEPT !.active = 0])

-----------------------------------------------------------------------------
(* The WebSocket connection.                                               *)

ConnectClaw ==
  /\ claw.link = "none"
  /\ claw' = [claw EXCEPT !.link = "opening", !.connecting = TRUE]

\* The handshake: the challenge is signed and the answer settles connect().
ConnectAnswered(ok) ==
  /\ claw.link = "opening" /\ claw.connecting
  /\ claw' = [claw EXCEPT !.link = IF ok THEN "up" ELSE @, !.connecting = FALSE]

\* An 'error' before the connection is up rejects connect().
ConnectFails ==
  /\ claw.link = "opening" /\ claw.connecting
  /\ claw' = [claw EXCEPT !.link = "down", !.connecting = FALSE]

\* 'close': every request and every reader is rejected.  connect() is not.
ClawSocketCloses ==
  /\ claw.client = "ws" /\ claw.link \in {"opening", "up"}
  /\ claw' = [FoldLeft(LAMBDA w, i :
                IF w.invoke[i].st \in {"sending", "reading"} THEN InvokeEnds(w, i, "error")
                ELSE w, claw, [i \in Invokes |-> i])
              EXCEPT !.link = "down",
                     !.run = [r \in Runs |-> [@[r] EXCEPT !.waiter = FALSE]]]

-----------------------------------------------------------------------------
(* The gateway.                                                            *)

\* It takes the message of i, or refuses it.
GatewayAccepts(i) ==
  /\ claw.link = "up" /\ claw.invoke[i].st = "sending"
  /\ \E early \in {0, 1} :
       LET r == claw.next
           v == [claw EXCEPT !.next = r + 1, !.run[r].gateway = "running"]
       IN  /\ claw.events + early <= MaxClawEvents
           /\ ClawDoes(RunStarts(IF early = 0 THEN v
                                 ELSE [HandleEvent(v, r, "delta") EXCEPT !.events = @ + 1],
                                 i, r))

GatewayRefuses(i) ==
  /\ claw.link = "up" /\ claw.invoke[i].st = "sending"
  /\ ClawDoes(InvokeEnds(claw, i, "error"))

\* A part before the last is acknowledged (HTTP): its response is the one the
\* next part names.
PartAcknowledged(r) ==
  /\ claw.run[r].gateway = "running" /\ claw.run[r].left > 0
  /\ claw' = [claw EXCEPT !.run[r].left = @ - 1]

\* An event of a run that goes on.
RunEmits(r) ==
  /\ claw.link = "up" /\ claw.run[r].gateway = "running" /\ claw.run[r].left = 0
  /\ claw.events < MaxClawEvents
  /\ ClawDoes(HandleEvent([claw EXCEPT !.events = @ + 1], r, "delta"))

\* The run ends: an answer, one with nothing in it, an error (of a part, of
\* the stream, or of the gateway), or an abort.
RunEnds(r, kind) ==
  /\ claw.link = "up" /\ claw.run[r].gateway = "running"
  /\ claw.run[r].left = 0 \/ kind = "error"
  /\ ClawDoes(HandleEvent([claw EXCEPT !.run[r].gateway = "ended",
                                       !.run[r].controller = FALSE], r, kind))

\* _consumeSSE(): the stream is done without a terminal event.
StreamTruncated(r) ==
  /\ claw.client = "http" /\ claw.run[r].gateway = "running" /\ claw.run[r].left = 0
  /\ claw' = [claw EXCEPT !.run[r].gateway = "cut", !.run[r].controller = FALSE]

ClawNext ==
  \/ ConnectClaw \/ ConnectFails \/ ClawSocketCloses \/ Dispose
  \/ \E ok \in BOOLEAN : ConnectAnswered(ok)
  \/ \E i \in Invokes : \/ Invoke(i) \/ ExecuteTool(i) \/ AbortInvoke(i)
                        \/ GatewayAccepts(i) \/ GatewayRefuses(i)
  \/ \E r \in Runs : \/ PartAcknowledged(r) \/ RunEmits(r) \/ StreamTruncated(r)
                     \/ \E kind \in Terminal : RunEnds(r, kind)

ClawSpec == ClawInit /\ [][ClawNext]_claw

-----------------------------------------------------------------------------
(* Properties.                                                             *)

ClawTypeOK ==
  /\ \A r \in Runs : claw.run[r].queue \in Seq(Events)
  /\ \A i \in Invokes : claw.invoke[i].attempt \in 0 .. MaxRunAttempts
  /\ claw.active \in 0 .. claw.next - 1

\* Every reader reads its run's events once each and in order, whether they
\* came before it asked or after, and its run is nobody else's.
EventsAreReadInOrder ==
  /\ ~claw.misread
  /\ \A r \in Runs : claw.run[r].read <= claw.run[r].sent
  /\ \A i, j \in Invokes :
       i # j /\ claw.invoke[i].run # 0 => claw.invoke[i].run # claw.invoke[j].run

\* Nobody waits for what cannot come, but for two waits that the code leaves
\* without an end: on a stream cut short of its last event, and for a handshake
\* on a socket that closed.  Else a reader waits on a run that goes on, by a
\* connection that is up, and no event it waits for is in the queue.
ReadersAreAnswered ==
  /\ \A i \in Invokes :
       claw.invoke[i].st = "reading" =>
         LET r == claw.run[claw.invoke[i].run]
         IN  r.waiter /\ r.queue = <<>> /\ r.gateway \in {"running", "cut"} /\ claw.link = "up"
  /\ \A i \in Invokes : claw.invoke[i].st = "sending" => claw.link = "up"
  /\ claw.connecting => claw.link \in {"opening", "down"}

\* An answer is not empty, and a message goes out twice at most, the second
\* time after an empty answer only.
DelegationsAreAnswered ==
  /\ ClawTypeOK /\ EventsAreReadInOrder /\ ReadersAreAnswered
  /\ \A i \in Invokes : claw.invoke[i].got = "answer" => claw.invoke[i].text
=============================================================================
