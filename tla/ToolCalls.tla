------------------------------ MODULE ToolCalls -----------------------------
(***************************************************************************)
(* Tool calls of the legacy runtime: the ToolCallRouter, the ToolExecutor  *)
(* it runs inline and local background tools with, the executor that an    *)
(* agent transfer puts in its place, and the BackgroundNotificationQueue   *)
(* that carries the outcome of a call the model was already answered for.  *)
(* What a handed-off subagent does is SubagentSessions; here it settles.   *)
(***************************************************************************)
EXTENDS Naturals, Sequences, FiniteSets

CONSTANTS ToolCallIds,     \* numbers of the calls the model may make
          CanTruncate,     \* capabilities.messageTruncation of the transport
          MaxHostNotes,    \* bound: notifications published by the host
          MaxExecutors     \* bound: executors, one more than the transfers

ASSUME ToolCallAssumption ==
  /\ CanTruncate \in BOOLEAN /\ MaxHostNotes \in Nat
  /\ MaxExecutors \in Nat \ {0} /\ ToolCallIds \subseteq Nat \ {0}

VARIABLES tools,      \* each call: how it runs, what was answered
          executor,   \* number of the current ToolExecutor
          transfers,  \* transfers under way
          bell        \* BackgroundNotificationQueue, and what it has sent

toolCallVars == <<tools, executor, transfers, bell>>

\* How a call is dispatched: a call the executor refuses, an inline tool, a
\* background tool with or without a subagent, and the transfer tool.
Kinds == {"refused", "inline", "local", "handoff", "transfer"}

NoTool == [kind |-> "none", covered |-> FALSE, phase |-> "none", runs |-> 0,
           pending |-> FALSE, aborted |-> FALSE,
           replies |-> 0, outcome |-> "none"]

Note(src, text, high) == [src |-> src, text |-> text, high |-> high]

ToolCallInit ==
  /\ tools = [c \in ToolCallIds |-> NoTool]
  /\ executor = 1 /\ transfers = 0
  /\ bell = [queue |-> <<>>, audio |-> FALSE, interrupted |-> FALSE, held |-> FALSE,
             notified |-> {}, sent |-> {}, dropped |-> {}, hosts |-> 0, over |-> FALSE]

(***************************************************************************)
(* BackgroundNotificationQueue.                                            *)
(***************************************************************************)
Send(b, n) == [b EXCEPT !.sent = @ \cup {n},
                        !.over = @ \/ b.held \/ (b.audio /\ ~(n.high /\ CanTruncate))]

EnqueueSend(b, n) == [b EXCEPT !.queue = IF n.high THEN <<n>> \o @ ELSE Append(@, n)]

\* Mutant: a high priority is delivered at once on every transport.
SendOrQueueAtOnce(b, n, dedup) ==
  IF dedup /\ n.src \in b.notified THEN b
  ELSE LET marked == IF dedup THEN [b EXCEPT !.notified = @ \cup {n.src}] ELSE b
       IN IF b.held THEN EnqueueSend(marked, n)
          ELSE IF b.audio /\ ~n.high THEN EnqueueSend(marked, n) ELSE Send(marked, n)

SendOrQueue(b, n, dedup) ==
  IF dedup /\ n.src \in b.notified THEN b
  ELSE LET marked == IF dedup THEN [b EXCEPT !.notified = @ \cup {n.src}] ELSE b
           waits == b.held \/ (b.audio /\ ~(n.high /\ CanTruncate))
       IN IF waits THEN EnqueueSend(marked, n) ELSE Send(marked, n)

FlushOne(b) ==
  IF b.held \/ b.queue = <<>> THEN b
  ELSE Send([b EXCEPT !.queue = Tail(@)], Head(b.queue))

AudioStarted == bell' = [bell EXCEPT !.audio = TRUE]

ResetAudio == bell' = [bell EXCEPT !.audio = FALSE]

Interrupted == bell' = [bell EXCEPT !.interrupted = TRUE]

SetHeld(h) == bell' = [bell EXCEPT !.held = h]

\* A turn the user interrupted flushes nothing.
TurnComplete ==
  LET reset == [bell EXCEPT !.audio = FALSE, !.interrupted = FALSE]
  IN bell' = IF bell.interrupted THEN reset ELSE FlushOne(reset)

Publish(high) ==
  /\ bell.hosts < MaxHostNotes
  /\ bell' = SendOrQueue([bell EXCEPT !.hosts = @ + 1],
                         Note(0, "host", high), FALSE)

\* The session closes: what is queued is dropped, and calls may be told again.
ClearQueue ==
  bell' = [bell EXCEPT !.dropped = @ \cup {bell.queue[i] : i \in DOMAIN bell.queue},
                       !.queue = <<>>, !.notified = {}]

BellNext ==
  /\ \/ AudioStarted \/ ResetAudio \/ Interrupted \/ TurnComplete \/ ClearQueue
     \/ \E h \in BOOLEAN : SetHeld(h) \/ Publish(h)
  /\ UNCHANGED <<tools, executor, transfers>>

(***************************************************************************)
(* ToolExecutor.  A call is refused at once, or runs until it settles or   *)
(* times out; a cancellation takes it out of the pending map only.         *)
(***************************************************************************)
Execute(t) ==
  IF t.kind = "refused" THEN [t EXCEPT !.phase = "settled", !.outcome = "error"]
  ELSE [t EXCEPT !.phase = "running", !.runs = executor, !.pending = TRUE]

\* The finally block: the call leaves the pending map, its controller is gone.
Settled(t, outcome) ==
  [t EXCEPT !.phase = "settled", !.outcome = outcome,
            !.runs = 0, !.pending = FALSE, !.aborted = FALSE]

Reply(t) == [t EXCEPT !.replies = @ + 1]

(***************************************************************************)
(* ToolCallRouter.  A background call is answered before it runs: by its   *)
(* pending message, or, run locally, by an acceptance.                     *)
(***************************************************************************)
HandleBackground(t) ==
  LET answered == IF t.covered THEN Reply(t) ELSE t
  IN IF t.kind = "handoff" THEN [answered EXCEPT !.phase = "handed"]
     ELSE Execute(IF t.covered THEN answered ELSE Reply(answered))

Dispatch(t) ==
  CASE t.kind = "transfer" -> [Reply(t) EXCEPT !.phase = "done"]
    [] t.kind \in {"local", "handoff"} -> HandleBackground(t)
    [] OTHER -> Execute(t)

Issued(kind, covered) == [NoTool EXCEPT !.kind = kind, !.covered = covered]

\* The calls of one message, in their order; a transfer ends the loop, and the
\* calls behind it are neither run nor answered.
HandleToolCalls(batch, kinds, covered) ==
  LET cut == {i \in DOMAIN batch : \E j \in 1..(i - 1) : kinds[j] = "transfer"}
      pos(c) == CHOOSE i \in DOMAIN batch : batch[i] = c
      issued(c) == Issued(kinds[pos(c)], covered[pos(c)])
  IN /\ \A c \in ToolCallIds : tools[c].phase = "none" <=> c >= batch[1]
     /\ tools' = [c \in ToolCallIds |->
          IF \A i \in DOMAIN batch : batch[i] # c THEN tools[c]
          ELSE IF pos(c) \in cut THEN [issued(c) EXCEPT !.phase = "unread"]
          ELSE Dispatch(issued(c))]
     /\ transfers' = transfers + IF \E i \in DOMAIN batch : kinds[i] = "transfer" THEN 1 ELSE 0
     /\ executor + transfers' <= MaxExecutors
     /\ UNCHANGED <<executor, bell>>

\* The executor's promise resolves, an error included, and the router tells
\* the model: by the result, or by a notification that says "completed".
Resolved(c) ==
  LET t == tools[c]
      quiet == t.kind \in {"local"}
  IN /\ tools' = [tools EXCEPT ![c] = IF quiet THEN [t EXCEPT !.phase = "done"]
                                               ELSE [Reply(t) EXCEPT !.phase = "done"]]
     /\ bell' = IF quiet /\ t.covered THEN SendOrQueue(bell, Note(c, "completed", FALSE), FALSE)
                                      ELSE bell
     /\ t.phase = "settled"
     /\ UNCHANGED <<executor, transfers>>

InlineToolSettles(c, ok) ==
  /\ tools[c].phase = "running"
  /\ tools' = [tools EXCEPT ![c] = Settled(@, IF ok THEN "ok" ELSE "error")]
  /\ UNCHANGED <<executor, transfers, bell>>

ToolTimesOut(c) ==
  /\ tools[c].phase = "running"
  /\ tools' = [tools EXCEPT ![c] = Settled(@, "error")]
  /\ UNCHANGED <<executor, transfers, bell>>

\* The subagent's result or failure.
HandoffSettles(c, ok) ==
  LET t == tools[c]
      text == IF ok THEN "completed" ELSE "failed"
  IN /\ t.phase = "handed"
     /\ tools' = [tools EXCEPT ![c] =
          [IF t.covered THEN t ELSE Reply(t) EXCEPT !.phase = "done",
                                                    !.outcome = IF ok THEN "ok" ELSE "error"]]
     /\ bell' = IF t.covered THEN SendOrQueue(bell, Note(c, text, FALSE), TRUE) ELSE bell
     /\ UNCHANGED <<executor, transfers>>

\* Cancels what the current executor has pending; a call that an executor of
\* before the transfer runs is not found, and runs on.
HandleToolCallCancellation(c) ==
  /\ tools[c].pending /\ tools[c].runs = executor
  /\ tools' = [tools EXCEPT ![c].pending = FALSE, ![c].aborted = TRUE]
  /\ UNCHANGED <<executor, transfers, bell>>

\* A transfer that succeeds installs a new executor; the old one's calls run on.
TransferToolSettles(ok) ==
  /\ transfers > 0
  /\ transfers' = transfers - 1
  /\ executor' = IF ok THEN executor + 1 ELSE executor
  /\ UNCHANGED <<tools, bell>>

\* The model numbers its calls, and sends one or two in a message.
Batches == {<<c>> : c \in ToolCallIds} \cup {<<c, c + 1>> : c \in {d \in ToolCallIds : d + 1 \in ToolCallIds}}

ToolCallNext ==
  \/ \E batch \in Batches :
       \E kinds \in [DOMAIN batch -> Kinds], covered \in [DOMAIN batch -> BOOLEAN] :
         HandleToolCalls(batch, kinds, covered)
  \/ \E c \in ToolCallIds :
       \/ Resolved(c) \/ ToolTimesOut(c) \/ HandleToolCallCancellation(c)
       \/ \E ok \in BOOLEAN : InlineToolSettles(c, ok) \/ HandoffSettles(c, ok)
  \/ \E ok \in BOOLEAN : TransferToolSettles(ok)
  \/ BellNext

ToolCallSpec == ToolCallInit /\ [][ToolCallNext]_toolCallVars

-----------------------------------------------------------------------------
ToolCallTypeOK ==
  /\ \A c \in ToolCallIds :
       /\ tools[c].phase \in {"none", "unread", "running", "handed", "settled", "done"}
       /\ tools[c].runs \in 0..MaxExecutors /\ tools[c].replies \in 0..2
  /\ executor \in 1..MaxExecutors /\ transfers \in 0..MaxExecutors
  /\ bell.hosts \in 0..MaxHostNotes

\* The model gets one answer for each call that was dispatched: at once for a
\* background tool that has something to say, else when the call is over.
AnsweredOnce ==
  \A c \in ToolCallIds :
    LET t == tools[c]
        early == t.kind = "local" \/ (t.kind = "handoff" /\ t.covered)
    IN t.replies = IF t.phase \in {"none", "unread"} THEN 0
                   ELSE IF t.phase = "done" \/ early THEN 1 ELSE 0

Noted(c) == {n \in bell.sent \cup bell.dropped : n.src = c}

Waiting(c) == {i \in DOMAIN bell.queue : bell.queue[i].src = c}

\* A call the pending message answered is told of once more, when it is over,
\* and that note waits, was sent, or was dropped as the session closed.
OutcomesAreToldOnce ==
  \A c \in ToolCallIds :
    Cardinality(Noted(c)) + Cardinality(Waiting(c)) =
      IF tools[c].phase = "done" /\ tools[c].covered /\ tools[c].kind \in {"local", "handoff"}
      THEN 1 ELSE 0

\* Nothing is sent while delivery is held, nor over the model's audio on a
\* transport that cannot truncate it.
NothingIsSentOverAudio == ~bell.over

\* A running call is pending in its executor unless it was cancelled there,
\* and only then is its signal aborted.
PendingIsExact ==
  \A c \in ToolCallIds :
    /\ tools[c].pending => tools[c].phase = "running"
    /\ tools[c].aborted <=> (tools[c].phase = "running" /\ ~tools[c].pending)

\* Every call of the model is answered once and its outcome told once, when
\* the model can hear it (router, executor and notification queue).
ToolCallsAreAnswered ==
  ToolCallTypeOK /\ AnsweredOnce /\ OutcomesAreToldOnce /\ NothingIsSentOverAudio /\ PendingIsExact
=============================================================================
