---------------------------- MODULE GeminiSending ----------------------------
(***************************************************************************)
(* What GeminiLiveTransport sends: the counters of its upstream slots, the *)
(* sends it puts aside while a server turn winds down, the configuration   *)
(* that waits for the next dial, and the replay of the history after a     *)
(* transfer.  The dictation guard wraps sendToolResult, sendContent and    *)
(* sendLiveText; a send put aside goes through the wrapper again when it   *)
(* is flushed.  Which server turn is open is the server's choice here (see *)
(* TurnTaking), and dials are atomic (see GeminiConnection).               *)
(***************************************************************************)
EXTENDS Integers, Sequences

CONSTANTS MaxSends,       \* sends the session makes
          MaxServerTurns, \* server turns
          MaxSessions     \* connections that complete their setup

ASSUME GeminiSendingAssumption ==
  {MaxSends, MaxServerTurns, MaxSessions} \subseteq Nat \ {0}

VARIABLES out,    \* the transport, see GeminiSendingInit
          guard,  \* the dictation guard: [held, results, contents]
          issued  \* history: the sends made and what became of their order

sendingVars == <<out, guard, issued>>

Slots == {"audio", "video", "text"}

\* UpstreamSlotCounters: how every attempt ended.
Outcomes == {"queued", "skippedNoSession", "skippedEmpty", "unsupportedMime", "threw"}

FreshCounters == [s \in Slots |->
                    [attempted |-> 0, ended |-> [o \in Outcomes |-> 0]]]

\* A send: its number, the method, and whether the guard put it aside before.
\* result: sendToolResult.  silent: one with scheduling 'silent'.
Sends == [n : 1 .. MaxSends,
          kind : {"result", "silent", "content", "live", "inline", "utterance"},
          aside : BOOLEAN,
          bad : BOOLEAN]      \* the socket throws, or there is no text

\* The slot a method counts on; a tool result counts on none.
SlotOf(kind) == CASE kind \in {"content", "live", "history"} -> "text"
                  [] kind \in {"utterance", "audio"} -> "audio"
                  [] OTHER -> "video"

\* The tools: declared NON_BLOCKING or not, staged and on the connection.
GeminiSendingInit ==
  /\ out = [session |-> FALSE,
            made |-> 0,              \* connections that completed setup
            upstream |-> FreshCounters,
            turns |-> 0,             \* server turns so far
            open |-> FALSE,          \* a server turn is active or ended early
            windingDown |-> FALSE,
            buffer |-> <<>>,         \* _windingDownSendBuffer
            config |-> FALSE,        \* config.tools declares NON_BLOCKING
            live |-> FALSE,          \* liveBehaviors
            handle |-> FALSE]        \* effectiveResumptionHandle
  /\ guard = [held |-> FALSE, results |-> <<>>, contents |-> <<>>]
  /\ issued = [next |-> 1, last |-> 0,
               late |-> FALSE,       \* a send overtook an earlier one
               leaked |-> FALSE,     \* a guarded send went out while held
               answered |-> FALSE]   \* ... a silent one the server will answer

-----------------------------------------------------------------------------
(* Sending.  Each operator takes and returns the three variables as one    *)
(* record.                                                                 *)

Whole == [out |-> out, guard |-> guard, issued |-> issued]

BecomesOut(w) == out' = w.out /\ guard' = w.guard /\ issued' = w.issued

\* noteAttempt(), then noteSkip() or the outcome of sendTracked().
Account(w, slot, outcome) ==
  LET c == w.out.upstream[slot]
  IN  [w EXCEPT !.out.upstream[slot] =
         [attempted |-> c.attempted + 1,
          ended |-> [c.ended EXCEPT ![outcome] = c.ended[outcome] + 1]]]

\* How an attempt ends: a throw by the socket is counted and thrown on.
Outcome(w, kind, bad) ==
  CASE ~w.out.session -> "skippedNoSession"
    [] w.out.session /\ ~bad -> "queued"
    [] w.out.session /\ bad /\ kind = "file" -> "unsupportedMime"
    [] w.out.session /\ bad /\ kind \in {"content", "live"} -> "skippedEmpty"
    [] OTHER -> "threw"

\* The dispatch itself.  A result's scheduling goes along only for a function
\* the connection declared NON_BLOCKING.
SendOut(w, s) ==
  LET o    == Outcome(w, s.kind, s.bad)
      told == IF s.kind \in {"result", "silent"} THEN w ELSE Account(w, SlotOf(s.kind), o)
      i    == w.issued
  IN  IF o # "queued" THEN told
      ELSE [told EXCEPT !.issued =
             [next |-> i.next,
              last |-> IF s.aside THEN i.last ELSE s.n,
              late |-> i.late \/ (~s.aside /\ s.n < i.last),
              leaked |-> i.leaked \/ (w.guard.held /\ s.kind \in {"result", "content", "live"}),
              answered |-> i.answered \/ (w.guard.held /\ s.kind = "silent" /\ ~w.out.live)]]

\* Mutant: a tool result is not put aside.
SendNowResultPasses(w, s) ==
  IF w.out.session /\ w.out.windingDown /\ s.kind # "result"
  THEN [w EXCEPT !.out.buffer = Append(@, s)]
  ELSE SendOut(w, s)

\* The transport's own method: bufferIfWindingDown(), else the dispatch.
SendNow(w, s) ==
  IF w.out.session /\ w.out.windingDown
  THEN [w EXCEPT !.out.buffer = Append(@, s)]
  ELSE SendOut(w, s)

\* functionBehaviorOf(): by the current agent's tools, whatever the connection
\* was dialed with.
SilentHonoured(w) == w.out.config

\* The wrapper the dictation guard installs on the instance: a silent result
\* passes, live text is refused, the rest waits for agent mode.
SendThrough(w, s) ==
  LET aside == [s EXCEPT !.aside = TRUE]
  IN  CASE \/ ~w.guard.held
           \/ s.kind \in {"inline", "utterance"}
           \/ s.kind = "silent" /\ SilentHonoured(w) -> SendNow(w, s)
        [] w.guard.held /\ s.kind \in {"result", "silent"} \ (IF SilentHonoured(w) THEN {"silent"} ELSE {}) ->
             [w EXCEPT !.guard.results = Append(@, aside)]
        [] w.guard.held /\ s.kind = "content" -> [w EXCEPT !.guard.contents = Append(@, aside)]
        [] OTHER -> w

\* What was put aside goes out again in its order: by the instance's method, or
\* by the one the guard wrapped.
SendAgain(w, sends, wrapped) ==
  LET after[k \in 0 .. Len(sends)] ==
        IF k = 0 THEN w
        ELSE IF wrapped THEN SendThrough(after[k - 1], sends[k])
        ELSE SendNow(after[k - 1], sends[k])
  IN  after[Len(sends)]

\* flushWindingDownBuffer()
FlushBuffer(w) == SendAgain([w EXCEPT !.out.buffer = <<>>], w.out.buffer, TRUE)

-----------------------------------------------------------------------------
(* The session's calls.                                                    *)

\* The next send of the session, by the instance's method.
SessionSends(kind, bad) ==
  /\ issued.next <= MaxSends
  /\ BecomesOut(SendThrough([Whole EXCEPT !.issued.next = @ + 1],
                         [n |-> issued.next, kind |-> kind, aside |-> FALSE, bad |-> bad]))

SendFunctionResponse == \E kind \in {"result", "silent"} : SessionSends(kind, FALSE)

\* sendContent(): bad stands for no text at all.
SendContentTurns == \E bad \in BOOLEAN : SessionSends("content", bad)

SendLiveInput == \E bad \in BOOLEAN : SessionSends("live", bad)

SendInlineFile == \E bad \in BOOLEAN : SessionSends("inline", bad)

\* replayUserTurn(): a retained utterance, as a turn of its own.
ReplayUserTurn == \E bad \in BOOLEAN : SessionSends("utterance", bad)

\* Realtime input is never put aside.
RealtimeSend(kind, slot, bad) ==
  /\ issued.next <= MaxSends
  /\ BecomesOut(Account([Whole EXCEPT !.issued.next = @ + 1], slot, Outcome(Whole, kind, bad)))

SendAudio == RealtimeSend("audio", "audio", FALSE)

\* sendFile(): an image, or a type realtime input does not take.
SendFile == \E bad \in BOOLEAN : RealtimeSend("file", "video", bad)

\* updateSession(), updateTools(): staged for the next dial.
StageTools ==
  /\ out' = [out EXCEPT !.config = ~@]
  /\ UNCHANGED <<guard, issued>>

\* The session leaves agent mode, and returns: the results and then the turns
\* put aside go out by the methods the guard wrapped.
Hold ==
  /\ ~guard.held
  /\ guard' = [guard EXCEPT !.held = TRUE]
  /\ UNCHANGED <<out, issued>>

ReleaseGuard ==
  /\ guard.held
  /\ BecomesOut(SendAgain([Whole EXCEPT !.guard = [held |-> FALSE, results |-> <<>>,
                                                   contents |-> <<>>]],
                       guard.results \o guard.contents, FALSE))

-----------------------------------------------------------------------------
(* Connections.                                                            *)

\* detachSession() and resetServerTurnState(): what was put aside is lost.
Detached(o) ==
  [o EXCEPT !.session = FALSE, !.open = FALSE, !.windingDown = FALSE,
            !.buffer = <<>>]

\* A dial with the staged configuration completes its setup: the counters of
\* the new generation start at zero.
OnConnected(o) ==
  [o EXCEPT !.session = TRUE, !.made = @ + 1, !.upstream = FreshCounters,
            !.live = o.config]

\* connect(), by the owner.
ConnectSession ==
  /\ ~out.session /\ out.made < MaxSessions
  /\ out' = OnConnected(out)
  /\ UNCHANGED <<guard, issued>>

\* The socket closes, or the owner disconnects.
LoseSession ==
  /\ out.session
  /\ out' = Detached(out)
  /\ UNCHANGED <<guard, issued>>

\* replayHistory(): the whole history as one batch, at once, that asks nothing.
ReplayHistory(w) == Account(w, "text", Outcome(w, "history", FALSE))

\* transferSession(): the update staged, a new connection, and the history
\* for a session that did not resume.
TransferSession ==
  /\ out.made < MaxSessions
  /\ \E tools \in BOOLEAN, history \in BOOLEAN :
       LET dialed == [Whole EXCEPT !.out = OnConnected([Detached(out) EXCEPT !.config = tools])]
       IN  BecomesOut(IF history /\ ~out.handle
                   THEN ReplayHistory(dialed) ELSE dialed)

-----------------------------------------------------------------------------
(* The server.                                                             *)

\* sessionResumptionUpdate: a handle, or none while it cannot resume.
ServerHandle ==
  /\ out.session
  /\ out' = [out EXCEPT !.handle = ~@]
  /\ UNCHANGED <<guard, issued>>

\* beginServerTurn()
BeginServerTurn ==
  /\ out.session /\ ~out.open /\ out.turns < MaxServerTurns
  /\ out' = [out EXCEPT !.open = TRUE, !.turns = @ + 1, !.windingDown = FALSE]
  /\ UNCHANGED <<guard, issued>>

\* The turn was interrupted or ended for the session before its turnComplete.
WindDown ==
  /\ out.session /\ out.open /\ ~out.windingDown
  /\ out' = [out EXCEPT !.windingDown = TRUE]
  /\ UNCHANGED <<guard, issued>>

\* closeServerTurn(): turnComplete, or the timer that stands in for it.
CloseServerTurn ==
  /\ out.session /\ out.open
  /\ BecomesOut(FlushBuffer([Whole EXCEPT !.out.open = FALSE, !.out.windingDown = FALSE]))

SendingNext ==
  \/ SendFunctionResponse \/ SendContentTurns \/ SendLiveInput \/ SendInlineFile
  \/ ReplayUserTurn \/ SendAudio \/ SendFile
  \/ StageTools \/ Hold \/ ReleaseGuard
  \/ ConnectSession \/ LoseSession \/ TransferSession
  \/ ServerHandle \/ BeginServerTurn \/ WindDown \/ CloseServerTurn

SendingSpec == GeminiSendingInit /\ [][SendingNext]_sendingVars

-----------------------------------------------------------------------------
(* Properties.                                                             *)

SendingTypeOK ==
  /\ out.buffer \in Seq(Sends) /\ guard.results \in Seq(Sends) /\ guard.contents \in Seq(Sends)
  /\ out.turns \in 0 .. MaxServerTurns /\ out.made \in 0 .. MaxSessions

\* Every attempt of a connection ends in exactly one counted outcome, also one
\* put aside and counted when it is flushed.
EveryAttemptEnds ==
  \A s \in Slots :
    LET c == out.upstream[s]
    IN  c.attempted = c.ended["queued"] + c.ended["skippedNoSession"] + c.ended["skippedEmpty"]
                        + c.ended["unsupportedMime"] + c.ended["threw"]

\* What the session sends reaches the server in the order it sent it, whether
\* a server turn was winding down or not (sends the guard put aside excepted),
\* nothing waits once no turn winds down, and nothing that could start a
\* response goes out while the session holds the model, however long ago it
\* was put aside.
SendsAreOrderly ==
  /\ SendingTypeOK
  /\ EveryAttemptEnds
  /\ ~issued.late /\ ~issued.leaked
  /\ out.buffer # <<>> => out.session /\ out.windingDown

\* A silent result that passes while the session holds the model is one the
\* provider does not answer ("Where it is not honoured the provider answers it
\* like any result, so it waits for agent mode like any result"): the guard
\* goes by the agent's tools, the transport by what the connection declared.
SilentStaysSilent == ~issued.answered
=============================================================================
