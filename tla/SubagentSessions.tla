-------------------------- MODULE SubagentSessions --------------------------
(***************************************************************************)
(* Background subagents of the legacy runtime: AgentRouter.handoff and     *)
(* cancelSubagent, runSubagent with its ask_user tool, the interactive     *)
(* SubagentSession, the InteractionModeManager that decides which subagent *)
(* the user is talking to, the three ways VoiceSession relays an answer,   *)
(* and the PersistentSubagentManager.                                      *)
(*                                                                         *)
(* Handlers run to completion; the run of a subagent is suspended in       *)
(* generateText ("thinking"), in waitForInput ("asking") or in dispose     *)
(* ("finishing").  A rejected wait fails the run before any other event.   *)
(***************************************************************************)
EXTENDS Naturals, Sequences, FiniteSets

CONSTANTS Handoffs,            \* tool calls handed off to interactive subagents
          MainAgent,           \* the interaction mode 'main_agent'
          MaxInputRetries,  \* maxInputRetries of the subagents
          MaxQuestions,     \* bound: questions asked
          PersistentKeys,   \* keys of persistent subagents
          MaxFactories      \* bound: factories started

ASSUME SubagentAssumption ==
  /\ MainAgent \notin Handoffs /\ MaxInputRetries \in Nat \ {0}
  /\ MaxQuestions \in Nat /\ MaxFactories \in Nat

VARIABLES subs,      \* each call's subagent
          talkMode,      \* InteractionModeManager.mode
          talkQueue,   \* InteractionModeManager.queue
          questions, \* questions asked so far
          keeper     \* PersistentSubagentManager

talkVars == <<subs, talkMode, talkQueue, questions>>

subagentVars == <<talkVars, keeper>>

SessionStates == {"running", "waiting_for_input", "completed", "cancelled"}

Terminal == {"completed", "cancelled"}

\* run: "none", "thinking", "asking", "finishing", "over"; clicks: the UI
\* requests registered; asked: the question waited on, 0 if none.
NoSub == [run |-> "none", state |-> "running", active |-> FALSE, pending |-> FALSE,
          asked |-> 0, requests |-> {}, aborted |-> FALSE, disposed |-> FALSE,
          outcome |-> "none", misled |-> FALSE]

Subagents == [run : {"none", "thinking", "asking", "finishing", "over"},
              state : SessionStates, active : BOOLEAN, pending : BOOLEAN,
              asked : 0..MaxQuestions, requests : SUBSET (1..MaxQuestions),
              aborted : BOOLEAN, disposed : BOOLEAN,
              outcome : {"none", "completed", "failed"}, misled : BOOLEAN]

NoKeeper == [instances |-> [k \in PersistentKeys |-> 0],
             inflight |-> [k \in PersistentKeys |-> 0],
             factories |-> {}, started |-> 0, live |-> {}, swept |-> FALSE]

SubagentInit ==
  /\ subs = [c \in Handoffs |-> NoSub]
  /\ talkMode = MainAgent /\ talkQueue = <<>>
  /\ questions = 0
  /\ keeper = NoKeeper

(***************************************************************************)
(* InteractionModeManager.  A talk is the pair of its mode and its queue.  *)
(***************************************************************************)
Activate(t, c) ==
  IF t.mode = MainAgent THEN [t EXCEPT !.mode = c] ELSE [t EXCEPT !.queue = Append(@, c)]

PromoteNext(t) ==
  IF t.queue = <<>> THEN [t EXCEPT !.mode = MainAgent]
                    ELSE [mode |-> Head(t.queue), queue |-> Tail(t.queue)]

FirstOf(c, s) == CHOOSE i \in DOMAIN s : s[i] = c /\ \A j \in 1..(i - 1) : s[j] # c

Without(i, s) == SubSeq(s, 1, i - 1) \o SubSeq(s, i + 1, Len(s))

\* Mutant: releasing the mode hands it to nobody although a subagent queues.
DeactivateForgets(t, c) ==
  IF t.mode = c THEN [t EXCEPT !.mode = MainAgent]
  ELSE IF \E i \in DOMAIN t.queue : t.queue[i] = c
       THEN [t EXCEPT !.queue = Without(FirstOf(c, @), @)]
       ELSE t

Deactivate(t, c) ==
  IF t.mode = c THEN PromoteNext(t)
  ELSE IF \E i \in DOMAIN t.queue : t.queue[i] = c
       THEN [t EXCEPT !.queue = Without(FirstOf(c, @), @)]
       ELSE t

Talk == [mode |-> talkMode, queue |-> talkQueue]

TalkIs(t) == talkMode' = t.mode /\ talkQueue' = t.queue

(***************************************************************************)
(* SubagentSessionImpl, and the end of runSubagent.                        *)
(***************************************************************************)
\* A rejected or thrown tool call fails generateText: the catch cancels the
\* session, and the finally block starts dispose.
RunFails(s) == [s EXCEPT !.run = "finishing", !.outcome = "failed", !.pending = FALSE,
                         !.asked = 0, !.disposed = TRUE,
                         !.state = IF @ \in Terminal THEN @ ELSE "cancelled"]

RunSucceeds(s) == [s EXCEPT !.run = "finishing", !.outcome = "completed", !.disposed = TRUE,
                            !.state = IF @ \in Terminal THEN @ ELSE "completed"]

\* cancel(): the wait that is rejected takes the run with it.
CancelSession(s) ==
  IF s.state \in Terminal THEN s
  ELSE IF s.pending THEN RunFails([s EXCEPT !.state = "cancelled"])
  ELSE [s EXCEPT !.state = "cancelled"]

\* The controller aborts: dispose runs while the listener is attached.
AbortRun(s) ==
  IF s.run \in {"thinking", "asking"} THEN [s EXCEPT !.aborted = TRUE, !.disposed = TRUE] ELSE s

\* A session that reached a terminal state gives up its place in the talk.
Ended(c, s, t) ==
  IF s.state \in Terminal /\ subs[c].state \notin Terminal THEN Deactivate(t, c) ELSE t

Becomes(c, s) ==
  /\ subs' = [subs EXCEPT ![c] = s]
  /\ TalkIs(Ended(c, s, Talk))
  /\ UNCHANGED questions

Handoff(c) ==
  /\ subs[c].run = "none"
  /\ subs' = [subs EXCEPT ![c].run = "thinking", ![c].active = TRUE]
  /\ UNCHANGED <<talkMode, talkQueue, questions>>

(***************************************************************************)
(* The ask_user tool.  The question reaches the user, and the mode, before *)
(* the wait starts; a second question in parallel finds the wait taken.    *)
(***************************************************************************)
Ask(c, options) ==
  LET s == subs[c]
      q == questions + 1
      registered == IF options THEN [s EXCEPT !.requests = @ \cup {q}] ELSE s
      waiting == [registered EXCEPT !.run = "asking", !.state = "waiting_for_input",
                                    !.pending = TRUE, !.asked = q]
      talk == IF s.state \in Terminal THEN Talk ELSE Activate(Talk, c)
      next == IF s.state \in Terminal \/ s.pending THEN RunFails(registered) ELSE waiting
  IN /\ s.run \in {"thinking", "asking"}
     /\ questions < MaxQuestions
     /\ questions' = q
     /\ subs' = [subs EXCEPT ![c] = next]
     /\ TalkIs(Ended(c, next, talk))

\* consecutiveTimeouts was reset by this question, so it is 1 here.  The
\* session stays in waiting_for_input and keeps its place in the talk.
InputTimeout(c) ==
  LET s == subs[c]
      late == [s EXCEPT !.pending = FALSE, !.asked = 0, !.run = "thinking"]
  IN /\ s.pending
     /\ Becomes(c, IF MaxInputRetries <= 1 THEN RunFails(late) ELSE late)

(***************************************************************************)
(* Answers of the user.                                                    *)
(***************************************************************************)
SendToSubagent(s, q) ==
  [s EXCEPT !.state = "running", !.pending = FALSE, !.asked = 0,
            !.run = IF s.pending THEN "thinking" ELSE @,
            !.misled = @ \/ (s.pending /\ q \notin {0, s.asked})]

\* Speech and typed text go to the subagent in the mode, while it waits.
InputFinalized ==
  /\ talkMode # MainAgent
  /\ subs[talkMode].active /\ subs[talkMode].state = "waiting_for_input"
  /\ subs' = [subs EXCEPT ![talkMode] = SendToSubagent(@, 0)]
  /\ TalkIs(Deactivate(Talk, talkMode))
  /\ UNCHANGED questions

\* A button goes to the subagent that ever registered its request, whatever
\* that subagent waits for now, and does not touch the mode.
UiResponse(c, q) ==
  /\ subs[c].active /\ q \in subs[c].requests
  /\ subs[c].state = "waiting_for_input"
  /\ subs' = [subs EXCEPT ![c] = SendToSubagent(@, q)]
  /\ UNCHANGED <<talkMode, talkQueue, questions>>

(***************************************************************************)
(* The end of a run: the model answers or fails, the tool call is          *)
(* cancelled, the caller aborts, or the subagent's own timeout fires.      *)
(***************************************************************************)
GenerateReturns(c) == subs[c].run = "thinking" /\ Becomes(c, RunSucceeds(subs[c]))

GenerateFails(c) == subs[c].run = "thinking" /\ Becomes(c, RunFails(subs[c]))

CancelSubagent(c) ==
  /\ subs[c].active
  /\ Becomes(c, [CancelSession(AbortRun(subs[c])) EXCEPT !.active = FALSE])

ExternalAbort(c) ==
  /\ subs[c].run \in {"thinking", "asking", "finishing"}
  /\ Becomes(c, AbortRun(CancelSession(subs[c])))

\* The timeout aborts the model call; a question that waits goes on waiting.
RunTimeout(c) ==
  /\ subs[c].run \in {"thinking", "asking"} /\ ~subs[c].aborted
  /\ Becomes(c, AbortRun(subs[c]))

\* dispose settles; one that throws replaces the result by its error.
DisposeSettles(c, throws) ==
  /\ subs[c].run = "finishing"
  /\ Becomes(c, [subs[c] EXCEPT !.run = "over", !.active = FALSE,
                                !.outcome = IF throws THEN "failed" ELSE @])

(***************************************************************************)
(* PersistentSubagentManager.  A factory is a pair of its key and number.  *)
(***************************************************************************)
Acquire(k) ==
  /\ keeper.instances[k] = 0 /\ keeper.inflight[k] = 0
  /\ keeper.started < MaxFactories
  /\ keeper' = [keeper EXCEPT !.started = @ + 1, !.inflight[k] = keeper.started + 1,
                              !.factories = @ \cup {<<k, keeper.started + 1>>}]

FactorySettles(f) ==
  /\ f \in keeper.factories
  /\ keeper' = [keeper EXCEPT !.factories = @ \ {f}, !.live = @ \cup {f},
                              !.instances[f[1]] = f[2], !.inflight[f[1]] = 0]

FactoryFails(f) ==
  /\ f \in keeper.factories
  /\ keeper' = [keeper EXCEPT !.factories = @ \ {f}, !.inflight[f[1]] = 0]

ReleasePersistent(k) ==
  /\ keeper.instances[k] # 0
  /\ keeper' = [keeper EXCEPT !.live = @ \ {<<k, keeper.instances[k]>>}, !.instances[k] = 0]

\* Factories in flight are forgotten, not awaited.
DisposeAllPersistent ==
  /\ ~keeper.swept
  /\ keeper' = [keeper EXCEPT !.swept = TRUE,
                              !.live = {f \in @ : keeper.instances[f[1]] # f[2]},
                              !.instances = [k \in PersistentKeys |-> 0],
                              !.inflight = [k \in PersistentKeys |-> 0]]

TalkNext ==
  \/ \E c \in Handoffs :
       \/ Handoff(c) \/ InputTimeout(c)
       \/ \E options \in BOOLEAN : Ask(c, options)
       \/ \E q \in 1..MaxQuestions : UiResponse(c, q)
       \/ GenerateReturns(c) \/ GenerateFails(c)
       \/ CancelSubagent(c) \/ ExternalAbort(c) \/ RunTimeout(c)
       \/ \E throws \in BOOLEAN : DisposeSettles(c, throws)
  \/ InputFinalized

KeeperNext ==
  \/ \E k \in PersistentKeys : Acquire(k) \/ ReleasePersistent(k)
  \/ \E f \in keeper.factories : FactorySettles(f) \/ FactoryFails(f)
  \/ DisposeAllPersistent

SubagentNext ==
  \/ TalkNext /\ UNCHANGED keeper
  \/ KeeperNext /\ UNCHANGED talkVars

SubagentSpec == SubagentInit /\ [][SubagentNext]_subagentVars

-----------------------------------------------------------------------------
SubagentTypeOK ==
  /\ subs \in [Handoffs -> Subagents]
  /\ talkMode \in Handoffs \cup {MainAgent} /\ talkQueue \in Seq(Handoffs)
  /\ questions \in 0..MaxQuestions
  /\ keeper.factories \subseteq PersistentKeys \X (1..MaxFactories)
  /\ keeper.live \subseteq PersistentKeys \X (1..MaxFactories)

\* A subagent that waits for the user is the one the user talks to or queues
\* for its turn, and nobody queues while the main agent has the user.
WaitingIsReachable ==
  /\ \A c \in Handoffs : subs[c].state = "waiting_for_input" =>
       talkMode = c \/ \E i \in DOMAIN talkQueue : talkQueue[i] = c
  /\ talkMode = MainAgent => talkQueue = <<>>

\* Nobody is left waiting in a session that is not, and a run that ended has
\* put its session into a terminal state and disposed of the subagent.
NoWaiterIsStranded ==
  \A c \in Handoffs :
    /\ subs[c].pending => subs[c].run = "asking" /\ subs[c].state = "waiting_for_input"
    /\ subs[c].run = "asking" => subs[c].pending
    /\ subs[c].run \in {"finishing", "over"} =>
         subs[c].state \in Terminal /\ subs[c].disposed
    /\ subs[c].run = "over" => ~subs[c].active

\* Until everything is disposed of, concurrent callers of a key share one
\* factory, and an instance that was made is the one the key leads to.
OneFactoryPerKey ==
  ~keeper.swept =>
    /\ \A f, g \in keeper.factories \cup keeper.live : f[1] = g[1] => f = g
    /\ \A f \in keeper.live : keeper.instances[f[1]] = f[2]

\* The books of the subagents, of the user's attention and of the persistent
\* instances agree at every moment (session, runner, mode and manager).
SubagentsAreKept ==
  SubagentTypeOK /\ WaitingIsReachable /\ NoWaiterIsStranded /\ OneFactoryPerKey

\* "clean up interaction mode": once no subagent runs, the user talks to the
\* main agent (the session-end callback of AgentRouter.handoff).
ModeIsReleased ==
  (\A c \in Handoffs : subs[c].run \in {"none", "over"}) => talkMode = MainAgent
=============================================================================
