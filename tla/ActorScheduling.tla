--------------------------- MODULE ActorScheduling --------------------------
(***************************************************************************)
(* The actor runtime as such: mailboxes, the supervisor and its restart    *)
(* budget, the orchestrator that starts the actors in order and stops them *)
(* in reverse, and the two actors that hold no session state of their own, *)
(* MainAgentActor and ClientGatewayActor.                                  *)
(*                                                                         *)
(* Actors are numbered in the order in which they start; actor 1 is the    *)
(* one that the others greet from their onStart and onStop (notification). *)
(* A handler is suspended at its awaits; a mailbox that the runtime has    *)
(* forgotten goes on draining, because nothing clears its queue.           *)
(***************************************************************************)
EXTENDS Naturals, Sequences, FiniteSets

CONSTANTS NumActors,      \* actors of the orchestrator
          MaxMail,        \* bound: envelopes
          Actions,        \* supervision actions of the actors
          MaxActorRestarts,    \* maxRestarts of a restart policy
          RestartWindow,  \* its window, in ticks
          MaxTicks,       \* bound: the clock
          DeskAgents,     \* agents registered with the MainAgentActor
          Stranger,       \* the name of no registered agent
          MaxTransferAsks, \* bound: transfer requests
          GatewayCalls    \* tool calls whose end reaches the client gateway

ASSUME SchedulingAssumption ==
  /\ NumActors \in Nat \ {0} /\ MaxMail \in Nat /\ MaxTicks \in Nat
  /\ Actions \subseteq {"restart", "stop", "escalate", "resume"}
  /\ MaxActorRestarts \in Nat /\ RestartWindow \in Nat \ {0}
  /\ DeskAgents # {} /\ Stranger \notin DeskAgents /\ MaxTransferAsks \in Nat

VARIABLES orch,     \* RuntimeOrchestrator: phase and the actor it is at
          boxes,    \* each actor's entry and mailbox
          mail,     \* envelopes sent, and what became of them
          policies, \* the supervision action of each actor
          clock,
          desk,     \* MainAgentActor
          gateway   \* ClientGatewayActor

schedVars == <<orch, boxes, mail, policies, clock>>

actorSchedulingVars == <<schedVars, desk, gateway>>

Ids == 1..NumActors

\* handling: the envelopes whose onMessage is pending; stops, starts: restarts
\* in their onStop and in their onStart; granted: when each restart was ever
\* granted; stamps: those of them that the supervisor still counts.
NewBox == [listed |-> FALSE, queue |-> <<>>, handling |-> {}, stops |-> 0, starts |-> 0,
           stamps |-> {}, granted |-> <<>>]

SchedInit ==
  /\ orch = [phase |-> "new", at |-> 0]
  /\ boxes = [a \in Ids |-> NewBox]
  /\ mail = [sent |-> 0, dead |-> 0, done |-> 0]
  /\ policies \in [Ids -> Actions]
  /\ clock = 0

DeskInit ==
  /\ desk \in [active : DeskAgents, asked : {0}, queue : {<<>>}, step : {"idle"}, to : DeskAgents,
               wire : DeskAgents, completed : {0}, failed : {0}, thrown : {0}]
  /\ desk.to = desk.active /\ desk.wire = desk.active
  /\ gateway = [notified |-> {}, told |-> [c \in GatewayCalls |-> 0]]

ActorSchedulingInit == SchedInit /\ DeskInit

(***************************************************************************)
(* The mailbox.                                                            *)
(***************************************************************************)
ProcessNext(b) ==
  IF b.queue = <<>> THEN b
  ELSE [b EXCEPT !.handling = @ \cup {Head(b.queue)}, !.queue = Tail(@)]

Put(b, n) ==
  LET put == [b EXCEPT !.queue = Append(@, n)]
  IN IF b.handling = {} THEN ProcessNext(put) ELSE put

\* An envelope for an actor that is not registered is a dead letter.
SendTo(bs, m, a) ==
  LET n == m.sent + 1
  IN IF bs[a].listed
     THEN [boxes |-> [bs EXCEPT ![a] = Put(@, n)], mail |-> [m EXCEPT !.sent = n]]
     ELSE [boxes |-> bs, mail |-> [m EXCEPT !.sent = n, !.dead = @ + 1]]

Becomes(after) == boxes' = after.boxes /\ mail' = after.mail

Post(bs) == [boxes |-> bs, mail |-> mail]

\* Actors 2 and up greet actor 1 when they start and when they stop.
Greeting(a, at) == IF a > 1 THEN SendTo(at.boxes, at.mail, 1) ELSE at

\* Bound: there is room for what actor a may send.
Room(a) == mail.sent + (IF a > 1 THEN 1 ELSE 0) <= MaxMail

TellActor(a) ==
  /\ mail.sent < MaxMail
  /\ Becomes(SendTo(boxes, mail, a))
  /\ UNCHANGED <<orch, policies, clock>>

(***************************************************************************)
(* The supervisor.  A restart is granted while the window holds fewer than *)
(* the most; an escalation has nobody to go to and is logged.              *)
(***************************************************************************)
Recent(b) == {i \in b.stamps : clock - b.granted[i] < RestartWindow}

HandleRestart(b) ==
  LET kept == Recent(b)
  IN IF Cardinality(kept) >= MaxActorRestarts THEN [b EXCEPT !.stamps = kept]
     ELSE [b EXCEPT !.stamps = kept \cup {Len(b.granted) + 1}, !.granted = Append(@, clock),
                    !.stops = @ + 1]

\* restartActor and stopActor find no entry once the actor is forgotten; the
\* supervisor has counted the restart all the same.
ApplyDecision(a, b) ==
  CASE policies[a] = "restart" -> IF b.listed THEN HandleRestart(b)
                                  ELSE [HandleRestart(b) EXCEPT !.stops = b.stops]
    [] policies[a] = "stop" -> [b EXCEPT !.listed = FALSE]
    [] OTHER -> b

\* onMessage settles; a failure is decided on before the next envelope, and
\* the greetings of its onStop go out with the decision.
HandlerSettles(a, n, ok) ==
  LET settled == [boxes[a] EXCEPT !.handling = @ \ {n}]
      decided == IF ok THEN settled ELSE ApplyDecision(a, settled)
      acted == decided.stops # settled.stops \/ (settled.listed /\ ~decided.listed)
      told == IF acted THEN Greeting(a, Post([boxes EXCEPT ![a] = decided]))
                       ELSE Post([boxes EXCEPT ![a] = decided])
  IN /\ n \in boxes[a].handling
     /\ acted => Room(a)
     /\ boxes' = [told.boxes EXCEPT ![a] = IF @.handling = {} THEN ProcessNext(@) ELSE @]
     /\ mail' = [told.mail EXCEPT !.done = @ + 1]
     /\ UNCHANGED <<orch, policies, clock>>

\* A restart goes on from its onStop, whatever has happened to the actor.
RestartStops(a) ==
  /\ boxes[a].stops > 0 /\ Room(a)
  /\ Becomes(Greeting(a, Post([boxes EXCEPT ![a].stops = @ - 1, ![a].starts = @ + 1])))
  /\ UNCHANGED <<orch, policies, clock>>

RestartStarts(a) ==
  /\ boxes[a].starts > 0
  /\ boxes' = [boxes EXCEPT ![a].starts = @ - 1]
  /\ UNCHANGED <<orch, mail, policies, clock>>

Tick ==
  /\ clock < MaxTicks /\ clock' = clock + 1
  /\ UNCHANGED <<orch, boxes, mail, policies>>

(***************************************************************************)
(* The orchestrator awaits each actor's onStart and, in reverse, its       *)
(* onStop; each of them greets before it awaits.                           *)
(***************************************************************************)
StartActor(a) ==
  /\ orch.phase \in {"new", "starting"} /\ a = orch.at + 1 /\ Room(a)
  /\ orch' = [phase |-> IF a = NumActors THEN "running" ELSE "starting", at |-> a]
  /\ Becomes(Greeting(a, Post([boxes EXCEPT ![a].listed = TRUE])))
  /\ UNCHANGED <<policies, clock>>

\* An actor that its supervisor stopped is not on stopAll's list.
StopActor(a) ==
  /\ orch.phase \in {"running", "stopping"} /\ a = orch.at /\ Room(a)
  /\ orch' = [phase |-> IF a = 1 THEN "stopped" ELSE "stopping", at |-> a - 1]
  /\ IF boxes[a].listed
     THEN Becomes(Greeting(a, Post([boxes EXCEPT ![a].listed = FALSE])))
     ELSE UNCHANGED <<boxes, mail>>
  /\ UNCHANGED <<policies, clock>>

SchedNext ==
  \/ \E a \in Ids :
       \/ TellActor(a) \/ RestartStops(a) \/ RestartStarts(a) \/ StartActor(a) \/ StopActor(a)
       \/ \E n \in 1..MaxMail, ok \in BOOLEAN : HandlerSettles(a, n, ok)
  \/ Tick

(***************************************************************************)
(* MainAgentActor: transfers one after the other, each suspended in the    *)
(* old agent's onExit and in the new agent's onEnter.                      *)
(***************************************************************************)
TransferRequested(to) ==
  /\ desk.asked < MaxTransferAsks
  /\ desk' = [desk EXCEPT !.asked = @ + 1, !.queue = Append(@, to)]

\* A request for an agent that nobody registered fails when its turn comes.
TransferBegins ==
  /\ desk.step = "idle" /\ desk.queue # <<>>
  /\ desk' = IF Head(desk.queue) \in DeskAgents
             THEN [desk EXCEPT !.to = Head(desk.queue), !.queue = Tail(@), !.step = "exit"]
             ELSE [desk EXCEPT !.queue = Tail(@), !.failed = @ + 1]

\* onExit settles: the transport is told, and the agent is active before its
\* onEnter has run.
ExitSettles(ok) ==
  /\ desk.step = "exit"
  /\ desk' = IF ok THEN [desk EXCEPT !.wire = desk.to, !.active = desk.to, !.step = "enter"]
             ELSE [desk EXCEPT !.failed = @ + 1, !.step = "idle"]

\* Mutant: the transfer is reported before onEnter has settled.
EnterSettlesEarly(how) ==
  /\ desk.step = "enter"
  /\ desk' = [desk EXCEPT !.completed = @ + 1, !.failed = @ + (IF how = "entered" THEN 0 ELSE 1),
                          !.thrown = @ + (IF how = "hook throws" THEN 1 ELSE 0), !.step = "idle"]

\* onEnter settles.  The host's onAgentTransfer runs after the transfer was
\* reported and inside the same try: when it throws, the transfer failed as well.
EnterSettles(how) ==
  /\ desk.step = "enter"
  /\ desk' = [desk EXCEPT !.completed = @ + (IF how = "enter throws" THEN 0 ELSE 1),
                          !.failed = @ + (IF how = "entered" THEN 0 ELSE 1),
                          !.thrown = @ + (IF how = "hook throws" THEN 1 ELSE 0), !.step = "idle"]

\* ClientGatewayActor: the first end of a call is told, and no other.
SubagentTerminal(c) ==
  /\ c \notin gateway.notified
  /\ gateway' = [notified |-> gateway.notified \cup {c}, told |-> [gateway.told EXCEPT ![c] = @ + 1]]
  /\ UNCHANGED desk

DeskNext ==
  \/ /\ \/ \E to \in DeskAgents \cup {Stranger} : TransferRequested(to)
        \/ TransferBegins
        \/ \E ok \in BOOLEAN : ExitSettles(ok)
        \/ \E how \in {"entered", "enter throws", "hook throws"} : EnterSettles(how)
     /\ UNCHANGED gateway
  \/ \E c \in GatewayCalls : SubagentTerminal(c)

ActorSchedulingNext ==
  \/ SchedNext /\ UNCHANGED <<desk, gateway>>
  \/ DeskNext /\ UNCHANGED schedVars

ActorSchedulingSpec == ActorSchedulingInit /\ [][ActorSchedulingNext]_actorSchedulingVars

-----------------------------------------------------------------------------
ActorSchedulingTypeOK ==
  /\ orch.phase \in {"new", "starting", "running", "stopping", "stopped"} /\ orch.at \in 0..NumActors
  /\ \A a \in Ids : boxes[a].handling \subseteq 1..MaxMail /\ boxes[a].queue \in Seq(1..MaxMail)
  /\ mail.sent \in 0..MaxMail /\ mail.dead + mail.done <= mail.sent
  /\ desk.active \in DeskAgents /\ desk.step \in {"idle", "exit", "enter"}

Queued(a) == {boxes[a].queue[i] : i \in DOMAIN boxes[a].queue}

\* "Per-actor message handling is serial": one onMessage at a time, in the
\* order of the envelopes, and a mailbox with an envelope is being drained,
\* through failures, restarts and stops (Mailbox of actor-runtime.ts).
MailboxesAreSerial ==
  \A a \in Ids :
    /\ Cardinality(boxes[a].handling) <= 1
    /\ boxes[a].queue # <<>> => boxes[a].handling # {}
    /\ \A n \in boxes[a].handling, q \in Queued(a) : n < q
    /\ \A i, j \in DOMAIN boxes[a].queue : i < j => boxes[a].queue[i] < boxes[a].queue[j]

\* Every envelope is handled once, waits in one mailbox or is a dead letter: a
\* failure, a restart or a stop loses none and handles none again.
MailIsAccounted ==
  LET held == UNION {boxes[a].handling \cup Queued(a) : a \in Ids}
  IN /\ Cardinality(held) + mail.dead + mail.done = mail.sent
     /\ \A a, b \in Ids : a # b =>
          (boxes[a].handling \cup Queued(a)) \cap (boxes[b].handling \cup Queued(b)) = {}

\* No window of time holds more grants of a restart than the actor's policy allows.
RestartsAreBounded ==
  \A a \in Ids : \A t \in 0..MaxTicks :
    Cardinality({i \in DOMAIN boxes[a].granted :
                   boxes[a].granted[i] <= t /\ t - boxes[a].granted[i] < RestartWindow}) <= MaxActorRestarts

\* Each transfer is answered, completed or failed, and once, save one whose
\* onAgentTransfer hook threw: that one completed and failed.  The agent that
\* answers is the agent whose configuration the transport was last given.
TransfersAreAnswered ==
  /\ desk.completed + desk.failed + Len(desk.queue) + (IF desk.step = "idle" THEN 0 ELSE 1)
       = desk.asked + desk.thrown
  /\ desk.thrown <= desk.completed /\ desk.thrown <= desk.failed
  /\ desk.active = desk.wire

\* The runtime keeps its promises to every actor, whatever fails and whenever
\* the orchestrator stops (mailbox, supervisor, main agent and gateway).
ActorsAreScheduled ==
  /\ ActorSchedulingTypeOK /\ MailboxesAreSerial /\ MailIsAccounted
  /\ RestartsAreBounded /\ TransfersAreAnswered
  /\ \A c \in GatewayCalls : gateway.told[c] <= 1
=============================================================================
