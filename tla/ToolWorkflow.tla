---------------------------- MODULE ToolWorkflow ----------------------------
(***************************************************************************)
(* Tool calls in actor mode, from the provider's call to the result it     *)
(* gets: ToolRouterActor, which awaits one call after another,             *)
(* SubagentSupervisorActor, whose executions nobody awaits, and            *)
(* TransportActor, in front of the ToolResultGate.                         *)
(*                                                                         *)
(* The supervisor and the transport never await, so their mailboxes are    *)
(* drained before the event loop runs the next provider callback (Quiet);  *)
(* the router's may wait behind a call.  Promises settle at any point.     *)
(* A message with several calls is as many messages with one: the router   *)
(* dispatches them in order, and nothing else comes between.               *)
(***************************************************************************)
EXTENDS ToolResultGate, Sequences

CONSTANTS Transfers,   \* transfer_to_agent calls
          Background,  \* calls of background tools; the others run inline
          Pending,     \* background calls answered at once by a pendingMessage
          NoCall

ASSUME WorkflowAssumption ==
  /\ Transfers \subseteq Calls /\ Background \subseteq Calls \ Transfers
  /\ Pending \subseteq Background
  /\ Silent \subseteq Background \ Pending
  /\ NoCall \notin Calls

VARIABLES routerMail,     \* mailbox of 'tool-router'
          awaiting,       \* the call whose promise the router awaits
          supervisorMail, \* mailbox of 'subagent-supervisor'
          workflows,      \* SubagentSupervisorActor.workflows, by tool call
          executing,      \* runExecution promises that have not settled
          aborted,        \* workflows whose AbortController was aborted
          transportMail   \* results in the mailbox of 'transport'

supervisor == <<workflows, executing, aborted>>
mailboxes == <<routerMail, awaiting, supervisorMail, transportMail>>

vars == <<gateVars, supervisor, mailboxes>>

RouterMessage == [type : {"call", "cancel"}, id : Calls]

SupervisorMessage == [type : {"spawn", "cancel"}, id : Calls]

Init ==
  /\ GateInit
  /\ routerMail = <<>> /\ awaiting = NoCall
  /\ supervisorMail = <<>> /\ transportMail = <<>>
  /\ workflows = {} /\ executing = {} /\ aborted = {}

-----------------------------------------------------------------------------
(* The provider and the session.                                           *)

Quiet ==
  /\ supervisorMail = <<>> /\ transportMail = <<>>
  /\ awaiting = NoCall => routerMail = <<>>

ReceiveCall(c) ==
  /\ Quiet
  /\ IssueCall(c)
  /\ routerMail' = Append(routerMail, [type |-> "call", id |-> c])
  /\ UNCHANGED <<awaiting, supervisorMail, transportMail, supervisor>>

CancelOvertakes(c) ==
  /\ Quiet
  /\ CancelCall(c)
  /\ supervisorMail' = Append(supervisorMail, [type |-> "cancel", id |-> c])
  /\ UNCHANGED <<routerMail, awaiting, transportMail, supervisor>>

\* An inline tool's signal is aborted too, which does not settle its promise.
ReceiveCancel(c) ==
  /\ Quiet
  /\ CancelCall(c)
  /\ routerMail' = Append(routerMail, [type |-> "cancel", id |-> c])
  /\ UNCHANGED <<awaiting, supervisorMail, transportMail, supervisor>>

\* The mutation queue runs a mode flip and an agent transfer one at a time.
SessionStep ==
  /\ Quiet
  /\ ConnectionStep \/ (BeginFlip /\ awaiting \notin Transfers)
  /\ UNCHANGED <<mailboxes, supervisor>>

FlipSettles ==
  /\ EndFlip
  /\ UNCHANGED <<mailboxes, supervisor>>

-----------------------------------------------------------------------------
(* ToolRouterActor.                                                        *)

TakeRouted(type) ==
  /\ awaiting = NoCall
  /\ routerMail # <<>>
  /\ Head(routerMail).type = type
  /\ routerMail' = Tail(routerMail)

\* Transfers and inline tools: the mailbox waits for the promise.
DispatchAwaited ==
  /\ TakeRouted("call")
  /\ Head(routerMail).id \notin Background
  /\ awaiting' = Head(routerMail).id
  /\ UNCHANGED <<supervisorMail, transportMail, supervisor, gateVars>>

DispatchBackgroundTwice ==
  /\ TakeRouted("call")
  /\ Head(routerMail).id \in Background
  /\ transportMail' = Append(transportMail, Head(routerMail).id)
  /\ supervisorMail' = Append(supervisorMail, [type |-> "spawn", id |-> Head(routerMail).id])
  /\ UNCHANGED <<awaiting, supervisor, gateVars>>

\* The pending result goes out before the workflow is spawned.
DispatchBackground ==
  /\ TakeRouted("call")
  /\ Head(routerMail).id \in Background
  /\ transportMail' = IF Head(routerMail).id \in Pending
                      THEN Append(transportMail, Head(routerMail).id)
                      ELSE transportMail
  /\ supervisorMail' = Append(supervisorMail, [type |-> "spawn", id |-> Head(routerMail).id])
  /\ UNCHANGED <<awaiting, supervisor, gateVars>>

RouteCancel ==
  /\ TakeRouted("cancel")
  /\ supervisorMail' = Append(supervisorMail, [type |-> "cancel", id |-> Head(routerMail).id])
  /\ UNCHANGED <<awaiting, transportMail, supervisor, gateVars>>

SettlesUnlessCancelled(c) ==
  /\ awaiting = c
  /\ c \in Transfers => flip = "none"
  /\ awaiting' = NoCall
  /\ transportMail' = IF c \in cancelled THEN transportMail ELSE Append(transportMail, c)
  /\ UNCHANGED <<routerMail, supervisorMail, supervisor, gateVars>>

\* Resolved or rejected, the call gets a result.
AwaitedSettles(c) ==
  /\ awaiting = c
  /\ c \in Transfers => flip = "none"
  /\ awaiting' = NoCall
  /\ transportMail' = Append(transportMail, c)
  /\ UNCHANGED <<routerMail, supervisorMail, supervisor, gateVars>>

-----------------------------------------------------------------------------
(* SubagentSupervisorActor.                                                *)

TakeSupervised(type, c) ==
  /\ supervisorMail # <<>>
  /\ Head(supervisorMail) = [type |-> type, id |-> c]
  /\ supervisorMail' = Tail(supervisorMail)
  /\ UNCHANGED <<routerMail, awaiting, transportMail, gateVars>>

HandleSpawnRequest(c) ==
  /\ TakeSupervised("spawn", c)
  /\ workflows' = workflows \cup {c}
  /\ executing' = executing \cup {c}
  /\ UNCHANGED aborted

HandleCancelRequest(c) ==
  /\ TakeSupervised("cancel", c)
  /\ aborted' = IF c \in workflows THEN aborted \cup {c} ELSE aborted
  /\ workflows' = workflows \ {c}
  /\ UNCHANGED executing

\* handleCompleted and handleFailed: no second result for a pending call.
Finish(c) ==
  /\ workflows' = workflows \ {c}
  /\ transportMail' = IF c \in Pending THEN transportMail ELSE Append(transportMail, c)

ExecutionSettles(c) ==
  /\ c \in executing
  /\ executing' = executing \ {c}
  /\ \/ c \in workflows /\ Finish(c)
     \/ c \notin workflows /\ UNCHANGED <<workflows, transportMail>>
     \/ c \in aborted /\ UNCHANGED <<workflows, transportMail>>
  /\ UNCHANGED <<routerMail, awaiting, supervisorMail, aborted, gateVars>>

-----------------------------------------------------------------------------
(* TransportActor.                                                         *)

WriteToolResult ==
  /\ transportMail # <<>>
  /\ transportMail' = Tail(transportMail)
  /\ SendToolResult(Head(transportMail))
  /\ UNCHANGED <<routerMail, awaiting, supervisorMail, supervisor>>

-----------------------------------------------------------------------------

ProviderStep == \E c \in Calls : ReceiveCall(c) \/ ReceiveCancel(c)

RouterStep == DispatchAwaited \/ DispatchBackground \/ RouteCancel

SupervisorStep == \E c \in Calls : HandleSpawnRequest(c) \/ HandleCancelRequest(c)

Settle == \E c \in Calls : AwaitedSettles(c) \/ ExecutionSettles(c)

Next ==
  \/ ProviderStep \/ SessionStep \/ FlipSettles
  \/ RouterStep \/ SupervisorStep \/ Settle \/ WriteToolResult

\* The mailboxes are drained; an inline tool settles by its timeout and a
\* transfer by the timeouts of its reconnect.  An execution may never settle.
Spec ==
  /\ Init
  /\ [][Next]_vars
  /\ WF_vars(RouterStep)
  /\ WF_vars(SupervisorStep)
  /\ WF_vars(WriteToolResult)
  /\ WF_vars(\E c \in Calls : AwaitedSettles(c))
  /\ WF_vars(FlipSettles)

-----------------------------------------------------------------------------
(* Properties.                                                             *)

\* The state variables hold what the fields and mailboxes can hold.
TypeOK ==
  /\ GateTypeOK
  /\ routerMail \in Seq(RouterMessage)
  /\ awaiting \in Calls \cup {NoCall}
  /\ supervisorMail \in Seq(SupervisorMessage)
  /\ workflows \subseteq Calls /\ executing \subseteq Calls /\ aborted \subseteq Calls
  /\ transportMail \in Seq(Calls)

\* Router, supervisor and transport together hand the gate at most one result
\* per call, whatever is cancelled, held or reconnected meanwhile: they
\* implement the caller the gate was specified for.
ImplementsGate == GateInit /\ [][GateNext]_gateVars

\* A cancelled background task does not go on: its cancel never overtakes its
\* spawn, however long the router was held up by another call.
CancelledTasksStop ==
  awaiting = NoCall /\ routerMail = <<>> /\ supervisorMail = <<>>
    => workflows \cap cancelled = {}

\* Every workflow the supervisor lists has a live execution whose end removes
\* it: none can stay listed, and count as active, forever.
WorkflowsRun == workflows \subseteq executing \ aborted

\* A call that blocks the model is answered, even with a background task that
\* never ends and with other calls queued before it.
CallsAnswered ==
  \A c \in Calls \ (Background \ Pending) : issuedIn[c] # 0 ~> sends[c] > 0

\* The supervisor's books follow its tasks: what is listed runs, and what was
\* cancelled is not listed once the messages about it are handled.
TasksAreInHand == WorkflowsRun /\ CancelledTasksStop

\* host-recovery.ts says the fence "drops work that belongs to a provider
\* connection a host recovery has abandoned, ...: tool results for calls the old
\* connection issued".
StaleResultsDropped ==
  [][\A c \in Calls : written'[c] # written[c] => issuedIn[c] = era]_vars
=============================================================================
