------------------------------ MODULE MCWorkers -----------------------------
(***************************************************************************)
(* Instances of what works beside a conversation: the actors' scheduling,  *)
(* the work after a session, the agents a session delegates to (OpenClaw,  *)
(* Claude Code, the Mac behind Sutando's relay), interviews, phone calls   *)
(* and the client slot.  They share no state, so a behaviour moves one.    *)
(***************************************************************************)
EXTENDS ActorScheduling, PostSession, OpenclawRuns, SutandoRelay, Interviews, ClaudeCodeRuns,
        PhoneCalls, ClientConnections

VARIABLE moves  \* the part, in the setting that this behaviour keeps to

scheduleVars == <<actorSchedulingVars, postSessionVars>>

agentVars == <<claw, sutandoVars, interviewVars, claude>>

workersVars == <<scheduleVars, agentVars, phoneVars, clientVars, moves>>

Distil == <<Distillation>>

\* The choices in the initial states of a component matter where it moves.
\* Memory is checked behind the distillation alone, the pipeline with at most
\* that processor required and two processors only where one needs the other.
WorkersInit ==
  /\ moves \in {"actors", "desk", "pipeline", "memory", "claw", "lost claw", "one task", "no mishap",
                "interviews", "claude code", "dialed out", "called in", "client"}
  /\ ActorSchedulingInit /\ PostSessionInit /\ ClawInit /\ SutandoInit
  /\ InterviewsInit /\ ClaudeInit /\ PhoneCallsInit /\ ClientInit
  /\ moves # "actors" => policies = [a \in Ids |-> "stop"]
  /\ moves # "desk" => desk.active = CHOOSE d \in DeskAgents : TRUE
  /\ moves # "pipeline" => pipe.ordered = Distil
  /\ pipe.required \subseteq {Distillation}
  /\ Len(pipe.ordered) = 2 => \E p \in Processors : pipe.needs[p] # {}
  /\ moves \notin {"claw", "lost claw"} => claw.client = "ws"
  /\ moves # "interviews" => iv.kind = "interview"
  /\ moves # "client" => client.restored /\ client.policy = "per-client"

ScheduleNext ==
  \/ moves = "actors" /\ SchedNext /\ UNCHANGED <<desk, gateway, postSessionVars>>
  \/ moves = "desk" /\ DeskNext /\ UNCHANGED <<schedVars, postSessionVars>>
  \/ moves = "pipeline" /\ (PipelineStep \/ ExtractEnds) /\ UNCHANGED actorSchedulingVars
  \/ /\ moves = "memory"
     /\ DispatchRun \/ RunBudgetExpires \/ RequiredWaitExpires \/ MemoryStep
     /\ UNCHANGED actorSchedulingVars

\* The reminder of an interview is checked before its first call; a deepdive
\* has a name and is not disposed.
InterviewBounds ==
  /\ Len(iv'.chain) <= 2
  /\ reminder' # reminder => iv.chain = <<>> /\ ~iv.crossed
  /\ iv'.named \/ iv.kind = "interview"
  /\ iv'.kind = "deepdive" => ~iv'.disposed

\* A stream cut short, or a socket closed during the handshake.
ClawLosesOut ==
  \/ claw'.connecting /\ claw'.link = "down"
  \/ \E r \in Runs : claw'.run[r].gateway = "cut"

\* A third call of Claude Code comes where none has named a session or responded.
ClaudeBounds ==
  claude.runs[3].st # "none" => claude.named \subseteq {0} /\ claude.responds = 0

\* OpenClaw is checked with two messages and no such loss, and with one message;
\* the relay with one delegation and every mishap, and with two and none.
AgentNext ==
  \/ /\ moves = "claw" /\ ClawNext /\ ~ClawLosesOut
     /\ UNCHANGED <<sutandoVars, interviewVars, claude>>
  \/ /\ moves = "lost claw" /\ ClawNext /\ claw'.invoke[2].st = claw.invoke[2].st
     /\ UNCHANGED <<sutandoVars, interviewVars, claude>>
  \/ /\ moves = "one task" /\ SutandoNext /\ calls'.st[2] = "none"
     /\ UNCHANGED <<claw, interviewVars, claude>>
  \/ /\ moves = "no mishap" /\ SutandoNext /\ relay'.parked = 0 /\ ~relay'.fresh
     /\ mishaps'.crashes + mishaps'.faults + mishaps'.losses = 0
     /\ UNCHANGED <<claw, interviewVars, claude>>
  \/ /\ moves = "interviews" /\ InterviewsNext /\ InterviewBounds
     /\ UNCHANGED <<claw, sutandoVars, claude>>
  \/ /\ moves = "claude code" /\ ClaudeNext /\ ClaudeBounds'
     /\ UNCHANGED <<claw, sutandoVars, interviewVars>>

PhoneNext ==
  \/ moves = "dialed out" /\ HumanNext /\ UNCHANGED inbound
  \/ moves = "called in" /\ InboundNext /\ UNCHANGED human

WorkersNext ==
  /\ \/ ScheduleNext /\ UNCHANGED <<agentVars, phoneVars, clientVars>>
     \/ AgentNext /\ UNCHANGED <<scheduleVars, phoneVars, clientVars>>
     \/ PhoneNext /\ UNCHANGED <<scheduleVars, agentVars, clientVars>>
     \/ moves = "client" /\ ClientNext /\ UNCHANGED <<scheduleVars, agentVars, phoneVars>>
  /\ UNCHANGED moves

WorkersSpec == WorkersInit /\ [][WorkersNext]_workersVars
=============================================================================
