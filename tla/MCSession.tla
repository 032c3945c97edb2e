------------------------------ MODULE MCSession -----------------------------
(***************************************************************************)
(* Instances of what holds a session up: the recovery of its upstream, the *)
(* fence that its tool results pass, and the server of many guarded        *)
(* connections.  They share no state, so a behaviour moves one of them.    *)
(***************************************************************************)
EXTENDS UpstreamRecovery, ToolResultGate, HostedConnections

VARIABLE moves  \* the component that this behaviour moves

sessionVars == <<vars, gateVars, hostedVars, moves>>

\* The choices in the initial states of a component matter where it moves.
SessionInit ==
  /\ moves \in {"recovery", "gate", "hosted"}
  /\ Init /\ GateInit /\ HostedInit
  /\ moves # "recovery" => s.policy = "hold" /\ s.credentialed
  /\ moves # "gate" => mode = "agent"
  /\ moves # "hosted" => guarded

SessionNext ==
  \/ moves = "recovery" /\ Next /\ UNCHANGED <<gateVars, hostedVars, moves>>
  \/ moves = "gate" /\ GateNext /\ UNCHANGED <<vars, hostedVars, moves>>
  \/ moves = "hosted" /\ HostedNext /\ UNCHANGED <<vars, gateVars, moves>>

\* The fairness of each component where it moves; a server that does not move
\* has nothing to do.
SessionFairness ==
  /\ WF_vars(moves = "recovery" /\ RunFrame /\ UNCHANGED events)
  /\ WF_vars(moves = "recovery" /\ BackoffFires /\ UNCHANGED events)
  /\ WF_vars(moves = "recovery" /\ DeadlineFires /\ UNCHANGED events)
  /\ WF_vars(moves = "recovery" /\ DialSettles /\ UNCHANGED events)
  /\ WF_gateVars(moves = "gate" /\ EndFlip)
  /\ HostedFairness

\* What a session waits for comes: the end of a reconnect or a recovery, the results
\* held back while it dictated, and the return of a server's stop().
WaitsEnd == RecoveryEnds /\ ExitDrains /\ StopReturns

SessionSpec == SessionInit /\ [][SessionNext]_sessionVars /\ SessionFairness
=============================================================================
