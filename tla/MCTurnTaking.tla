---------------------------- MODULE MCTurnTaking ----------------------------
(***************************************************************************)
(* Instances of TurnTaking, one session of each configuration that differs *)
(* in who finalizes a turn and who owns an interrupt, and of the response  *)
(* watchdog.  They share no state, so a behaviour moves one of them.       *)
(***************************************************************************)
EXTENDS TurnTaking, ResponseWatchdog

VARIABLE moves  \* the component that this behaviour moves

turnTakingVars == <<turnsVars, watchVars, moves>>

MCMode(tts, ids, owns, gated, hush) ==
  [tts |-> tts, ids |-> ids, owns |-> owns, gated |-> gated, hush |-> hush]

MCModes == {
  MCMode(TRUE, FALSE, TRUE, FALSE, FALSE),   \* OpenAI Realtime, external TTS
  MCMode(TRUE, TRUE, FALSE, FALSE, FALSE),   \* Gemini Live, external TTS
  MCMode(FALSE, FALSE, TRUE, TRUE, TRUE),    \* OpenAI Realtime, its own audio
  MCMode(FALSE, FALSE, FALSE, TRUE, FALSE),  \* a server that owns the interrupt
  MCMode(FALSE, TRUE, FALSE, FALSE, TRUE)}   \* Gemini Live, its own audio

\* The choice of the mode matters where turns move.
TurnTakingInit ==
  /\ moves \in {"turns", "watchdog"}
  /\ TurnsInit /\ WatchInit
  /\ moves # "turns" => talk.mode = MCMode(FALSE, TRUE, FALSE, FALSE, TRUE)

TurnTakingNext ==
  \/ moves = "turns" /\ TurnsNext /\ UNCHANGED <<watchVars, moves>>
  \/ moves = "watchdog" /\ WatchNext /\ UNCHANGED <<turnsVars, moves>>

TurnTakingSpec ==
  /\ TurnTakingInit /\ [][TurnTakingNext]_turnTakingVars
  /\ WF_turnsVars(moves = "turns" /\ Progress)
=============================================================================
