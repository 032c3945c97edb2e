--------------------------- MODULE MCSessionParts ---------------------------
(***************************************************************************)
(* Instances of the parts of a session between its user, the model and the *)
(* host: its subagents and tool calls, its history, what it puts in front  *)
(* of the model, what its Gemini and other transports make of that, and    *)
(* what becomes of the user's speech.  They share no state, so a behaviour *)
(* moves one of them.                                                      *)
(***************************************************************************)
EXTENDS SubagentSessions, ToolCalls, SessionHistory, SessionInputs, GeminiSending,
        OtherTransports, UserSpeech, TurnLatency

VARIABLE moves  \* the part, in the setting that this behaviour keeps to

callsVars == <<subagentVars, toolCallVars>>

sentVars == <<inp, decl, sendingVars, txt, qwen>>

speechVars == <<mic, shadow, latVars>>

sessionPartsVars == <<callsVars, historyVars, sentVars, speechVars, moves>>

\* The choices in the initial states of a component matter where it moves.
SessionPartsInit ==
  /\ moves \in {"subagents", "keeper", "tools", "history", "inputs", "declarations",
                "plain sends", "held sends", "text", "qwen", "agent speech",
                "session speech", "shadow", "one source", "two sources", "resets"}
  /\ SubagentInit /\ ToolCallInit /\ HistoryInit /\ SessionInputsInit
  /\ GeminiSendingInit /\ OtherTransportsInit /\ UserSpeechInit /\ TurnLatencyInit
  /\ moves # "history" => histCfg.mode = "none" /\ histCfg.history /\ histCfg.notes
  /\ moves # "inputs" => inp.waits

CallsNext ==
  \/ moves = "subagents" /\ TalkNext /\ UNCHANGED <<keeper, toolCallVars>>
  \/ moves = "keeper" /\ KeeperNext /\ UNCHANGED <<talkVars, toolCallVars>>
  \/ moves = "tools" /\ ToolCallNext /\ UNCHANGED subagentVars

\* Sends that reach the server, with no handle and no video.
SendsReach ==
  /\ ~out'.handle /\ out'.upstream["video"] = FreshCounters["video"]
  /\ \A slot \in Slots : \A e \in Outcomes \ {"queued"} : out'.upstream[slot].ended[e] = 0

\* Sends are checked twice: with no held guard and no declared tools, and
\* with both where every send reaches the server.
SentNext ==
  \/ moves = "inputs" /\ InputsStep /\ UNCHANGED <<decl, sendingVars, txt, qwen>>
  \/ moves = "declarations" /\ DeclarationsStep /\ UNCHANGED <<inp, sendingVars, txt, qwen>>
  \/ /\ moves = "plain sends" /\ SendingNext /\ ~guard'.held /\ ~out'.config
     /\ UNCHANGED <<inp, decl, txt, qwen>>
  \/ /\ moves = "held sends" /\ SendingNext /\ SendsReach
     /\ UNCHANGED <<inp, decl, txt, qwen>>
  \/ moves = "text" /\ TextNext /\ UNCHANGED <<inp, decl, sendingVars, qwen>>
  \/ moves = "qwen" /\ QwenNext /\ UNCHANGED <<inp, decl, sendingVars, txt>>

FewFacts == 8

OneSource == TurnLatencyNext /\ speech'.speaking["client"] = 0

\* The microphone is checked in agent mode and without external speech.
\* Samples are checked over two turns that one source measures before the close,
\* and over fewer facts with both sources, and with a reset.
SpeechNext ==
  \/ moves = "agent speech" /\ MicNext /\ mic'.mode = "agent" /\ UNCHANGED <<shadow, latVars>>
  \/ moves = "session speech" /\ MicNext /\ ~mic'.external /\ UNCHANGED <<shadow, latVars>>
  \/ moves = "shadow" /\ ShadowNext /\ UNCHANGED <<mic, latVars>>
  \/ /\ moves = "one source" /\ OneSource /\ speech'.resets = 0 /\ ~lat'.quiesced
     /\ UNCHANGED <<mic, shadow>>
  \/ /\ moves = "two sources" /\ TurnLatencyNext /\ speech'.resets = 0 /\ speech'.now <= FewFacts - 1
     /\ UNCHANGED <<mic, shadow>>
  \/ moves = "resets" /\ OneSource /\ speech'.now <= FewFacts /\ UNCHANGED <<mic, shadow>>

SessionPartsNext ==
  /\ \/ CallsNext /\ UNCHANGED <<historyVars, sentVars, speechVars>>
     \/ moves = "history" /\ HistoryNext /\ UNCHANGED <<callsVars, sentVars, speechVars>>
     \/ SentNext /\ UNCHANGED <<callsVars, historyVars, speechVars>>
     \/ SpeechNext /\ UNCHANGED <<callsVars, historyVars, sentVars>>
  /\ UNCHANGED moves

SessionPartsSpec == SessionPartsInit /\ [][SessionPartsNext]_sessionPartsVars
=============================================================================
