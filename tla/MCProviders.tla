----------------------------- MODULE MCProviders ----------------------------
(***************************************************************************)
(* Instances of the connections to providers: the two realtime transports, *)
(* the transcription providers and the synthesis providers.  They share no *)
(* state, so a behaviour moves one of them; at its initial state no        *)
(* fairness of the others asks for a step.                                 *)
(***************************************************************************)
EXTENDS OpenAIRealtime, GeminiConnection, TranscribeRotation, StreamingTranscription,
        SpeechSynthesis

VARIABLE moves  \* the component that this behaviour moves

providersVars == <<openaiVars, gemVars, sttVars, strVars, ttsVars, moves>>

\* The choices in the initial states of a component matter where it moves.
ProvidersInit ==
  /\ moves \in {"openai", "gemini", "transcribe", "streaming", "synthesis"}
  /\ OpenAIInit /\ GeminiInit /\ SttInit /\ StrInit /\ TtsInit
  /\ moves # "gemini" => gemCfg = [provider |-> TRUE, slow |-> TRUE]
  /\ moves # "transcribe" => sttCred
  /\ moves # "streaming" => strProvider = "whisper"
  /\ moves # "synthesis" => ttsProvider = "hume" /\ tts.echo

ProvidersNext ==
  \/ /\ moves = "openai" /\ OpenAINext
     /\ UNCHANGED <<gemVars, sttVars, strVars, ttsVars, moves>>
  \/ /\ moves = "gemini" /\ GeminiNext
     /\ UNCHANGED <<openaiVars, sttVars, strVars, ttsVars, moves>>
  \/ /\ moves = "transcribe" /\ SttNext
     /\ UNCHANGED <<openaiVars, gemVars, strVars, ttsVars, moves>>
  \/ /\ moves = "streaming" /\ StrNext
     /\ UNCHANGED <<openaiVars, gemVars, sttVars, ttsVars, moves>>
  \/ /\ moves = "synthesis" /\ TtsNext
     /\ UNCHANGED <<openaiVars, gemVars, sttVars, strVars, moves>>

\* A caller of a provider is answered: the waiters of the realtime transport, the
\* starts of a transcription, and a synthesis request that was flushed.
WaitersReturn == CallersReturn /\ StartsSettle /\ FlushedIsDone

ProvidersSpec ==
  /\ ProvidersInit /\ [][ProvidersNext]_providersVars
  /\ OpenAIFairness /\ SttFairness /\ TtsFairness
=============================================================================
