----------------------------- MODULE UserSpeech -----------------------------
(***************************************************************************)
(* The way of a microphone frame through a session: ClientVadDetector cuts *)
(* the stream into segments, AudioRouter sends each frame to one consumer, *)
(* UserTurnEvidenceLedger records where the voice of a segment went, and   *)
(* its terminal observer decides what LastUtteranceRetainer keeps and      *)
(* whether a reply is owed.  And ShadowSttController, which compares two   *)
(* transcripts of each turn.                                               *)
(*                                                                         *)
(* A frame is its number.  Time is counted from the last voiced frame of   *)
(* the open segment, in units of CLIENT_VAD_MIN_SPEECH_MS.  The provider's *)
(* own evidence, which decides nothing, and the echo guard, whose frames   *)
(* are as if never received, are left out.                                 *)
(***************************************************************************)
EXTENDS Naturals, Sequences, FiniteSets

CONSTANTS MaxMicFrames,   \* bound: frames of the microphone
          SilenceTicks,   \* CLIENT_VAD_SILENCE_MS, in units of the minimal speech
          PreRoll,        \* capacity of the retainer's pre-roll, in frames
          MaxCut,         \* capacity of a retained segment, in frames
          MaxTransition,  \* MAX_TRANSITION_BUFFER_BYTES, in frames
          ReplayRecovery, \* values of watchdogReplayRecovery
          MaxShadowTurns, \* bound: turns the shadow hears
          MaxSnapshots    \* MAX_LIVE_SNAPSHOTS

ASSUME UserSpeechAssumption ==
  /\ MaxMicFrames \in Nat /\ SilenceTicks \in Nat \ {0} /\ PreRoll \in Nat /\ MaxCut \in Nat \ {0}
  /\ MaxTransition \in Nat \ {0} /\ ReplayRecovery \subseteq BOOLEAN
  /\ MaxShadowTurns \in Nat /\ MaxSnapshots \in Nat \ {0}

VARIABLES
  mic,    \* detector, router, ledger and retainer
  shadow  \* the shadow transcriber

(***************************************************************************)
(* active, seg, spoken, quiet: the detector's segment; open, routed: the   *)
(* ledger's; cutting, cut, pre, kept: the retainer's segment, pre-roll and *)
(* sealed utterance; waiting: the transition buffer; armed: the response   *)
(* watchdog.  heard: the frames of the last segment the model was sent;    *)
(* dictated: those the transcriber was sent in this dictation, which began *)
(* after frame from; ends: terminals of segments so far; owed: a segment   *)
(* that completed after reaching a model has had no answer; forced: one    *)
(* was ended by the answer itself; stale: a failed switch left frames.     *)
(***************************************************************************)
Nothing == [seg |-> 0, frames |-> <<>>]

MicInit ==
  \E r \in ReplayRecovery :
    mic = [replay |-> r, frames |-> 0, active |-> FALSE, seg |-> 0, spoken |-> 0, quiet |-> 0,
           open |-> FALSE, routed |-> {}, cutting |-> FALSE, cut |-> <<>>, pre |-> <<>>,
           kept |-> Nothing, waiting |-> <<>>, mode |-> "agent", external |-> FALSE,
           gate |-> TRUE, armed |-> FALSE, heard |-> <<>>, dictated |-> <<>>, from |-> 0,
           ends |-> 0, owed |-> FALSE, forced |-> FALSE, stale |-> FALSE]

\* The newest n of a sequence.
Newest(s, n) == IF Len(s) <= n THEN s ELSE SubSeq(s, Len(s) - n + 1, Len(s))

Least(a, b) == IF a <= b THEN a ELSE b

\* decideRetention and decideWatchdogArm.
Seals(m, outcome, cause) ==
  outcome = "completed" /\ m.replay /\ "llm" \in m.routed /\ cause # "model-activity-forced"

Arms(m, outcome) == outcome = "completed" /\ m.mode = "agent" /\ m.routed \cap {"llm", "external"} # {}

\* actuateTerminalPolicies, once the ledger has closed the segment.
ActuateTerminals(m, outcome, cause) ==
  LET ended == [m EXCEPT !.cutting = FALSE, !.cut = <<>>, !.armed = @ \/ Arms(m, outcome),
                         !.forced = @ \/ (Arms(m, outcome) /\ cause = "model-activity-forced"),
                         !.owed = @ \/ (Arms(m, outcome) /\ cause = "silence")]
  IN IF Seals(m, outcome, cause) /\ m.cut # <<>>
     THEN [ended EXCEPT !.kept = [seg |-> m.seg, frames |-> m.cut]]
     ELSE ended

\* finalizeSegment, with the outcome the detector gave the segment.
FinalizeSegment(m, cause) ==
  LET outcome == IF cause = "forced-reset" THEN "aborted"
                 ELSE IF m.spoken = 0 THEN "ignored" ELSE "completed"
  IN IF ~m.open THEN m
     ELSE ActuateTerminals([m EXCEPT !.open = FALSE, !.ends = @ + 1], outcome, cause)

\* process: a voiced frame opens or prolongs a segment, a late silent one ends it.
Process(m, voiced) ==
  LET begun == [m EXCEPT !.active = TRUE, !.seg = @ + 1, !.spoken = 0, !.quiet = 0,
                         !.cutting = TRUE, !.cut = Newest(m.pre, MaxCut), !.pre = <<>>,
                         !.open = TRUE, !.routed = {}, !.heard = <<>>]
  IN IF voiced /\ ~m.active THEN begun
     ELSE IF voiced THEN [m EXCEPT !.spoken = Least(1, @ + m.quiet), !.quiet = 0]
     ELSE IF m.active /\ m.quiet >= SilenceTicks THEN [m EXCEPT !.active = FALSE, !.quiet = 0]
     ELSE m

Notes(m, voiced, route) == IF voiced /\ m.open THEN [m EXCEPT !.routed = @ \cup {route}] ELSE m

\* feed: a frame the model is sent goes to the segment, or to the pre-roll.
Feed(m, f) ==
  LET fed == IF m.cutting THEN [m EXCEPT !.cut = Newest(Append(@, f), MaxCut)]
             ELSE [m EXCEPT !.pre = Newest(Append(@, f), PreRoll)]
  IN IF m.open THEN [fed EXCEPT !.heard = Append(@, f)] ELSE fed

\* One read of the gate decides the drop, the route and the retention.
RouteToAgent(m, f, voiced) == IF m.gate THEN m ELSE Feed(Notes(m, voiced, "llm"), f)

RouteFrame(m, f, voiced) ==
  CASE m.external -> Notes(m, voiced, "external")
    [] ~m.external /\ m.mode \in {"agent", "stopping"} -> RouteToAgent(m, f, voiced)
    [] ~m.external /\ m.mode = "starting" ->
         [Notes(m, voiced, "stt") EXCEPT !.waiting = Newest(Append(@, f), MaxTransition)]
    [] ~m.external /\ m.mode = "transcription" ->
         [Notes(m, voiced, "stt") EXCEPT !.dictated = Append(@, f)]

HandleFromClient(voiced) ==
  LET f == mic.frames + 1
      processed == Process([mic EXCEPT !.frames = f], voiced)
      routed == RouteFrame(processed, f, voiced)
  IN /\ mic.frames < MaxMicFrames
     /\ mic' = IF mic.active /\ ~processed.active THEN FinalizeSegment(routed, "silence")
               ELSE routed

TimePasses == mic.active /\ mic.quiet < SilenceTicks /\ mic' = [mic EXCEPT !.quiet = @ + 1]

\* A model turn begins: what was owed is answered, and the segment that is
\* still open is taken for recognized.  A start that trails a finished turn
\* answers nothing.
ModelTurnStarts(trailing) ==
  LET answered == IF trailing THEN mic
                  ELSE [mic EXCEPT !.armed = FALSE, !.owed = FALSE, !.forced = FALSE,
                                   !.kept = Nothing, !.pre = <<>>]
  IN mic' = IF mic.active
            THEN FinalizeSegment([answered EXCEPT !.active = FALSE, !.quiet = 0],
                                 "model-activity-forced")
            ELSE answered

ToolCallsArrive ==
  LET heard == [mic EXCEPT !.armed = FALSE, !.owed = FALSE, !.forced = FALSE]
  IN mic' = IF mic.active
            THEN FinalizeSegment([heard EXCEPT !.active = FALSE, !.quiet = 0],
                                 "model-activity-forced")
            ELSE heard

\* A turn that waited too long for the user to fall silent drops the segment.
ResetSegment ==
  mic.active /\ mic' = FinalizeSegment([mic EXCEPT !.active = FALSE, !.quiet = 0], "forced-reset")

ArmedWatchdogFires == mic.armed /\ mic' = [mic EXCEPT !.armed = FALSE, !.owed = FALSE, !.forced = FALSE]

GateMoves == mic' = [mic EXCEPT !.gate = ~@]

ExternalMoves == mic' = [mic EXCEPT !.external = ~@]

EnterTranscription ==
  /\ mic.mode = "agent"
  /\ mic' = [mic EXCEPT !.mode = "starting", !.dictated = <<>>, !.from = mic.frames]

\* Mutant: the frames of the transition are sent, and kept.
TranscriptionStartsTwice(opens) ==
  /\ mic.mode = "starting"
  /\ mic' = IF opens THEN [mic EXCEPT !.mode = "transcription", !.dictated = @ \o mic.waiting]
            ELSE [mic EXCEPT !.mode = "agent", !.stale = @ \/ mic.waiting # <<>>]

\* The buffered frames go first; a switch that fails leaves them buffered.
TranscriptionStarts(opens) ==
  /\ mic.mode = "starting"
  /\ mic' = IF opens THEN [mic EXCEPT !.mode = "transcription", !.waiting = <<>>,
                                      !.dictated = @ \o mic.waiting]
            ELSE [mic EXCEPT !.mode = "agent", !.stale = @ \/ mic.waiting # <<>>]

ExitTranscription ==
  \/ mic.mode = "transcription" /\ mic' = [mic EXCEPT !.mode = "stopping"]
  \/ mic.mode = "stopping" /\ mic' = [mic EXCEPT !.mode = "agent"]

\* clearAll, on close and when the conversation is reset.
ClearRetained ==
  mic' = [mic EXCEPT !.kept = Nothing, !.pre = <<>>, !.cutting = FALSE, !.cut = <<>>]

MicNext ==
  \/ \E b \in BOOLEAN : HandleFromClient(b) \/ ModelTurnStarts(b) \/ TranscriptionStarts(b)
  \/ TimePasses \/ ToolCallsArrive \/ ResetSegment \/ ArmedWatchdogFires \/ GateMoves
  \/ ExternalMoves \/ EnterTranscription \/ ExitTranscription \/ ClearRetained

(***************************************************************************)
(* ShadowSttController.  live: chunks of the built-in transcript since the *)
(* last commit; snaps: the committed turns whose transcript is kept, with  *)
(* whether it says anything; results: those whose transcript the provider  *)
(* still owes; fixed: corrections asked for, by turn; late: one was asked  *)
(* for after its turn was over.                                            *)
(***************************************************************************)
ShadowInit ==
  shadow = [turn |-> 1, live |-> FALSE, last |-> 0, snaps |-> {}, results |-> {},
            fixed |-> [t \in 1..MaxShadowTurns |-> 0], late |-> FALSE]

NoteLiveTranscript == ~shadow.live /\ shadow' = [shadow EXCEPT !.live = TRUE]

\* The map is in the order of the turns: its first key is the least.
Bounded(snaps) ==
  IF Cardinality(snaps) <= MaxSnapshots THEN snaps
  ELSE {r \in snaps : \E o \in snaps : o.turn < r.turn}

\* Once per turn: its transcript is set aside and the provider is asked.
CommitShadow ==
  LET t == shadow.turn
  IN /\ shadow.last # t
     /\ shadow' = [shadow EXCEPT !.last = t, !.live = FALSE, !.results = @ \cup {t},
                      !.snaps = Bounded(@ \cup {[turn |-> t, said |-> shadow.live]})]

ShadowTurnEnds ==
  shadow.turn < MaxShadowTurns /\ shadow' = [shadow EXCEPT !.turn = @ + 1]

Corrected(s, t) == [s EXCEPT !.fixed[t] = @ + 1, !.late = @ \/ t # shadow.turn]

\* The provider's transcript of a committed turn, which may come in pieces; a
\* piece without a transcript to compare with differs from nothing.
HandleShadowTranscript(t, differs, more) ==
  LET said == \E r \in shadow.snaps : r.turn = t /\ r.said
      rest == [shadow EXCEPT !.results = IF more THEN @ ELSE @ \ {t},
                             !.snaps = {r \in @ : r.turn # t}]
  IN /\ differs => said
     /\ shadow' = IF differs /\ t = shadow.turn THEN Corrected(rest, t) ELSE rest

ShadowNext ==
  \/ NoteLiveTranscript \/ CommitShadow \/ ShadowTurnEnds
  \/ \E t \in shadow.results, differs, more \in BOOLEAN : HandleShadowTranscript(t, differs, more)

UserSpeechInit == MicInit /\ ShadowInit

UserSpeechNext ==
  \/ MicNext /\ UNCHANGED shadow
  \/ ShadowNext /\ UNCHANGED mic

UserSpeechSpec == UserSpeechInit /\ [][UserSpeechNext]_<<mic, shadow>>

(***************************************************************************)
(* Properties.                                                             *)
(***************************************************************************)
\* s is the end of t, or ends with all of t.
Tails(s, t) == \E n \in 0..Len(t) : n <= Len(s) /\ Newest(s, n) = Newest(t, n) /\ n = Least(Len(s), Len(t))

\* The three trackers of speech agree on the open segment, every segment ends
\* once, what is retained of the last one is what the model was sent of it up
\* to the frame that ended it, the watchdog waits for a reply that is owed or
\* whose own start ended the segment, and a dictation hears each of its
\* frames once and in order, unless a failed switch left older ones behind.
SpeechIsAccounted ==
  /\ mic.active = mic.open
  /\ mic.cutting => mic.active
  /\ mic.ends = (IF mic.active THEN mic.seg - 1 ELSE mic.seg)
  /\ mic.kept.seg # 0 /\ mic.kept.seg = mic.seg => Tails(mic.kept.frames, mic.heard)
  /\ mic.armed => mic.owed \/ mic.forced
  /\ \A i, j \in DOMAIN mic.dictated : i < j => mic.dictated[i] < mic.dictated[j]
  /\ ~mic.stale => \A i \in DOMAIN mic.dictated : mic.dictated[i] > mic.from

\* A turn is corrected at most once, while it is the current one, and only a
\* bounded number of transcripts waits for the shadow.
ShadowCorrectsOnce ==
  /\ \A t \in 1..MaxShadowTurns : shadow.fixed[t] <= 1
  /\ ~shadow.late
  /\ Cardinality(shadow.snaps) <= MaxSnapshots
  /\ \A r \in shadow.snaps : r.turn <= shadow.last

\* What the user said is booked once, and corrected at most once.
UserIsHeard == SpeechIsAccounted /\ ShadowCorrectsOnce

\* A dictation hears only what was said in it.
DictationIsFresh == \A i \in DOMAIN mic.dictated : mic.dictated[i] > mic.from
=============================================================================
