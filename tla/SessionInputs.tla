---------------------------- MODULE SessionInputs ---------------------------
(***************************************************************************)
(* What VoiceSession puts into the model's conversation on its own call:   *)
(* typed text, injected transcripts and dictation, on one first-in         *)
(* first-out chain that cancels the answer before each; corrections of the *)
(* shadow STT on the same chain; text injected at once; triggered answers; *)
(* the conversation a replacement connection gets.  And the declared tools *)
(* and instructions, which updates and transfers rewrite.                  *)
(*                                                                         *)
(* A direct input is a number, given out in the order of the calls.  The   *)
(* wait for the cancelled answer takes a step only where the transport     *)
(* waits (waits); synthetic output can only be held where it does not,     *)
(* because only the Gemini transport has recoverUpstream.                  *)
(***************************************************************************)
EXTENDS Naturals, Sequences, FiniteSets, SequencesExt

CONSTANTS MaxInputs,     \* bound: direct inputs and corrections
          MaxTurns,      \* bound: turns
          MaxSynthetic,  \* bound: injected texts and triggered answers
          MaxInputRecoveries, \* bound: calls of recoverUpstream
          MaxInputFlips,      \* bound: mode switches
          MaxUpdates     \* bound: declarations

ASSUME SessionInputsAssumption ==
  /\ MaxInputs \in Nat /\ MaxTurns \in Nat /\ MaxSynthetic \in Nat
  /\ MaxInputRecoveries \in Nat /\ MaxInputFlips \in Nat /\ MaxUpdates \in Nat

VARIABLES inp, decl

(***************************************************************************)
(* Direct inputs.  turn, open: numericId, and whether its turn is open;    *)
(* chain: the bodies not yet run; cut: the turn the head waits to cancel;  *)
(* sent, held, lost: what reached the transport, waits for agent mode, met *)
(* no connection; recorded: the user items of the ConversationContext.     *)
(***************************************************************************)
NoTurn == MaxTurns + 1

InputsInit ==
  \E waits \in BOOLEAN :
    inp = [waits |-> waits, up |-> TRUE, mode |-> "agent", hold |-> FALSE, turn |-> 0,
           open |-> FALSE, token |-> TRUE, origin |-> "none", given |-> 0, chain |-> <<>>, busy |-> FALSE,
           cut |-> NoTurn, sent |-> <<>>, held |-> <<>>, lost |-> {}, recorded |-> <<>>,
           buffer |-> 0, synthetic |-> 0, recoveries |-> 0, flips |-> 0, seeded |-> TRUE,
           leaked |-> FALSE, stale |-> FALSE, talkedOver |-> FALSE, bound |-> FALSE]

\* The dictation controller's sendContent keeps a request for agent mode.
SendContent(i, n) ==
  IF i.mode # "agent" THEN [i EXCEPT !.held = Append(@, n)]
  ELSE IF i.up THEN [i EXCEPT !.sent = Append(@, n)]
  ELSE [i EXCEPT !.lost = @ \cup {n}]

\* Text is direct user action: it releases the hold.
ReleaseHold(i) == [i EXCEPT !.hold = FALSE]

\* enqueueDirectInput: a body runs when every earlier one has settled.
EnqueueInput(i, kind) ==
  [i EXCEPT !.given = @ + 1, !.chain = Append(@, [n |-> i.given + 1, kind |-> kind, turn |-> i.turn])]

\* Mutant: a body does not wait for the one before it.
NextBodyAny(i) == 1..Len(i.chain)

NextBody(i) == IF i.chain = <<>> THEN {} ELSE {1}

Finalize(i, t) == IF i.open /\ i.turn = t THEN [i EXCEPT !.open = FALSE, !.turn = @ + 1] ELSE i

\* preEmptForDirectInput, up to the wait: the turn is captured here.
PreEmpt(i) == [i EXCEPT !.token = FALSE, !.cut = IF i.open THEN i.turn ELSE NoTurn, !.busy = TRUE]

\* A user turn goes to the transport and into the context.
SendUserTurn(i, job) ==
  [SendContent([i EXCEPT !.origin = "user_text"], job.n) EXCEPT
     !.recorded = Append(@, job.n), !.talkedOver = @ \/ (i.open /\ i.turn = i.cut)]

\* The live text of a correction: no context item, and another origin.
SendLiveText(i, job) ==
  [SendContent([i EXCEPT !.origin = "assistant_initiated", !.token = FALSE], job.n) EXCEPT
     !.leaked = @ \/ i.hold]

FinishBody(i) ==
  LET job == Head(i.chain)
      ended == Finalize(i, i.cut)
      sent == IF job.kind = "fix" THEN SendLiveText(ended, job) ELSE SendUserTurn(ended, job)
  IN [sent EXCEPT !.chain = Tail(@), !.busy = FALSE, !.cut = NoTurn]

\* sendInjectedText: what a correction needs at the head of the chain.
MaySend(i, job) == i.up /\ i.mode = "agent" /\ ~i.hold /\ i.turn = job.turn

BodyStarts ==
  /\ ~inp.busy
  /\ \E k \in NextBody(inp) :
       LET job == inp.chain[k]
           first == [inp EXCEPT !.chain = <<job>> \o RemoveAt(@, k)]
           begun == [PreEmpt(first) EXCEPT !.stale = @ \/ (job.kind = "fix" /\ inp.turn # job.turn)]
       IN inp' = IF job.kind = "fix" /\ ~MaySend(inp, job) THEN [first EXCEPT !.chain = Tail(@)]
                 ELSE IF inp.waits THEN begun ELSE FinishBody(begun)

CancelReturns == inp.busy /\ inp' = FinishBody(inp)

\* handleTextInput.
TextInput ==
  /\ inp.given < MaxInputs /\ inp.up
  /\ inp' = EnqueueInput(ReleaseHold(inp), "typed")

InjectTranscript ==
  /\ inp.given < MaxInputs
  /\ inp' = EnqueueInput(ReleaseHold(inp), "transcript")

\* injectDictationBuffer: outside agent mode the buffer stays.
InjectDictation ==
  /\ inp.given < MaxInputs /\ inp.mode = "agent" /\ inp.buffer > 0
  /\ inp' = EnqueueInput(ReleaseHold([inp EXCEPT !.buffer = 0]), "transcript")

\* sendSyntheticLiveText, for the turn that the shadow STT corrects.
Correct ==
  /\ inp.given < MaxInputs /\ inp.open
  /\ inp' = EnqueueInput(inp, "fix")

(***************************************************************************)
(* What is sent at once.                                                   *)
(***************************************************************************)
\* injectText of the host, quiet or live: neither cancels nor records.
InjectText ==
  \E live \in BOOLEAN :
    /\ inp.synthetic < MaxSynthetic /\ inp.up /\ inp.mode = "agent"
    /\ inp' = [inp EXCEPT !.synthetic = @ + 1, !.token = @ /\ ~live,
                          !.origin = IF live THEN "assistant_initiated" ELSE @]

\* guardedTriggerGeneration in agent mode; elsewhere it throws.
Trigger(i) ==
  IF i.hold THEN i
  ELSE [i EXCEPT !.token = FALSE, !.origin = "assistant_initiated", !.leaked = @ \/ i.hold]

GuardedTriggerGeneration ==
  /\ inp.synthetic < MaxSynthetic /\ inp.mode = "agent" /\ inp.up
  /\ inp' = Trigger([inp EXCEPT !.synthetic = @ + 1])

(***************************************************************************)
(* The session around them.                                                *)
(***************************************************************************)
\* The response takes the pending origin; a greeting binds only with a token.
TurnStarts ==
  /\ inp.up /\ ~inp.open /\ inp.turn < MaxTurns
  /\ inp' = [inp EXCEPT !.open = TRUE, !.origin = "none", !.token = FALSE,
                        !.bound = @ \/ (inp.token /\ inp.origin = "user_text")]

TurnEnds == inp.open /\ inp' = Finalize(inp, inp.turn)

EnterDictation ==
  /\ inp.mode = "agent" /\ inp.flips < MaxInputFlips
  /\ inp' = [inp EXCEPT !.mode = "transcription", !.flips = @ + 1]

DictationFinal ==
  /\ inp.mode = "transcription" /\ inp.buffer = 0
  /\ inp' = [inp EXCEPT !.buffer = 1]

\* What was kept for agent mode is handed to the transport in its order.
ExitDictation ==
  /\ inp.mode = "transcription"
  /\ LET kept == inp.held
     IN inp' = IF inp.up THEN [inp EXCEPT !.mode = "agent", !.held = <<>>, !.sent = @ \o kept]
               ELSE [inp EXCEPT !.mode = "agent", !.held = <<>>, !.lost = @ \cup ToSet(kept)]

\* recoverUpstream ends the turn, holds synthetic output and dials again.
Recover ==
  \E held \in BOOLEAN :
    /\ ~inp.waits /\ inp.recoveries < MaxInputRecoveries
    /\ inp' = [Finalize(inp, inp.turn) EXCEPT !.up = FALSE, !.hold = @ \/ held, !.seeded = FALSE,
                 !.origin = "none", !.token = FALSE, !.recoveries = @ + 1]

\* replayConversationToReplacement: once per connection, unless it is held.
Replacement ==
  /\ ~inp.up
  /\ inp' = [inp EXCEPT !.up = TRUE, !.seeded = ~inp.hold]

FreshSpeech == inp.hold /\ inp.up /\ inp' = ReleaseHold(inp)

InputsStep ==
  \/ BodyStarts \/ CancelReturns \/ TextInput \/ InjectTranscript \/ InjectDictation \/ Correct
  \/ InjectText \/ GuardedTriggerGeneration \/ TurnStarts \/ TurnEnds \/ EnterDictation
  \/ DictationFinal \/ ExitDictation \/ Recover \/ Replacement \/ FreshSpeech

(***************************************************************************)
(* Declarations: the list the session declares, by the number of the call  *)
(* that set it (0: the agent's own), and the calls the transport has not   *)
(* settled.  accepted: the last call that the transport took.              *)
(***************************************************************************)
DeclarationsInit == decl = [current |-> 0, calls |-> 0, pending |-> {}, accepted |-> 0, latest |-> 0]

\* registerTools, replaceTools, updateInstructions, until updateSession settles.
Declare ==
  /\ decl.calls < MaxUpdates
  /\ LET n == decl.calls + 1
     IN decl' = [decl EXCEPT !.current = n, !.calls = n, !.latest = n,
                             !.pending = @ \cup {[n |-> n, previous |-> decl.current]}]

Rejected(d, call) ==
  [d EXCEPT !.pending = @ \ {call}, !.current = IF @ = call.n THEN call.previous ELSE @]

DeclarationSettles ==
  \E call \in decl.pending :
    \/ decl' = [decl EXCEPT !.pending = @ \ {call}, !.accepted = call.n]
    \/ decl' = Rejected(decl, call)

\* A transfer resolves the new agent's own list.
TransferDeclares ==
  /\ decl.calls < MaxUpdates
  /\ decl' = [decl EXCEPT !.calls = @ + 1, !.current = decl.calls + 1, !.accepted = decl.calls + 1,
                          !.latest = decl.calls + 1]

DeclarationsStep == Declare \/ DeclarationSettles \/ TransferDeclares

SessionInputsInit == InputsInit /\ DeclarationsInit

SessionInputsNext == (InputsStep /\ UNCHANGED decl) \/ (DeclarationsStep /\ UNCHANGED inp)

SessionInputsSpec == SessionInputsInit /\ [][SessionInputsNext]_<<inp, decl>>

(***************************************************************************)
(* Direct inputs reach the transport and the conversation in the order of  *)
(* the calls, each once, and what the conversation shows was handed over,  *)
(* or waits for agent mode.  None is sent while the turn that it found     *)
(* still talks, no correction is sent for a turn that is over, no answer   *)
(* to typed text can bind as the greeting, and no synthetic output leaves  *)
(* while it is held.  (enqueueDirectInput, preEmptForDirectInput,          *)
(* sendInjectedText, guardedTriggerGeneration.)                            *)
(***************************************************************************)
Increasing(s) == \A a, b \in 1..Len(s) : a < b => s[a] < s[b]

InputsKeepOrder ==
  /\ Increasing(inp.sent \o inp.held) /\ Increasing(inp.recorded)
  /\ ToSet(inp.recorded) \subseteq ToSet(inp.sent) \cup ToSet(inp.held) \cup inp.lost
  /\ ~inp.talkedOver /\ ~inp.stale /\ ~inp.bound /\ ~inp.leaked

(***************************************************************************)
(* A rejected declaration never takes back one that was made after it and  *)
(* accepted.  (declareTools, updateInstructions, _transferInner.)          *)
(***************************************************************************)
LaterDeclarationStands ==
  decl.accepted = decl.latest => decl.current = decl.latest

InputsAreOrderly == InputsKeepOrder /\ LaterDeclarationStands
=============================================================================
