--------------------------- MODULE SessionHistory ---------------------------
(***************************************************************************)
(* What a session remembers: the TranscriptManager that turns streams of   *)
(* transcription into messages, the ConversationContext with its           *)
(* checkpoint and its reserved user messages, the                          *)
(* ConversationHistoryWriter with its serial queue and the stores behind   *)
(* it, and the MemoryDistiller that reads the same context.                *)
(*                                                                         *)
(* A text is "final" or "provisional", the two that history tells apart;   *)
(* transcripts of whitespace change nothing and are left out.              *)
(***************************************************************************)
EXTENDS Naturals, Sequences, FiniteSets

CONSTANTS HistoryStores,   \* backing stores of the multiplex store
          HistoryModes,    \* subset of {"none", "copy", "attach"}: no resume, or its mode
          ExternalStt,     \* subset of BOOLEAN: an external STT provider is configured
          Recording,       \* subset of BOOLEAN: a history store is configured
          Distilling,      \* subset of BOOLEAN: memory is configured
          AgentNotes,      \* subset of BOOLEAN: onTurnCompleted may inject a message
          MemoryTurns,     \* turnFrequency of the distiller
          MaxItems,        \* bound: items in the timeline
          MaxHistoryTurns  \* bound: turns

ASSUME HistoryAssumption ==
  /\ HistoryModes \subseteq {"none", "copy", "attach"}
  /\ ExternalStt \subseteq BOOLEAN /\ Distilling \subseteq BOOLEAN /\ Recording \subseteq BOOLEAN
  /\ AgentNotes \subseteq BOOLEAN
  /\ MemoryTurns \in Nat \ {0} /\ MaxItems \in Nat /\ MaxHistoryTurns \in Nat \ {0}

VARIABLES histCfg,    \* [mode, external, history, memory, notes]: configuration
          script,     \* TranscriptManager
          context,    \* ConversationContext
          turnNo,     \* TurnManager: the turn, and the turns whose input is final
          watch,      \* turns with a fallback seal timer
          writer,     \* ConversationHistoryWriter: its queue and phase
          stored,     \* what each store holds
          distiller   \* MemoryDistiller

historyVars == <<histCfg, script, context, turnNo, watch, writer, stored, distiller>>

\* from: the source of inputBuffer; turn: inputTurnId, 0 when undefined.
EmptyScript == [from |-> "none", turn |-> 0, locked |-> FALSE, display |-> FALSE,
                output |-> FALSE, prefix |-> FALSE, interrupted |-> FALSE, reserved |-> {}]

Item(id, role, text) == [id |-> id, role |-> role, text |-> text]

\* passed (history): the items of a recorded session over which an extraction
\* moved the checkpoint.
NoDistiller == [phase |-> "idle", turns |-> 0, passed |-> {}]

\* Resuming puts one earlier item into the timeline; attach counts it as
\* persisted, copy leaves it to be written into the new record.
HistoryInit ==
  /\ histCfg \in [mode : HistoryModes, external : ExternalStt,
                 history : Recording, memory : Distilling, notes : AgentNotes]
  /\ script = EmptyScript
  /\ context = [items |-> IF histCfg.mode = "none" THEN <<>> ELSE <<Item(1, "user", "final")>>,
                checkpoint |-> IF histCfg.mode = "attach" THEN 1 ELSE 0,
                pending |-> {}, next |-> IF histCfg.mode = "none" THEN 1 ELSE 2]
  /\ turnNo = [id |-> 1, finalized |-> {}]
  /\ watch = {}
  /\ writer = [queue |-> IF histCfg.history THEN <<[op |-> "open", batch |-> <<>>]>> ELSE <<>>,
               handed |-> {}, phase |-> "open"]
  /\ stored = [k \in HistoryStores |->
                [open |-> FALSE, report |-> FALSE,
                 log |-> IF histCfg.mode = "attach" THEN <<Item(1, "user", "final")>> ELSE <<>>]]
  /\ distiller = NoDistiller

(***************************************************************************)
(* ConversationContext.                                                    *)
(***************************************************************************)
Room(n) == context.next + n <= MaxItems + 1

AddItem(x, role, text) ==
  [x EXCEPT !.items = Append(@, Item(x.next, role, text)), !.next = @ + 1]

ReserveUserMessage(x) ==
  [AddItem(x, "user", "provisional") EXCEPT !.pending = @ \cup {x.next}]

SealUserMessage(x, id, text) ==
  IF id \notin x.pending THEN x
  ELSE [x EXCEPT !.pending = @ \ {id},
                 !.items = [i \in DOMAIN @ |->
                    IF @[i].id = id /\ text = "final" THEN [@[i] EXCEPT !.text = "final"] ELSE @[i]]]

\* Mutant: a pending message does not hold the flush back.
FlushBarrierIgnored(x) == Len(x.items)

FlushBarrier(x) ==
  LET first == {i \in DOMAIN x.items : x.items[i].id \in x.pending}
  IN IF first = {} THEN Len(x.items)
     ELSE (CHOOSE i \in first : \A j \in first : i <= j) - 1

NewCheckpoint(x) == IF FlushBarrier(x) > x.checkpoint THEN FlushBarrier(x) ELSE x.checkpoint

ItemsSinceCheckpoint(x) == SubSeq(x.items, x.checkpoint + 1, NewCheckpoint(x))

MarkCheckpoint(x) == [x EXCEPT !.checkpoint = NewCheckpoint(x)]

ClearContext(x) == [x EXCEPT !.items = <<>>, !.checkpoint = 0, !.pending = {}]

(***************************************************************************)
(* TranscriptManager.  h is the record of script, context, turnNo and      *)
(* watch that one event hands from step to step.                           *)
(***************************************************************************)
Here == [script |-> script, context |-> context, turnNo |-> turnNo, watch |-> watch]

There(h) ==
  /\ script' = h.script /\ context' = h.context /\ turnNo' = h.turnNo /\ watch' = h.watch

\* A user text is committed as it is, or reserved while the external STT owes
\* the transcript of the turn; a reservation arms its timer.
CommitUserText(h) ==
  LET t == h.turnNo.id
      final == [h EXCEPT !.turnNo.finalized = @ \cup {t}]
  IN IF h.script.from # "external" /\ histCfg.external
     THEN [final EXCEPT !.context = ReserveUserMessage(@),
                        !.script.reserved = {r \in @ : r[1] # t} \cup {<<t, h.context.next>>},
                        !.watch = @ \cup {t}]
     ELSE [final EXCEPT !.context = AddItem(@, "user", "final")]

ResetInput(s) == [s EXCEPT !.from = "none", !.turn = 0, !.display = FALSE]

HandleInput(h, t) ==
  LET s == h.script
      next == t # 0 /\ s.turn # 0 /\ t # s.turn /\ s.from # "none"
      before == IF next THEN [CommitUserText(h) EXCEPT !.script.from = "none"] ELSE h
  IN IF s.locked THEN h
     ELSE [before EXCEPT !.script.from = "external",
                         !.script.turn = IF t # 0 THEN t ELSE @]

FlushInput(h) ==
  IF h.script.from = "none" THEN [h EXCEPT !.script = ResetInput(@)]
  ELSE [CommitUserText(h) EXCEPT !.script.locked = TRUE,
                                 !.script.from = "none", !.script.turn = 0, !.script.display = FALSE]

FlushOutput(h) ==
  IF h.script.output \/ h.script.prefix
  THEN [h EXCEPT !.context = AddItem(@, "assistant", "final")] ELSE h

Flush(h) ==
  LET committed == IF ~h.script.locked /\ h.script.from # "none" THEN CommitUserText(h) ELSE h
      spoken == FlushOutput(committed)
  IN [spoken EXCEPT !.script = [ResetInput(@) EXCEPT !.locked = FALSE,
                                                     !.output = FALSE, !.prefix = FALSE]]

\* sealPendingInput: the reserved messages of these turns keep their text.
SealTurns(h, turns) ==
  [h EXCEPT !.script.reserved = {r \in @ : r[1] \notin turns}, !.watch = @ \ turns,
            !.context.pending = @ \ {r[2] : r \in {q \in h.script.reserved : q[1] \in turns}}]

AllTurns == 0..(MaxHistoryTurns + 1)

(***************************************************************************)
(* ConversationHistoryWriter.                                              *)
(***************************************************************************)
EnqueueWrite(w, op, batch) ==
  IF histCfg.history THEN [w EXCEPT !.queue = Append(@, [op |-> op, batch |-> batch])] ELSE w

\* A flush hands over what is new and moves the checkpoint at once.
WriterFlush(w, x) ==
  LET batch == ItemsSinceCheckpoint(x)
  IN IF batch = <<>> \/ ~histCfg.history THEN w
     ELSE [EnqueueWrite(w, "items", batch) EXCEPT !.handed = @ \cup {batch[i].id : i \in DOMAIN batch}]

FlushedContext(x) == IF histCfg.history THEN MarkCheckpoint(x) ELSE x

Listening == writer.phase = "open"

(***************************************************************************)
(* Events of the session.                                                  *)
(***************************************************************************)
Quietly == UNCHANGED <<histCfg, writer, stored, distiller>>

\* The external STT's transcript of a turn: it resolves a reservation, is
\* dropped when stale or when its input is final, or is buffered.
OnTranscript(t) ==
  LET h == Here
      ids == {r[2] : r \in {q \in script.reserved : q[1] = t}}
      sealed == [h EXCEPT !.script.reserved = {r \in @ : r[1] # t}, !.watch = @ \ {t},
                          !.context = SealUserMessage(@, CHOOSE i \in ids : TRUE, "final")]
      fresh == [h EXCEPT !.script.interrupted = @ /\ t < turnNo.id]
  IN /\ histCfg.external /\ Listening /\ Room(1)
     /\ \/ ids # {} /\ There(sealed)
        \/ /\ ids = {} /\ t >= turnNo.id - 1 /\ t \notin turnNo.finalized
           /\ There(HandleInput(fresh, t))
     /\ Quietly

\* The transport's own transcription: a correction of what is shown, or the
\* only source when no external STT is configured.
OnInputTranscription ==
  LET s == script
      corrected == IF s.locked \/ s.from = "external" THEN s ELSE [s EXCEPT !.from = "correction"]
      shown == IF s.locked THEN s ELSE [s EXCEPT !.display = TRUE]
      h == IF ~histCfg.external THEN HandleInput(Here, 0)
           ELSE [Here EXCEPT !.script = IF s.interrupted THEN shown ELSE corrected]
  IN /\ Listening /\ There(h) /\ Quietly

HandleOutput ==
  /\ Listening /\ There([Here EXCEPT !.script.output = TRUE]) /\ Quietly

\* A tool call commits what the user said before it, and sets aside what the
\* model said before it.
OnToolCall ==
  LET flushed == FlushInput(Here)
      split == IF flushed.script.output
               THEN [flushed EXCEPT !.script.prefix = TRUE, !.script.output = FALSE] ELSE flushed
  IN /\ Listening /\ Room(2)
     /\ There([split EXCEPT !.context = AddItem(@, "tool", "final")])
     /\ Quietly

\* A replayed utterance becomes a message: the buffered text, or what was shown.
FinalizeInterruptedInputPartial ==
  /\ Listening /\ Room(1)
  /\ ~script.locked /\ (script.from # "none" \/ script.display)
  /\ There([CommitUserText(Here) EXCEPT !.script = [ResetInput(@) EXCEPT !.locked = TRUE]])
  /\ Quietly

ReservationTimeout(t) ==
  /\ t \in watch
  /\ There(SealTurns(Here, {t})) /\ Quietly

(***************************************************************************)
(* The distiller shares the context's checkpoint with the writer: every    *)
(* few turns it reads the items since, if there are any, asks the model,   *)
(* and moves the checkpoint to wherever the timeline ends by then.         *)
(***************************************************************************)
StartExtraction(d, x) ==
  IF d.phase # "idle" \/ ItemsSinceCheckpoint(x) = <<>> THEN d
  ELSE [d EXCEPT !.phase = "asking"]

OnTurnEnd(d, x) ==
  LET counted == [d EXCEPT !.turns = (@ + 1) % MemoryTurns]
  IN IF ~histCfg.memory THEN d
     ELSE IF counted.turns = 0 THEN StartExtraction(counted, x) ELSE counted

\* The agent's onTurnCompleted may call injectSystemMessage.
Injected(x, note) == IF note THEN AddItem(x, "assistant", "final") ELSE x

\* The end of a turn: transcripts, the turn counter, the writer on turn.end,
\* the agent, then the distiller.
FinalizeTurn(interrupted, note) ==
  LET flushed == Flush(Here)
      advanced == [flushed EXCEPT !.script.interrupted = interrupted,
                                  !.turnNo.id = @ + 1,
                                  !.turnNo.finalized = {t \in @ : t >= turnNo.id}]
      told == [advanced EXCEPT !.context = Injected(FlushedContext(@), note)]
  IN /\ Listening /\ Room(IF note THEN 3 ELSE 2) /\ turnNo.id < MaxHistoryTurns
     /\ note => histCfg.notes
     /\ There(told)
     /\ writer' = WriterFlush(writer, advanced.context)
     /\ distiller' = OnTurnEnd(distiller, told.context)
     /\ UNCHANGED <<histCfg, stored>>

ExtractionEnds(ok) ==
  LET new == ItemsSinceCheckpoint(context)
  IN /\ distiller.phase = "asking"
     /\ distiller' = [distiller EXCEPT !.phase = "idle",
          !.passed = IF ok /\ histCfg.history THEN @ \cup {new[i].id : i \in DOMAIN new} ELSE @]
     /\ context' = IF ok THEN MarkCheckpoint(context) ELSE context
     /\ UNCHANGED <<histCfg, script, turnNo, watch, writer, stored>>

\* Everything up to now is persisted, then the timeline starts over.
ResetConversationContext ==
  LET sealed == SealTurns(Flush(Here), AllTurns)
  IN /\ Listening /\ Room(2)
     /\ There([sealed EXCEPT !.context = ClearContext(@)])
     /\ writer' = WriterFlush(writer, sealed.context)
     /\ UNCHANGED <<histCfg, stored, distiller>>

\* finalizeForClose, then session.close: the last flush and the report.
CloseHistory ==
  LET sealed == SealTurns(Flush(Here), AllTurns)
      closed == [sealed EXCEPT !.context = FlushedContext(@)]
  IN /\ Listening /\ Room(2)
     /\ There(closed)
     /\ writer' = [EnqueueWrite(WriterFlush(writer, sealed.context), "report", sealed.context.items)
                     EXCEPT !.phase = "closed"]
     /\ UNCHANGED <<histCfg, stored, distiller>>

\* One write settles at every store, where it may fail on its own; a store
\* that was never opened drops what it is sent.
Written(k, job) ==
  CASE job.op = "open" -> [stored[k] EXCEPT !.open = TRUE]
    [] job.op = "items" -> IF stored[k].open THEN [stored[k] EXCEPT !.log = @ \o job.batch]
                                             ELSE stored[k]
    [] job.op = "report" -> [stored[k] EXCEPT !.report = TRUE]

WriteSettles(reached) ==
  /\ writer.queue # <<>>
  /\ stored' = [k \in HistoryStores |->
                 IF k \in reached THEN Written(k, Head(writer.queue)) ELSE stored[k]]
  /\ writer' = [writer EXCEPT !.queue = Tail(@)]
  /\ UNCHANGED <<histCfg, script, context, turnNo, watch, distiller>>

HistoryNext ==
  \/ \E t \in 1..MaxHistoryTurns : OnTranscript(t) \/ ReservationTimeout(t)
  \/ OnInputTranscription \/ HandleOutput \/ OnToolCall \/ FinalizeInterruptedInputPartial
  \/ \E interrupted, note \in BOOLEAN : FinalizeTurn(interrupted, note)
  \/ \E ok \in BOOLEAN : ExtractionEnds(ok)
  \/ ResetConversationContext \/ CloseHistory
  \/ \E reached \in SUBSET HistoryStores : WriteSettles(reached)

HistorySpec == HistoryInit /\ [][HistoryNext]_historyVars

-----------------------------------------------------------------------------
HistoryTypeOK ==
  /\ script.from \in {"none", "correction", "external"}
  /\ script.reserved \subseteq (1..MaxHistoryTurns) \X (1..MaxItems)
  /\ context.checkpoint \in 0..Len(context.items)
  /\ context.pending \subseteq {context.items[i].id : i \in DOMAIN context.items}
  /\ watch \subseteq 1..MaxHistoryTurns /\ turnNo.id \in 1..MaxHistoryTurns

\* A user message that holds the history back is one whose transcript or whose
\* timer will still release it: no reservation is lost or overwritten.
BarrierIsWatched ==
  /\ context.pending = {r[2] : r \in script.reserved}
  /\ watch = {r[1] : r \in script.reserved}

\* Every store holds each item at most once, in the order of the timeline, and
\* with the text the timeline keeps: a provisional text is never written while
\* the transcript that replaces it may come.
PersistedOnceAndFinal ==
  \A k \in HistoryStores :
    LET log == stored[k].log
    IN /\ \A i, j \in DOMAIN log : i < j => log[i].id < log[j].id
       /\ \A i \in DOMAIN log, j \in DOMAIN context.items :
            log[i].id = context.items[j].id => log[i] = context.items[j]

\* An item behind the checkpoint of a recorded session was handed to the
\* store, once, or an extraction passed it, and then it never is: "the memory
\* distiller and the history writer share one checkpoint, so those items are
\* then [...] never appended to the history store" (voice-session.ts:4641).
\* That takes memory and an agent that adds to the timeline between the
\* writer's flush and onTurnEnd: without either the writer alone moves it.
EveryItemIsWritten ==
  histCfg.history =>
    /\ \A i \in 1..context.checkpoint :
         \/ context.items[i].id \in writer.handed \cup distiller.passed
         \/ histCfg.mode = "attach" /\ context.items[i].id = 1
    /\ writer.handed \cap distiller.passed = {}
    /\ ~(histCfg.memory /\ histCfg.notes) => distiller.passed = {}

\* The history is written once, in order and in its final words, nothing holds
\* it back for ever, and only an extraction makes it skip an item (context,
\* transcript manager, writer, stores, distiller).
HistoryIsFaithful ==
  HistoryTypeOK /\ BarrierIsWatched /\ PersistedOnceAndFinal /\ EveryItemIsWritten
=============================================================================
