----------------------------- MODULE PostSession ----------------------------
(***************************************************************************)
(* What happens after a session: InMemoryPostSessionPipeline, which every  *)
(* session of the process shares, its processors, and the memory file that *)
(* the distillation of each run and the preset callback rewrite.           *)
(*                                                                         *)
(* A run goes from its dispatch to one report.  Continuations of promises  *)
(* run before the next event, so that a settled processor, the dependents  *)
(* it releases, the report and the hand-over of the slot are one step.     *)
(***************************************************************************)
EXTENDS Naturals, Sequences, FiniteSets, SequencesExt

CONSTANTS Processors,         \* names of processors that can be registered
          Distillation,       \* MemoryDistillationProcessor
          MaxConcurrentRuns,  \* maxConcurrentRuns
          MaxRuns,            \* bound: dispatches
          MaxDrains,          \* bound: drains
          MaxPresets,         \* bound: preset changes
          Gates               \* what shouldRun and run() do when called

ASSUME PostSessionAssumption ==
  /\ Distillation \in Processors
  /\ MaxConcurrentRuns \in Nat \ {0} /\ MaxRuns \in Nat /\ MaxDrains \in Nat /\ MaxPresets \in Nat
  /\ Gates \subseteq {"run", "false", "throws", "runThrows"}

VARIABLES pipe, runs, drains, memory

postSessionVars == <<pipe, runs, drains, memory>>

RunIds == 1..MaxRuns

(***************************************************************************)
(* Registration: freeze accepts known, acyclic dependencies, of which a    *)
(* required processor has only required ones, and orders the processors.   *)
(***************************************************************************)
Sorted(ordered, needs) ==
  \A i \in 1..Len(ordered) : needs[ordered[i]] \subseteq {ordered[j] : j \in 1..(i - 1)}

Frozen(ordered, needs, required) ==
  /\ ToSet(ordered) \subseteq Processors /\ Len(ordered) = Cardinality(ToSet(ordered))
  /\ \A p \in ToSet(ordered) \cap required : needs[p] \subseteq required
  /\ Sorted(ordered, needs)

NewPipeline(ordered, needs, required) ==
  [ordered |-> ordered, needs |-> needs, required |-> required, running |-> 0,
   waiters |-> <<>>, dropped |-> 0, completed |-> 0, failed |-> 0]

NewRun == [phase |-> "none", outcome |-> "none", results |-> <<>>, gates |-> <<>>,
           reports |-> 0, waited |-> FALSE]

\* The pipeline and its runs, as one value that the steps below rewrite.
State == [pipe |-> pipe, runs |-> runs]

(***************************************************************************)
(* Execution.  A processor is "idle" until its dependencies have settled.  *)
(***************************************************************************)
Unsettled == {"idle", "running"}

\* runProc of one processor, as far as it gets now.
RunProc(s, r, p) ==
  LET run == s.runs[r]
      deps == {run.results[d] : d \in s.pipe.needs[p]}
  IN IF run.results[p] # "idle" \/ deps \cap Unsettled # {} THEN s
     ELSE [s EXCEPT !.runs[r].results[p] =
             IF "thrown" \in deps THEN "thrown"
             ELSE IF deps \ {"completed"} # {} THEN "skipped"
             ELSE
             CASE run.gates[p] = "throws" -> "failed"
               [] run.gates[p] = "false" -> "skipped"
               [] run.gates[p] = "runThrows" -> "thrown"
               [] OTHER -> "running"]

RunProcs(s, r) == FoldLeft(LAMBDA acc, p : RunProc(acc, r, p), s, s.pipe.ordered)

\* execute awaits the results in order: the first unsettled one holds it up,
\* and a synchronous throw of run() rejects it without a report.
FirstOpen(s, r) ==
  {i \in 1..Len(s.pipe.ordered) :
     /\ s.runs[r].results[s.pipe.ordered[i]] \in Unsettled \cup {"thrown"}
     /\ \A j \in 1..(i - 1) : s.runs[r].results[s.pipe.ordered[j]] \notin Unsettled \cup {"thrown"}}

StartPipelineRun(s, r) ==
  [RunProcs(s, r) EXCEPT !.runs[r].phase = "running"]

\* The slot goes to the waiter that came first, whose run starts.
\* Mutant: the freed slot is handed over without being taken again.
ReleaseSlotUncounted(s) ==
  IF s.pipe.waiters = <<>> THEN [s EXCEPT !.pipe.running = @ - 1]
  ELSE StartPipelineRun([s EXCEPT !.pipe.running = @ - 1, !.pipe.waiters = Tail(@)], Head(s.pipe.waiters))

ReleaseSlot(s) ==
  IF s.pipe.waiters = <<>> THEN [s EXCEPT !.pipe.running = @ - 1]
  ELSE StartPipelineRun([s EXCEPT !.pipe.waiters = Tail(@)], Head(s.pipe.waiters))

FinishRun(s, r) ==
  LET results == s.runs[r].results
      bad == Cardinality({p \in DOMAIN results : results[p] = "failed"})
  IN [s EXCEPT !.runs[r].phase = "reported", !.runs[r].outcome = "accepted",
               !.runs[r].reports = @ + 1, !.pipe.failed = @ + bad,
               !.pipe.completed = @ + Cardinality(DOMAIN results) - bad]

\* A run that ended keeps its phase, its outcome and the number of its reports.
Forget(s, r) == [s EXCEPT !.runs[r].results = <<>>, !.runs[r].gates = <<>>]

Execute(s, r) ==
  LET next == RunProcs(s, r)
      open == FirstOpen(next, r)
  IN IF open = {} THEN ReleaseSlot(Forget(FinishRun(next, r), r))
     ELSE IF \E i \in open : next.runs[r].results[next.pipe.ordered[i]] = "thrown"
     THEN ReleaseSlot(Forget([next EXCEPT !.runs[r].phase = "rejected"], r))
     ELSE next

\* Runs whose processors all settled at once finish in the same step; each of
\* them hands its slot on, so this is repeated for as many runs as there are.
Settled(s) ==
  LET pass(t) == FoldLeft(LAMBDA acc, r : IF acc.runs[r].phase = "running" THEN Execute(acc, r) ELSE acc,
                          t, [i \in RunIds |-> i])
  IN pass(pass(s))

BecomesPipe(s) == LET t == Settled(s) IN pipe' = t.pipe /\ runs' = t.runs

\* The run budget or a drain aborts the run: whatever has not settled fails,
\* while the processor's own promise goes on.
Abort(s, r) ==
  [s EXCEPT !.runs[r].results =
     [p \in DOMAIN @ |-> IF @[p] = "running" THEN "failed" ELSE @[p]]]

DropWaiting(s, r) ==
  [s EXCEPT !.pipe.waiters = SelectSeq(@, LAMBDA w : w # r), !.pipe.dropped = @ + 1,
            !.runs[r].phase = "reported", !.runs[r].outcome = "dropped",
            !.runs[r].results = <<>>, !.runs[r].gates = <<>>, !.runs[r].reports = @ + 1]

(***************************************************************************)
(* dispatch: the snapshot, then admission.                                 *)
(***************************************************************************)
HasRequired == pipe.required # {}

DispatchPipeline(r, gates, built) ==
  LET named == [State EXCEPT !.runs[r].gates = gates,
                             !.runs[r].results = [p \in ToSet(pipe.ordered) |-> "idle"]]
  IN CASE ~built -> [State EXCEPT !.pipe.failed = @ + 1, !.runs[r].phase = "reported",
                                  !.runs[r].outcome = "failed_to_start", !.runs[r].reports = @ + 1]
       [] built /\ pipe.running < MaxConcurrentRuns ->
            StartPipelineRun([named EXCEPT !.pipe.running = @ + 1], r)
       [] built /\ pipe.running >= MaxConcurrentRuns /\ ~HasRequired -> DropWaiting(named, r)
       [] OTHER -> [named EXCEPT !.pipe.waiters = Append(@, r), !.runs[r].phase = "waiting",
                                 !.runs[r].waited = TRUE]

DispatchRun ==
  \E r \in RunIds : \E built \in BOOLEAN : \E gates \in [ToSet(pipe.ordered) -> Gates] :
    /\ runs[r].phase = "none" /\ \A q \in 1..(r - 1) : runs[q].phase # "none"
    /\ BecomesPipe(DispatchPipeline(r, gates, built))
    /\ UNCHANGED <<drains, memory>>

RequiredWaitExpires ==
  \E r \in RunIds :
    /\ runs[r].phase = "waiting"
    /\ BecomesPipe(DropWaiting(State, r))
    /\ UNCHANGED <<drains, memory>>

RunBudgetExpires ==
  \E r \in RunIds :
    /\ runs[r].phase = "running"
    /\ BecomesPipe(Abort(State, r))
    /\ UNCHANGED <<drains, memory>>

\* A processor other than the distillation settles, if its race is still on.
ProcessorEnds ==
  \E r \in RunIds : \E p \in Processors \ {Distillation} : \E end \in {"completed", "failed"} :
    /\ runs[r].phase = "running" /\ p \in DOMAIN runs[r].results
    /\ runs[r].results[p] = "running"
    /\ BecomesPipe([State EXCEPT !.runs[r].results[p] = end])
    /\ UNCHANGED <<drains, memory>>

(***************************************************************************)
(* drain.                                                                  *)
(***************************************************************************)
Pending == {r \in RunIds : runs[r].phase \in {"waiting", "running"}}

NoDrain == [phase |-> "none", mode |-> "none", reports |-> {}]

StartDrain ==
  \E d \in 1..MaxDrains : \E mode \in {"forever", "cancel", "leave"} :
    /\ drains[d].phase = "none" /\ \A e \in 1..(d - 1) : drains[e].phase # "none"
    /\ drains' = [drains EXCEPT ![d] = [phase |-> "waiting", mode |-> mode, reports |-> Pending]]
    /\ UNCHANGED <<pipe, runs, memory>>

DrainDeadline ==
  \E d \in 1..MaxDrains :
    /\ drains[d].phase = "waiting"
    /\ \/ /\ drains[d].mode = "leave"
          /\ drains' = [drains EXCEPT ![d].phase = "left"]
          /\ UNCHANGED <<pipe, runs>>
       \/ /\ drains[d].mode = "cancel"
          /\ LET order == [i \in RunIds |-> i]
                 aborted == FoldLeft(LAMBDA s, r : IF s.runs[r].phase = "running" THEN Abort(s, r) ELSE s,
                                     State, order)
             IN BecomesPipe(FoldLeft(LAMBDA s, r : IF s.runs[r].phase = "waiting" THEN DropWaiting(s, r) ELSE s,
                                 aborted, order))
          /\ drains' = [drains EXCEPT ![d].mode = "cancelled"]
    /\ UNCHANGED memory

DrainReturns ==
  \E d \in 1..MaxDrains :
    /\ drains[d].phase = "waiting"
    /\ \/ drains[d].reports \cap Pending = {}
       \/ \E r \in drains[d].reports : runs[r].phase = "rejected"
    /\ drains' = [drains EXCEPT ![d].phase =
                    IF \E r \in drains[d].reports : runs[r].phase = "rejected" THEN "failed" ELSE "done"]
    /\ UNCHANGED <<pipe, runs, memory>>

(***************************************************************************)
(* The memory file of one user: the facts by the run that distilled them,  *)
(* and the directives, written by read-modify-write.  stage: how far the   *)
(* extraction of each run is; saves: the preset changes; alone: no two of  *)
(* them have overlapped.                                                   *)
(***************************************************************************)
NoFile == [facts |-> {}, directives |-> 0]

MemoryInit ==
  memory = [file |-> NoFile, stage |-> [r \in RunIds |-> "none"], known |-> [r \in RunIds |-> {}],
            copies |-> [r \in RunIds |-> NoFile], saves |-> [n \in 1..MaxPresets |-> "none"],
            saved |-> [n \in 1..MaxPresets |-> NoFile], wrote |-> {}, directed |-> 0, alone |-> TRUE]

InHand(m) == {r \in RunIds : m.stage[r] \in {"model", "store"}}
Saving(m) == {n \in 1..MaxPresets : m.saves[n] = "store"}
Overlaps(m) == Cardinality(InHand(m)) + Cardinality(Saving(m)) > 1
Noted(m) == [m EXCEPT !.alone = @ /\ ~Overlaps(m)]

\* forceExtract reads the facts for its prompt ...
ExtractReads ==
  \E r \in RunIds :
    /\ runs[r].phase = "running" /\ Distillation \in DOMAIN runs[r].results
    /\ runs[r].results[Distillation] = "running" /\ memory.stage[r] = "none"
    /\ memory' = Noted([memory EXCEPT !.stage[r] = "model", !.known[r] = memory.file.facts])
    /\ UNCHANGED <<pipe, runs, drains>>

\* ... replaceAll reads the file again when the model has answered ...
ReplaceReads ==
  \E r \in RunIds :
    /\ memory.stage[r] = "model"
    /\ memory' = [memory EXCEPT !.stage[r] = "store", !.copies[r] = memory.file]
    /\ UNCHANGED <<pipe, runs, drains>>

\* ... and writes it with its own facts for the old ones.
Replaced(m, r) == [m.copies[r] EXCEPT !.facts = m.known[r] \cup {r}]

ExtractionSettles(r, end) ==
  IF runs[r].phase = "running" /\ runs[r].results[Distillation] = "running"
  THEN BecomesPipe([State EXCEPT !.runs[r].results[Distillation] = end])
  ELSE UNCHANGED <<pipe, runs>>

ReplaceWrites ==
  \E r \in RunIds :
    /\ memory.stage[r] = "store"
    /\ memory' = [memory EXCEPT !.stage[r] = "done", !.file = Replaced(memory, r),
                                !.known[r] = {}, !.copies[r] = NoFile, !.wrote = @ \cup {r}]
    /\ ExtractionSettles(r, "completed")
    /\ UNCHANGED drains

\* The model or the disk fails; or nothing is new, or an extraction of the
\* session is still running, and forceExtract returns at once.
ExtractEnds ==
  \E r \in RunIds : \E end \in {"completed", "failed"} :
    /\ runs[r].phase = "running" \/ memory.stage[r] = "model"
    /\ memory.stage[r] \in {"none", "model"}
    /\ memory.stage[r] = "none" =>
         /\ Distillation \in DOMAIN runs[r].results
         /\ runs[r].results[Distillation] = "running" /\ end = "completed"
    /\ memory.stage[r] = "model" => end = "failed"
    /\ memory' = [memory EXCEPT !.stage[r] = "done"]
    /\ ExtractionSettles(r, end)
    /\ UNCHANGED drains

\* onPresetChange of a running session calls setDirectives and does not wait.
PresetReads ==
  \E n \in 1..MaxPresets :
    /\ memory.saves[n] = "none" /\ \A k \in 1..(n - 1) : memory.saves[k] # "none"
    /\ memory' = Noted([memory EXCEPT !.saves[n] = "store", !.saved[n] = memory.file])
    /\ UNCHANGED <<pipe, runs, drains>>

PresetWrites ==
  \E n \in 1..MaxPresets :
    /\ memory.saves[n] = "store"
    /\ memory' = [memory EXCEPT !.saves[n] = "done", !.directed = n, !.saved[n] = NoFile,
                                !.file = [memory.saved[n] EXCEPT !.directives = n]]
    /\ UNCHANGED <<pipe, runs, drains>>

PostSessionInit ==
  /\ runs = [r \in RunIds |-> NewRun]
  /\ drains = [d \in 1..MaxDrains |-> NoDrain]
  /\ MemoryInit
  /\ \E ordered \in SetToAllKPermutations(Processors) :
       \E needs \in [ToSet(ordered) -> SUBSET ToSet(ordered)] : \E required \in SUBSET ToSet(ordered) :
         /\ ordered # <<>> /\ Frozen(ordered, needs, required)
         /\ Distillation \in ToSet(ordered) => Distillation \in required /\ needs[Distillation] = {}
         /\ pipe = NewPipeline(ordered, needs, required)

PipelineStep ==
  \/ DispatchRun \/ RequiredWaitExpires \/ RunBudgetExpires \/ ProcessorEnds
  \/ StartDrain \/ DrainDeadline \/ DrainReturns

MemoryStep == ExtractReads \/ ReplaceReads \/ ReplaceWrites \/ ExtractEnds \/ PresetReads \/ PresetWrites

PostSessionNext == PipelineStep \/ MemoryStep

PostSessionSpec == PostSessionInit /\ [][PostSessionNext]_postSessionVars

(***************************************************************************)
(* Slots are exactly the executing runs, a run waits only while all slots  *)
(* are taken, and every dispatch is answered once: with a report, or with  *)
(* the rejection of a processor that threw out of run().  A run that a     *)
(* required processor needs is dropped only after it waited.  A dependent  *)
(* ran only after its dependencies completed, and the counters add up to   *)
(* the results of the reports.  (PostSessionPipeline: dispatch, execute.)  *)
(***************************************************************************)
In(phase) == {r \in RunIds : runs[r].phase = phase}

RunsAreBooked ==
  /\ pipe.running = Cardinality(In("running")) /\ pipe.running <= MaxConcurrentRuns
  /\ ToSet(pipe.waiters) = In("waiting") /\ Len(pipe.waiters) = Cardinality(In("waiting"))
  /\ pipe.waiters # <<>> => pipe.running = MaxConcurrentRuns
  /\ \A r \in RunIds :
       /\ runs[r].reports = IF runs[r].phase = "reported" THEN 1 ELSE 0
       /\ runs[r].outcome = "dropped" /\ HasRequired => runs[r].waited
       /\ \A p \in DOMAIN runs[r].results :
            runs[r].results[p] \in {"running", "completed", "failed"} =>
              \A d \in pipe.needs[p] : runs[r].results[d] = "completed"
  /\ pipe.dropped = Cardinality({r \in RunIds : runs[r].outcome = "dropped"})
  /\ pipe.failed + pipe.completed =
       Cardinality({r \in RunIds : runs[r].outcome = "failed_to_start"})
         + Len(pipe.ordered) * Cardinality({r \in RunIds : runs[r].outcome = "accepted"})

(***************************************************************************)
(* A drain that returned found every run it began with answered, and none  *)
(* of those is executing or waiting after a drain that cancels.            *)
(***************************************************************************)
DrainsAreComplete ==
  \A d \in 1..MaxDrains :
    /\ drains[d].phase = "done" => drains[d].reports \cap Pending = {}
    /\ drains[d].mode = "cancelled" => drains[d].reports \cap Pending = {}

(***************************************************************************)
(* What a distillation or a preset change wrote stays in the user's file   *)
(* unless two writers of that file overlapped.  (JsonMemoryStore.)         *)
(***************************************************************************)
MemoryIsKept ==
  memory.alone => memory.wrote \subseteq memory.file.facts /\ memory.file.directives = memory.directed

PostSessionIsBooked == RunsAreBooked /\ DrainsAreComplete /\ MemoryIsKept
=============================================================================
