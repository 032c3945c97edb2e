----------------------------- MODULE ClaudeCodeRuns ----------------------------
(***************************************************************************)
(* The coding relay of the demos.  Every handoff gets a relay subagent of  *)
(* its own, with its own running Claude sessions; all of them share the    *)
(* threads: which session to resume, and a bounded history of results.  A  *)
(* call of claude_code_start resolves its thread, resumes that thread's    *)
(* last completed session or starts a new one, falls back to a new one     *)
(* when the resume is refused, and records how it ended.                   *)
(*                                                                         *)
(* A run is a call of claude_code_start; threads are numbers, 0 for a name *)
(* the caller chose, n for claude_thread_n, Unknown for unknown_thread.    *)
(* A session of the SDK is the number it was first seen with.              *)
(***************************************************************************)
EXTENDS Naturals, Sequences, FiniteSets, SequencesExt, FiniteSetsExt

CONSTANTS MaxClaudeRuns,       \* bound: calls of claude_code_start
          MaxHistoryPerThread,
          MaxTotalHistory,
          MaxResponds          \* bound: calls of claude_code_respond

ASSUME ClaudeCodeAssumption ==
  /\ MaxClaudeRuns \in Nat /\ MaxResponds \in Nat
  /\ MaxHistoryPerThread \in Nat \ {0} /\ MaxTotalHistory \in Nat \ {0}

VARIABLE claude

ClaudeRuns == 1..MaxClaudeRuns
ClaudeHandoffs == {1, 2}
Unknown == MaxClaudeRuns + 1
ThreadKeys == 0..Unknown
ContinuityModes == {"resume_if_available", "force_resume", "force_fresh"}

(***************************************************************************)
(* threads: last is the session to resume; runs: st says what the tool     *)
(* awaits; sessions, sessionToThread as in the closure of an instance.     *)
(* An instance that is disposed of keeps its calls; a call that ended is   *)
(* its thread and nothing more.                                            *)
(***************************************************************************)
NoRun == [st |-> "none", handoff |-> 1, thread |-> Unknown, mode |-> "force_fresh", from |-> 0,
          sdk |-> 0, aborted |-> FALSE]

DoneRun(t) == [NoRun EXCEPT !.st = "done", !.thread = t]

ClaudeInit ==
  claude = [threads |-> [t \in ThreadKeys |-> [last |-> 0, history |-> <<>>]],
            runs |-> [r \in ClaudeRuns |-> NoRun], sessions |-> {}, mapped |-> {}, nextThread |-> 1,
            clock |-> 0, sdks |-> 0, evicted |-> FALSE, responds |-> 0,
            done |-> <<>>, named |-> {}]   \* history: completed; sessions a call named

(***************************************************************************)
(* The shared history.                                                     *)
(***************************************************************************)
TotalHistory(ts) == FoldFunction(LAMBDA x, n : Len(x.history) + n, 0, ts)

HasDedupeKey(s, r, tag) ==
  \E t \in ThreadKeys : \E i \in 1..Len(s.threads[t].history) :
    s.threads[t].history[i].run = r /\ s.threads[t].history[i].tag = tag

\* enforceTotalHistoryCap: a record adds one, so one eviction is enough.
EnforceTotal(s) ==
  IF TotalHistory(s.threads) <= MaxTotalHistory THEN s
  ELSE LET full == {t \in ThreadKeys : s.threads[t].history # <<>>}
           oldest == CHOOSE t \in full :
                       \A u \in full : Head(s.threads[t].history).at <= Head(s.threads[u].history).at
       IN [s EXCEPT !.threads[oldest].history = Tail(@), !.evicted = TRUE]

\* recordTerminalResult.
Record(s, t, r, tag, status) ==
  IF HasDedupeKey(s, r, tag) THEN s
  ELSE LET thread == s.threads[t]
           longer == Append(thread.history, [at |-> s.clock, run |-> r, tag |-> tag])
           over == Len(longer) > MaxHistoryPerThread
           sdk == IF tag = "respond" THEN 0 ELSE s.runs[r].sdk
       IN EnforceTotal([s EXCEPT !.clock = @ + 1, !.evicted = @ \/ over,
            !.threads[t] = [last |-> IF status = "completed" /\ sdk # 0 THEN sdk ELSE thread.last,
                            history |-> IF over THEN Tail(longer) ELSE longer]])

(***************************************************************************)
(* claude_code_start.                                                      *)
(***************************************************************************)
\* resolveThreadKey, for a call with (key in Threads) or without (Unknown) a key.
ResolveThread(s, key) ==
  IF key # Unknown THEN [s |-> s, thread |-> key]
  ELSE [s |-> [s EXCEPT !.nextThread = @ + 1], thread |-> s.nextThread]

\* Mutant: the call resumes what completed last, on whatever thread.
ResumeLatest(s, mode, t, given) ==
  IF mode = "force_fresh" THEN 0 ELSE IF given # 0 THEN given
  ELSE IF s.done = <<>> THEN 0 ELSE Last(s.done).sdk

ResumeTarget(s, mode, t, given) ==
  IF mode = "force_fresh" THEN 0 ELSE IF given # 0 THEN given ELSE s.threads[t].last

\* force_resume without a target is refused before a thread is allocated.
NoTarget(s, mode, key, given) ==
  mode = "force_resume" /\ given = 0 /\ (key = Unknown \/ s.threads[key].last = 0)

\* ClaudeCodeSession: start, or resume with the SDK's session.
Opens(target) == IF target = 0 THEN "starting" ELSE "resuming"

StartRun(h, mode, key, given) ==
  \E r \in ClaudeRuns :
    /\ claude.runs[r].st = "none" /\ (r > 1 => claude.runs[r - 1].st # "none")
    /\ LET new == [NoRun EXCEPT !.handoff = h, !.mode = mode]
           refused == [claude EXCEPT !.runs[r] = DoneRun(key)]
           found == ResolveThread(claude, key)
           target == ResumeTarget(found.s, mode, found.thread, given)
       IN claude' = IF NoTarget(claude, mode, key, given) THEN Record(refused, key, r, "no-target", "error")
                    ELSE [found.s EXCEPT
                            !.runs[r] = [new EXCEPT !.st = Opens(target),
                                                    !.thread = found.thread, !.from = target],
                            !.sessions = @ \cup {r}, !.mapped = @ \cup {r},
                            !.named = @ \cup {given}]

\* The relay model knows the keys and the sessions that results told it.
ClaudeCodeStart ==
  \E h \in ClaudeHandoffs, mode \in ContinuityModes,
     key \in {0, Unknown} \cup 1..(claude.nextThread - 1),
     given \in {0} \cup 1..claude.sdks : StartRun(h, mode, key, given)

\* The init message of the SDK names the session: a new one, or the resumed one.
SdkInit ==
  \E r \in ClaudeRuns :
    /\ claude.runs[r].st \in {"starting", "resuming"} /\ claude.runs[r].sdk = 0 /\ ~claude.runs[r].aborted
    /\ \/ claude' = [claude EXCEPT !.sdks = @ + 1, !.runs[r].sdk = claude.sdks + 1]
       \/ claude.runs[r].st = "resuming" /\ claude' = [claude EXCEPT !.runs[r].sdk = claude.runs[r].from]

\* The session is forgotten, the call returns.
ForgetSession(s, r) ==
  [s EXCEPT !.runs[r] = DoneRun(s.runs[r].thread), !.sessions = @ \ {r}, !.mapped = @ \ {r}]

Ends(s, r, tag, status) ==
  LET t == s.runs[r].thread
      won == status = "completed" /\ s.runs[r].sdk # 0
  IN [ForgetSession(Record(s, t, r, tag, status), r) EXCEPT
        !.done = IF won THEN Append(@, [thread |-> t, sdk |-> s.runs[r].sdk]) ELSE @]

\* A resume that the SDK says is unknown or expired: recorded, and a new session, unless it was forced.
ResumeRefused(s, r, tag) ==
  LET told == Record(s, s.runs[r].thread, r, tag, "error")
  IN IF s.runs[r].mode = "force_resume" THEN ForgetSession(told, r)
     ELSE [told EXCEPT !.runs[r] = [@ EXCEPT !.st = "falling", !.sdk = 0, !.from = 0]]

\* How a session ends: collectUntilPauseOrDone returned, or the call threw.
\* Nothing sets pendingQuestion, so that it never returns needs_input.
SessionEnds ==
  \E r \in ClaudeRuns :
    LET run == claude.runs[r] IN
    /\ run.st \in {"starting", "resuming"}
    /\ \/ ~run.aborted /\ claude' = Ends(claude, r, "final", "completed")
       \/ claude' = Ends(claude, r, "final", "error")
       \/ run.sdk = 0 /\ claude' = Ends(claude, r, "threw", "error")
       \/ /\ run.st = "resuming" /\ ~run.aborted
          /\ \/ claude' = ResumeRefused(claude, r, "resume-error-result")
             \/ run.sdk = 0 /\ claude' = ResumeRefused(claude, r, "resume-invalid-throw")

\* After the await of abort the new session takes the old one's place.
FallbackStarts ==
  \E r \in ClaudeRuns :
    /\ claude.runs[r].st = "falling"
    /\ claude' = [claude EXCEPT !.runs[r] = [@ EXCEPT !.st = "starting", !.aborted = FALSE],
                                !.sessions = @ \cup {r}]

(***************************************************************************)
(* claude_code_respond: the call it names has always returned, and its     *)
(* session with it.                                                        *)
(***************************************************************************)
ClaudeCodeRespond ==
  /\ claude.responds < MaxResponds
  /\ \E r \in ClaudeRuns, key \in {0, Unknown} :
       /\ claude.runs[r].st = "done"
       /\ LET asked == [claude EXCEPT !.responds = @ + 1]
          IN claude' = IF key = Unknown THEN asked ELSE Record(asked, key, r, "respond", "error")

\* dispose, at the end or the timeout of a handoff: its sessions are aborted.
DisposeRelay ==
  \E h \in ClaudeHandoffs :
    LET mine == {r \in claude.sessions : claude.runs[r].handoff = h}
    IN /\ mine # {}
       /\ claude' = [claude EXCEPT !.sessions = @ \ mine,
                       !.runs = [r \in ClaudeRuns |-> IF r \in mine
                                   THEN [claude.runs[r] EXCEPT !.aborted = TRUE] ELSE claude.runs[r]]]

ClaudeNext ==
  \/ ClaudeCodeStart \/ SdkInit \/ SessionEnds \/ FallbackStarts \/ ClaudeCodeRespond \/ DisposeRelay

ClaudeSpec == ClaudeInit /\ [][ClaudeNext]_claude

(***************************************************************************)
(* However the handoffs overlap, fail, fall back and are disposed of: a    *)
(* thread is resumed from the last session completed on it, and no thread  *)
(* resumes, holds or has completed a session of another thread, unless a   *)
(* call named that session; histories keep their bounds, their order and   *)
(* one record per end, every call that ended has its record unless records *)
(* were evicted, and no ended call keeps a session or a thread mapping     *)
(* (recordTerminalResult, claude_code_start).                              *)
(***************************************************************************)
ThreadsContinue ==
  \A t \in ThreadKeys :
    LET ends == SelectSeq(claude.done, LAMBDA d : d.thread = t)
    IN claude.threads[t].last = IF ends = <<>> THEN 0 ELSE Last(ends).sdk

\* The threads that session k is or was in the hands of.
HoldersOf(k) ==
  {claude.done[i].thread : i \in {i \in DOMAIN claude.done : claude.done[i].sdk = k}}
    \cup {claude.runs[r].thread : r \in {r \in ClaudeRuns : k \in {claude.runs[r].from, claude.runs[r].sdk}}}

SessionsStayApart ==
  \A k \in 1..claude.sdks : k \in claude.named \/ Cardinality(HoldersOf(k)) <= 1

HistoriesAreSound ==
  /\ TotalHistory(claude.threads) <= MaxTotalHistory
  /\ \A t \in ThreadKeys :
       LET h == claude.threads[t].history
       IN /\ Len(h) <= MaxHistoryPerThread
          /\ \A i, j \in 1..Len(h) : i < j => h[i].at < h[j].at /\ [h[i] EXCEPT !.at = 0] # [h[j] EXCEPT !.at = 0]
  /\ \A r \in ClaudeRuns : (claude.runs[r].st = "done" /\ ~claude.evicted) =>
       LET h == claude.threads[claude.runs[r].thread].history
       IN \E i \in 1..Len(h) : h[i].run = r

RelaysKeepTheThread ==
  /\ ThreadsContinue /\ SessionsStayApart /\ HistoriesAreSound
  /\ \A r \in ClaudeRuns : claude.runs[r].st \in {"none", "done"} => r \notin claude.sessions \cup claude.mapped
================================================================================
