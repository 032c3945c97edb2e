------------------------------- MODULE Interviews ------------------------------
(***************************************************************************)
(* The two interview demos: a persistent subagent owns the order of the    *)
(* questions, the follow-ups and the answers, and the voice model reports  *)
(* each answer by a background tool call.  SoftwareInterviewerSubagent and *)
(* ProjectDeepdiveSubagent are twins that differ in their anchors, in the  *)
(* budget of follow-ups and in the decision made when no model answers.    *)
(* Next to them runs the background agent that tells the time left.        *)
(*                                                                         *)
(* A question is its serial number (asked), an answer the anchor and the   *)
(* question it is filed under and the question the candidate had heard     *)
(* (about).  Its text matters only to the rule that decides when the model *)
(* fails, as one of the classes of Texts.                                  *)
(***************************************************************************)
EXTENDS Naturals, Sequences, FiniteSets, SequencesExt

CONSTANTS InterviewKinds,    \* "interview", "deepdive": the demos that are run
          MaxInterviewCalls, \* bound: calls of the tool
          ReminderBudget     \* totalBudgetMs in intervals

ASSUME InterviewsAssumption ==
  /\ InterviewKinds \subseteq {"interview", "deepdive"}
  /\ MaxInterviewCalls \in Nat /\ ReminderBudget \in Nat

VARIABLES iv, reminder

interviewVars == <<iv, reminder>>

(***************************************************************************)
(* The anchors, the budgets, the classes of an answer's text.              *)
(***************************************************************************)
QuestionIds == <<"walk_resume", "company_interest", "technical_challenge">>
AnchorIds == <<"project_context", "contribution_and_decisions", "problems_and_failures",
               "outcomes_and_metrics">>
QuestionBudget == 2
AnchorBudget == 3

Anchors(k) == IF k = "interview" THEN QuestionIds ELSE AnchorIds
DynamicBudget(k) == IF k = "interview" THEN QuestionBudget ELSE AnchorBudget
ReplyActions == {"advance", "clarification", "follow_up", "deep_dive"}
Texts == {"short", "general", "technical", "plain"}
InterviewCalls == 1..MaxInterviewCalls

(***************************************************************************)
(* iv: phase, plan, next, open (the active question's serial), anchor,     *)
(* answers, dyn as in the state object; named: company and role are there; *)
(* chain: the promise queue, its head holds the lock; deciding: the call   *)
(* awaiting a decision; heard: the last question that reached the speaker. *)
(***************************************************************************)
createInterviewState(k) ==
  [kind |-> k, phase |-> "not_prepared", plan |-> "none", named |-> FALSE, next |-> 0, open |-> 0,
   anchor |-> 0, asked |-> 0, answers |-> <<>>, dyn |-> [a \in 1..Len(Anchors(k)) |-> 0],
   disposed |-> FALSE, chain |-> <<>>, deciding |-> {}, heard |-> 0, crossed |-> FALSE,
   calls |-> [c \in InterviewCalls |-> [st |-> "none", said |-> FALSE, about |-> 0, aborted |-> FALSE]]]

InterviewsInit ==
  /\ \E k \in InterviewKinds : iv = createInterviewState(k)
  /\ reminder = [on |-> FALSE, left |-> ReminderBudget, afterEnd |-> FALSE]

(***************************************************************************)
(* Preparation: the plan of the model, or the fallback when the model      *)
(* fails or its anchors are not the expected ones.  A heading of blanks in *)
(* the documents leaves an empty company or role.                          *)
(***************************************************************************)
applyInterviewPlan(s, named) == [s EXCEPT !.phase = "prepared", !.plan = "model", !.named = named]

ensurePreparedWithFallback(s, named) ==
  IF s.plan = "none" THEN [s EXCEPT !.phase = "prepared", !.plan = "fallback", !.named = named] ELSE s

\* prepare, and the catch around it; then the session starts its agents.
Prepare(k, valid, named) ==
  /\ iv.kind = k /\ iv.phase = "not_prepared"
  /\ iv' = IF valid THEN applyInterviewPlan(iv, named) ELSE ensurePreparedWithFallback(iv, named)
  /\ reminder' = [reminder EXCEPT !.on = TRUE]

PrepareInterview == \E valid, named \in BOOLEAN : Prepare("interview", valid, named)
PrepareDeepdive == \E valid, named \in BOOLEAN : Prepare("deepdive", valid, named)

(***************************************************************************)
(* The state operations.                                                   *)
(***************************************************************************)
getNextInterviewQuestion(s) ==
  IF s.next >= Len(Anchors(s.kind)) THEN [s EXCEPT !.phase = "completed", !.open = 0, !.anchor = 0]
  ELSE [s EXCEPT !.next = @ + 1, !.anchor = s.next + 1, !.asked = @ + 1, !.open = s.asked + 1,
                 !.phase = "questioning"]

recordInterviewAnswer(s, c) ==
  [s EXCEPT !.answers = Append(@, [anchor |-> s.anchor, q |-> s.open, about |-> s.calls[c].about]),
            !.open = 0, !.anchor = 0]

createDynamicQuestion(s, a) ==
  [s EXCEPT !.anchor = a, !.asked = @ + 1, !.open = s.asked + 1, !.phase = "questioning",
            !.dyn[a] = @ + 1]

getPreparedStateError(s) == s.plan = "none" \/ ~s.named

\* The call leaves the lock; what it returns reaches the speaker unless it was cancelled.
serialize(s, c) ==
  LET told == s.open # 0 /\ s.open # s.heard
      gone == s.calls[c].aborted
  IN [s EXCEPT !.calls[c] = [st |-> "done", said |-> FALSE, about |-> 0, aborted |-> FALSE],
               !.chain = Tail(@), !.deciding = @ \ {c},
               !.heard = IF told /\ ~gone THEN s.open ELSE @, !.crossed = @ \/ (told /\ gone)]

fails(s, c) ==
  [s EXCEPT !.calls[c] = [st |-> "failed", said |-> FALSE, about |-> 0, aborted |-> FALSE],
            !.chain = Tail(@)]

(***************************************************************************)
(* The decision after an answer: none past the budget, the model's, or the *)
(* rule of the demo when the model fails.  dyn here is that of the anchor. *)
(***************************************************************************)
interviewFallback(a, text, dyn) ==
  IF dyn = 0 /\ text = "short" THEN "clarification"
  ELSE IF dyn = 0 /\ QuestionIds[a] = "company_interest" /\ text = "general" THEN "follow_up"
  ELSE IF dyn = 0 /\ text = "technical" THEN "deep_dive"
  ELSE "advance"

\* An answer of the class "technical" names no number, one of "general" does.
deepdiveFallback(a, text, dyn) ==
  IF dyn = 0 /\ text = "short" THEN "clarification"
  ELSE IF dyn = 0 /\ AnchorIds[a] # "outcomes_and_metrics" /\ text = "technical" THEN "deep_dive"
  ELSE IF dyn <= 1 /\ AnchorIds[a] = "outcomes_and_metrics" /\ text # "general" THEN "follow_up"
  ELSE "advance"

decideInterview(a, dyn) ==
  IF dyn >= QuestionBudget THEN {"advance"}
  ELSE ReplyActions \cup {interviewFallback(a, text, dyn) : text \in Texts}

decideDeepdive(a, dyn) ==
  IF dyn >= AnchorBudget THEN {"advance"}
  ELSE ReplyActions \cup {deepdiveFallback(a, text, dyn) : text \in Texts}

Decisions(s) ==
  LET a == Last(s.answers).anchor
  IN IF s.kind = "interview" THEN decideInterview(a, s.dyn[a]) ELSE decideDeepdive(a, s.dyn[a])

(***************************************************************************)
(* invoke: a call waits for the one before it.                             *)
(***************************************************************************)
InvokeTool(said) ==
  \E c \in InterviewCalls :
    /\ iv.calls[c].st = "none" /\ (c > 1 => iv.calls[c - 1].st # "none") /\ iv.phase # "not_prepared"
    /\ iv' = IF iv.disposed THEN [iv EXCEPT !.calls[c].st = "failed"]
             ELSE [iv EXCEPT !.calls[c] = [st |-> "queued", said |-> said, about |-> iv.heard, aborted |-> FALSE],
                             !.chain = Append(@, c), !.crossed = @ \/ iv.chain # <<>>]
    /\ UNCHANGED reminder

\* Without answerText, or with blanks only, nothing is said.
AnswerOrAsk == \E said \in BOOLEAN : InvokeTool(said)

\* Mutant: a call does not wait for the decision of the one before it.
LockHolderAny(s) == {c \in InterviewCalls : s.calls[c].st = "queued"}

LockHolder(s) ==
  IF s.chain # <<>> /\ s.calls[Head(s.chain)].st = "queued" THEN {Head(s.chain)} ELSE {}

\* invokeLocked, up to the await of the decision.
invokeLocked(s, c) ==
  LET said == s.calls[c].said
  IN IF s.calls[c].aborted THEN fails(s, c)
     ELSE IF getPreparedStateError(s) THEN serialize(s, c)
     ELSE IF s.phase = "completed" THEN serialize(getNextInterviewQuestion(s), c)
     ELSE IF s.open = 0 THEN IF said THEN serialize(s, c) ELSE serialize(getNextInterviewQuestion(s), c)
     ELSE IF ~said THEN serialize(s, c)
     ELSE [recordInterviewAnswer(s, c) EXCEPT !.calls[c].st = "deciding", !.deciding = @ \cup {c}]

\* The rest of it: one more question on the anchor, or the next anchor.
invokeDecided(s, c, action) ==
  IF action = "advance" THEN serialize(getNextInterviewQuestion(s), c)
  ELSE serialize(createDynamicQuestion(s, Last(s.answers).anchor), c)

LockedBy(k) == iv.kind = k /\ UNCHANGED reminder /\ \E c \in LockHolder(iv) : iv' = invokeLocked(iv, c)

DecidedBy(k) ==
  /\ iv.kind = k /\ UNCHANGED reminder
  /\ \E c \in iv.deciding : \E action \in Decisions(iv) : iv' = invokeDecided(iv, c, action)

InterviewInvokeLocked == LockedBy("interview")
InterviewDecided == DecidedBy("interview")
DeepdiveInvokeLocked == LockedBy("deepdive")
DeepdiveDecided == DecidedBy("deepdive")

\* The workflow cancels the task, or its time is up: the signal aborts.
AbortCall ==
  /\ \E c \in Range(iv.chain) : ~iv.calls[c].aborted /\ iv' = [iv EXCEPT !.calls[c].aborted = TRUE]
  /\ UNCHANGED reminder

\* The session closes: the instance is disposed, the background agent's signal aborts.
DisposeInterview ==
  /\ ~iv.disposed /\ iv.phase # "not_prepared"
  /\ iv' = [iv EXCEPT !.disposed = TRUE]
  /\ reminder' = [reminder EXCEPT !.on = FALSE]

\* The interval of the timing reminder.
ReminderTick ==
  /\ reminder.on
  /\ LET left == reminder.left - 1
         ends == iv.phase = "completed" \/ left <= 0
     IN reminder' = [reminder EXCEPT !.left = left, !.on = ~ends,
                                     !.afterEnd = @ \/ (~ends /\ iv.disposed)]
  /\ UNCHANGED iv

InterviewsNext ==
  \/ PrepareInterview \/ PrepareDeepdive
  \/ AnswerOrAsk \/ InterviewInvokeLocked \/ InterviewDecided
  \/ DeepdiveInvokeLocked \/ DeepdiveDecided
  \/ AbortCall \/ DisposeInterview \/ ReminderTick

InterviewsSpec == InterviewsInit /\ [][InterviewsNext]_interviewVars

(***************************************************************************)
(* However the calls overlap, are cancelled and are answered: the anchors  *)
(* are asked and answered in order, within their budgets, one question at  *)
(* a time, and the interview is completed only when each has an answer     *)
(* (invokeLocked of both subagents).  And as long as no call overlapped    *)
(* another and none that brought a question was cancelled, every answer is *)
(* filed under the question the candidate had heard.                       *)
(***************************************************************************)
AnswersFollowTheAnchors ==
  /\ \A i \in 1..Len(iv.answers) :
       iv.answers[i].anchor - (IF i = 1 THEN 0 ELSE iv.answers[i - 1].anchor) \in {0, 1}
  /\ \A a \in DOMAIN iv.dyn :
       LET given == Cardinality({i \in 1..Len(iv.answers) : iv.answers[i].anchor = a})
           waits == IF iv.anchor = a THEN 1 ELSE 0
       IN /\ iv.dyn[a] <= DynamicBudget(iv.kind)
          /\ given <= 1 + iv.dyn[a]
          /\ (a <= iv.next /\ iv.deciding = {}) => given + waits = 1 + iv.dyn[a]
  /\ iv.phase = "completed" => \A a \in DOMAIN iv.dyn : \E i \in 1..Len(iv.answers) : iv.answers[i].anchor = a

AnswersAreTheirs == ~iv.crossed => \A i \in 1..Len(iv.answers) : iv.answers[i].about = iv.answers[i].q

InterviewIsOrderly ==
  /\ AnswersFollowTheAnchors /\ AnswersAreTheirs
  /\ Cardinality(iv.deciding) <= 1
  /\ ~reminder.afterEnd
================================================================================
