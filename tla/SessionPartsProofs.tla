------------------------- MODULE SessionPartsProofs -------------------------
(***************************************************************************)
(* Theorems about parts of a session that the run session_parts checks:    *)
(* the subagents that ask the user, the tool calls of the model with the   *)
(* notes that tell of their outcomes, the history that is written of it    *)
(* all, what the application says to the model on its own call, and what   *)
(* the transport sends upstream. They are about any number of subagents,   *)
(* keys, calls, questions, turns, stores, inputs, declarations, sends and  *)
(* connections; each part has a predicate that makes a record sound,       *)
(* lemmas on what the steps make of it, and one lemma per action.          *)
(***************************************************************************)
EXTENDS SubagentSessions, ToolCalls, SessionHistory, SessionInputs, GeminiSending,
        FiniteSetTheorems, SequenceTheorems, WellFoundedInduction, TLAPS

(* Subagent sessions, and the keeper of the persistent ones.               *)

\* What a subagent that waits, or whose run has ended, has become of.
SubSound(s) ==
  /\ s \in Subagents
  /\ s.pending => s.run = "asking" /\ s.state = "waiting_for_input"
  /\ s.run = "asking" => s.pending
  /\ s.run \in {"finishing", "over"} => s.state \in Terminal /\ s.disposed
  /\ s.run = "over" => ~s.active

\* Talks, those in which the main agent keeps nobody waiting, and who is in one.
Talks == [mode : Handoffs \cup {MainAgent}, queue : Seq(Handoffs)]

TalkSound(t) == t \in Talks /\ (t.mode = MainAgent => t.queue = <<>>)

InTalk(t, c) == t.mode = c \/ \E i \in DOMAIN t.queue : t.queue[i] = c

TalkInv ==
  /\ subs \in [Handoffs -> Subagents]
  /\ \A c \in Handoffs : SubSound(subs[c])
  /\ TalkSound(Talk)
  /\ \A c \in Handoffs : subs[c].state = "waiting_for_input" => InTalk(Talk, c)
  /\ questions \in 0..MaxQuestions

\* The promises and the instances of a key, until everything is disposed of.
KeeperRecord ==
  [instances : [PersistentKeys -> 0..MaxFactories],
   inflight : [PersistentKeys -> 0..MaxFactories],
   factories : SUBSET (PersistentKeys \X (1..MaxFactories)), started : 0..MaxFactories,
   live : SUBSET (PersistentKeys \X (1..MaxFactories)), swept : BOOLEAN]

KeeperInv ==
  /\ keeper \in KeeperRecord
  /\ ~keeper.swept =>
       /\ \A f \in keeper.factories :
            keeper.inflight[f[1]] = f[2] /\ keeper.instances[f[1]] = 0
       /\ \A f \in keeper.live : keeper.instances[f[1]] = f[2]

SubagentInv == TalkInv /\ KeeperInv

\* A set of natural numbers has a least member.
LEMMA LeastIn ==
  ASSUME NEW S, S \subseteq Nat, S # {}
  PROVE  \E j \in S : \A m \in S : j <= m
<1>1. PICK j \in S : \A m \in S : ~(<<m, j>> \in OpToRel(<, Nat)) BY NatLessThanWellFounded, WFMin
<1>2. ASSUME NEW m \in S PROVE j <= m
  <2>2. m \in Nat /\ j \in Nat /\ ~(m < j) BY <1>1 DEF OpToRel
  <2> QED BY <2>2
<1> QED BY <1>2

\* A subagent that asks joins the talk; nobody leaves it.
LEMMA ActivateJoins ==
  ASSUME NEW t, TalkSound(t), NEW c \in Handoffs
  PROVE  /\ TalkSound(Activate(t, c)) /\ InTalk(Activate(t, c), c)
         /\ \A d : d # MainAgent /\ InTalk(t, d) => InTalk(Activate(t, c), d)
<1>0. c # MainAgent BY SubagentAssumption DEF SubagentAssumption
<1>1. CASE t.mode = MainAgent BY <1>1, <1>0 DEF Activate, TalkSound, Talks, InTalk
<1>2. CASE t.mode # MainAgent
  <2> DEFINE q == Append(t.queue, c)
  <2>1. Activate(t, c) = [t EXCEPT !.queue = q] BY <1>2 DEF Activate
  <2>2. /\ q \in Seq(Handoffs) /\ Len(q) = Len(t.queue) + 1 /\ q[Len(q)] = c
        /\ \A i \in 1..Len(t.queue) : q[i] = t.queue[i]
    BY DEF TalkSound, Talks
  <2>3. t.queue \in Seq(Handoffs) /\ DOMAIN t.queue = 1..Len(t.queue) /\ DOMAIN q = 1..Len(q)
        /\ Len(t.queue) \in Nat
    BY <2>2 DEF TalkSound, Talks
  <2> HIDE DEF q
  <2> QED BY <1>2, <2>2, <2>3, <2>1 DEF TalkSound, InTalk, Talks
<1> QED BY <1>1, <1>2

\* A subagent that leaves the talk takes nobody with it.
LEMMA DeactivateKeeps ==
  ASSUME NEW t, TalkSound(t), NEW c \in Handoffs
  PROVE  /\ TalkSound(Deactivate(t, c))
         /\ \A d \in Handoffs : d # c /\ InTalk(t, d) => InTalk(Deactivate(t, c), d)
<1> DEFINE q == t.queue
<1>0. q \in Seq(Handoffs) /\ t \in Talks /\ Len(q) \in Nat /\ DOMAIN q = 1..Len(q)
      /\ \A i \in 1..Len(q) : q[i] \in Handoffs
  BY DEF TalkSound, Talks
<1>00. \A d \in Handoffs : d # MainAgent BY SubagentAssumption DEF SubagentAssumption
<1>1. CASE t.mode = c /\ q = <<>>
  BY <1>1, <1>0 DEF Deactivate, PromoteNext, Talks, InTalk, TalkSound
<1>2. CASE t.mode = c /\ q # <<>>
  <2> DEFINE u == [mode |-> Head(q), queue |-> Tail(q)]
  <2>1. Deactivate(t, c) = u BY <1>2 DEF Deactivate, PromoteNext
  <2>2. /\ Len(q) > 0 /\ Head(q) = q[1] /\ Head(q) \in Handoffs
        /\ Tail(q) \in Seq(Handoffs) /\ Len(Tail(q)) = Len(q) - 1
        /\ \A i \in 1..Len(Tail(q)) : Tail(q)[i] = q[i + 1]
    BY <1>0, <1>2
  <2>3. u \in Talks /\ u.mode = q[1] /\ u.queue = Tail(q) /\ u.mode # MainAgent
    BY <1>00, <2>2 DEF Talks
  <2>4. ASSUME NEW d \in Handoffs, d # c, InTalk(t, d) PROVE InTalk(u, d)
    <3>1. PICK i \in 1..Len(q) : q[i] = d BY <1>0, <1>2, <2>4 DEF InTalk
    <3>2. CASE i = 1 BY <2>3, <3>1, <3>2 DEF InTalk
    <3>3. CASE i # 1
      <4>1. i - 1 \in 1..Len(Tail(q)) /\ Tail(q)[i - 1] = d BY <1>0, <2>2, <3>1, <3>3
      <4>2. i - 1 \in DOMAIN Tail(q) BY <2>2, <4>1
      <4> QED BY <2>3, <4>1, <4>2 DEF InTalk
    <3> QED BY <3>2, <3>3
  <2> QED BY <2>1, <2>3, <2>4 DEF TalkSound
<1>3. CASE t.mode # c /\ \E i \in DOMAIN q : q[i] = c
  <2> DEFINE k == FirstOf(c, q)
             w == Without(k, q)
  <2>1. k \in 1..Len(q) /\ q[k] = c
    <3>1. PICK i \in 1..Len(q) : q[i] = c BY <1>0, <1>3
    <3>2. \E j \in DOMAIN q : q[j] = c /\ \A m \in 1..(j - 1) : q[m] # c
      <4> DEFINE Hit == {j \in 1..Len(q) : q[j] = c}
      <4>1. Hit \subseteq Nat /\ i \in Hit BY <3>1
      <4>2. PICK j \in Hit : \A m \in Hit : j <= m
        <5> HIDE DEF Hit
        <5> QED BY <4>1, LeastIn
      <4>3. j \in 1..Len(q) /\ q[j] = c BY <4>2
      <4>4. ASSUME NEW m \in 1..(j - 1) PROVE q[m] # c
        <5>1. m \in 1..Len(q) /\ ~(j <= m) BY <1>0, <4>3
        <5> QED BY <4>2, <5>1
      <4> QED BY <1>0, <4>3, <4>4
    <3> QED BY <1>0, <3>2 DEF FirstOf
  <2> HIDE DEF k
  <2>2. /\ w \in Seq(Handoffs) /\ Len(w) = Len(q) - 1
        /\ \A i \in 1..(k - 1) : w[i] = q[i]
        /\ \A i \in k..(Len(q) - 1) : w[i] = q[i + 1]
    <3> DEFINE a == SubSeq(q, 1, k - 1)
               b == SubSeq(q, k + 1, Len(q))
    <3>1. a \in Seq(Handoffs) /\ Len(a) = k - 1 /\ \A i \in 1..(k - 1) : a[i] = q[i] BY <1>0, <2>1
    <3>2. b \in Seq(Handoffs) /\ Len(b) = Len(q) - k
          /\ \A i \in 1..(Len(q) - k) : b[i] = q[k + i]
      BY <1>0, <2>1
    <3>3. w = a \o b BY DEF Without
    <3> HIDE DEF a, b
    <3>4. /\ w \in Seq(Handoffs) /\ Len(w) = Len(q) - 1
          /\ \A i \in 1..Len(w) : w[i] = IF i <= Len(a) THEN a[i] ELSE b[i - Len(a)]
      BY <1>0, <2>1, <3>1, <3>2, <3>3
    <3>5. ASSUME NEW i \in 1..(k - 1) PROVE w[i] = q[i] BY <1>0, <2>1, <3>1, <3>4
    <3>6. ASSUME NEW i \in k..(Len(q) - 1) PROVE w[i] = q[i + 1] BY <1>0, <2>1, <3>1, <3>4, <3>2
    <3> QED BY <3>4, <3>5, <3>6
  <2>3. Deactivate(t, c) = [t EXCEPT !.queue = w] BY <1>0, <1>3 DEF Deactivate, k
  <2> HIDE DEF w
  <2>4. /\ Deactivate(t, c) \in Talks /\ Deactivate(t, c).mode = t.mode
        /\ Deactivate(t, c).queue = w
    BY <1>0, <2>2, <2>3 DEF Talks
  <2>5. t.mode # MainAgent BY <1>0, <2>1 DEF TalkSound
  <2>6. ASSUME NEW d \in Handoffs, d # c, NEW i \in 1..Len(q), q[i] = d
        PROVE  \E j \in DOMAIN w : w[j] = d
    <3>1. i # k BY <2>1, <2>6
    <3>2. CASE i < k BY <1>0, <2>1, <2>2, <2>6, <3>2
    <3>3. CASE i > k
      <4> DEFINE j == i - 1
      <4>1. j \in k..(Len(q) - 1) /\ j + 1 = i /\ j \in DOMAIN w BY <1>0, <2>1, <2>2, <3>3
      <4> HIDE DEF j
      <4> QED BY <2>6, <4>1, <2>2
    <3> QED BY <2>1, <3>1, <3>2, <3>3
  <2> QED BY <1>0, <2>4, <2>5, <2>6 DEF TalkSound, InTalk
<1>4. CASE t.mode # c /\ ~\E i \in DOMAIN q : q[i] = c BY <1>4 DEF Deactivate
<1> QED BY <1>1, <1>2, <1>3, <1>4

\* A run that fails leaves a session that nobody waits in.
LEMMA RunFailsSound ==
  ASSUME NEW s \in Subagents
  PROVE  SubSound(RunFails(s)) /\ RunFails(s).state \in Terminal
<1> DEFINE st == IF s.state \in Terminal THEN s.state ELSE "cancelled"
<1>1. st \in SessionStates /\ st \in Terminal BY DEF SessionStates, Terminal
<1>2. RunFails(s) = [s EXCEPT !.run = "finishing", !.outcome = "failed", !.pending = FALSE,
                              !.asked = 0, !.disposed = TRUE, !.state = st]
  BY DEF RunFails
<1> HIDE DEF st
<1>3. 0 \in 0..MaxQuestions BY SubagentAssumption DEF SubagentAssumption
<1> DEFINE r == RunFails(s)
<1>4. r \in Subagents BY <1>1, <1>2, <1>3 DEF Subagents
<1>5. r.run = "finishing" /\ r.state = st /\ r.disposed /\ ~r.pending BY <1>2 DEF Subagents
<1> HIDE DEF r
<1> QED BY <1>1, <1>4, <1>5 DEF r, SubSound

\* Cancelling a session ends it, with the wait if there is one.
LEMMA CancelSessionSound ==
  ASSUME NEW s, SubSound(s)
  PROVE  SubSound(CancelSession(s)) /\ CancelSession(s).state \in Terminal
<1>0. s \in Subagents BY DEF SubSound
<1> DEFINE c == [s EXCEPT !.state = "cancelled"]
<1>1. c \in Subagents BY <1>0 DEF Subagents, SessionStates
<1>2. /\ c.run = s.run /\ c.pending = s.pending /\ c.disposed = s.disposed
      /\ c.active = s.active /\ c.state = "cancelled"
  BY <1>0 DEF Subagents
<1> HIDE DEF c
<1>3. CASE s.state \in Terminal BY <1>3 DEF CancelSession
<1>4. CASE s.state \notin Terminal /\ s.pending BY <1>4, <1>1, RunFailsSound DEF CancelSession, c
<1>5. CASE s.state \notin Terminal /\ ~s.pending
  BY <1>5, <1>1, <1>2 DEF CancelSession, c, SubSound, Terminal
<1> QED BY <1>3, <1>4, <1>5

\* Aborting a run disposes of the subagent and leaves the session.
LEMMA AbortRunSound ==
  ASSUME NEW s, SubSound(s)
  PROVE  SubSound(AbortRun(s)) /\ AbortRun(s).state = s.state
<1>0. s \in Subagents BY DEF SubSound
<1> DEFINE a == [s EXCEPT !.aborted = TRUE, !.disposed = TRUE]
<1>1. a \in Subagents BY <1>0 DEF Subagents
<1>2. /\ a.run = s.run /\ a.pending = s.pending /\ a.disposed = TRUE
      /\ a.active = s.active /\ a.state = s.state
  BY <1>0 DEF Subagents
<1>3. AbortRun(s) = a \/ AbortRun(s) = s BY DEF AbortRun
<1> HIDE DEF a
<1> QED BY <1>1, <1>2, <1>3 DEF SubSound

\* A step of one subagent, the talk it leaves behind when its session ends.
LEMMA BecomesSound ==
  ASSUME TalkInv, NEW c \in Handoffs, NEW s, SubSound(s), NEW t, TalkSound(t),
         \A d \in Handoffs : InTalk(Talk, d) => InTalk(t, d),
         s.state = "waiting_for_input" =>
           InTalk(t, c) \/ subs[c].state = "waiting_for_input",
         subs' = [subs EXCEPT ![c] = s], TalkIs(Ended(c, s, t)), questions' \in 0..MaxQuestions
  PROVE  TalkInv'
<1> DEFINE u == Ended(c, s, t)
<1>1. TalkSound(u) /\ Talk' = u
  <2>1. TalkSound(u) BY DeactivateKeeps DEF Ended
  <2>2. Talk' = [mode |-> u.mode, queue |-> u.queue] BY DEF Talk, TalkIs
  <2> HIDE DEF u
  <2> QED BY <2>1, <2>2 DEF TalkSound, Talks
<1>2. /\ subs' \in [Handoffs -> Subagents] /\ subs'[c] = s
      /\ \A d \in Handoffs : d # c => subs'[d] = subs[d]
  BY DEF TalkInv, SubSound
<1>3. \A d \in Handoffs : d # c /\ InTalk(t, d) => InTalk(u, d) BY DeactivateKeeps DEF Ended
<1>4. s.state = "waiting_for_input" => u = t BY DEF Ended, Terminal
<1> HIDE DEF u
<1>5. ASSUME NEW d \in Handoffs, subs'[d].state = "waiting_for_input" PROVE InTalk(u, d)
  <2>1. CASE d = c BY <1>2, <1>4, <1>5, <2>1 DEF TalkInv
  <2>2. CASE d # c BY <1>2, <1>3, <1>5, <2>2 DEF TalkInv
  <2> QED BY <2>1, <2>2
<1> QED BY <1>1, <1>2, <1>5 DEF TalkInv

\* The same, of a step that asks nobody and whose session does not begin to wait.
LEMMA BecomesKeeps ==
  ASSUME TalkInv, NEW c \in Handoffs, NEW s, SubSound(s),
         s.state = "waiting_for_input" => subs[c].state = "waiting_for_input",
         Becomes(c, s)
  PROVE  TalkInv'
<1> QED BY BecomesSound DEF Becomes, TalkInv

\* An answer lets the run go on.
LEMMA SendSound ==
  ASSUME NEW s, SubSound(s), s.state = "waiting_for_input", NEW q
  PROVE  SubSound(SendToSubagent(s, q)) /\ SendToSubagent(s, q).state = "running"
<1> DEFINE b == s.misled \/ (s.pending /\ q \notin {0, s.asked})
           rn == IF s.pending THEN "thinking" ELSE s.run
           x == SendToSubagent(s, q)
<1>1. s \in Subagents /\ 0 \in 0..MaxQuestions /\ b \in BOOLEAN
  BY SubagentAssumption DEF SubagentAssumption, SubSound, Subagents
<1>2. rn \in {"none", "thinking"} BY <1>1 DEF SubSound, Terminal, Subagents
<1>3. x = [s EXCEPT !.state = "running", !.pending = FALSE, !.asked = 0, !.run = rn,
                    !.misled = b]
  BY DEF SendToSubagent
<1> HIDE DEF b, rn, x
<1> QED BY <1>2, <1>1, <1>3 DEF x, SubSound, Subagents, SessionStates

\* One lemma per action of a subagent or of the user.  A session begins.
LEMMA SubagentHandoffKeeps == ASSUME TalkInv, NEW c \in Handoffs, Handoff(c) PROVE TalkInv'
<1> DEFINE s == [subs[c] EXCEPT !.run = "thinking", !.active = TRUE]
<1>1. subs[c] \in Subagents /\ SubSound(subs[c]) /\ subs[c].run = "none" BY DEF TalkInv, Handoff
<1>2. subs' = [subs EXCEPT ![c] = s] BY DEF Handoff, TalkInv
<1>3. /\ s \in Subagents /\ s.run = "thinking" /\ s.state = subs[c].state
      /\ s.pending = subs[c].pending
  BY <1>1 DEF Subagents
<1> HIDE DEF s
<1>4. SubSound(s) BY <1>1, <1>3 DEF SubSound
<1>5. Becomes(c, s) BY <1>2, <1>3 DEF Becomes, TalkIs, Ended, Talk, Handoff
<1> QED BY <1>3, <1>4, <1>5, BecomesKeeps

\* A run asks the user, and joins the talk.
LEMMA AskKeeps ==
  ASSUME TalkInv, NEW c \in Handoffs, NEW options \in BOOLEAN, Ask(c, options) PROVE TalkInv'
<1> DEFINE s == subs[c]
           q == questions + 1
           rq == IF options THEN s.requests \cup {q} ELSE s.requests
           r == IF options THEN [s EXCEPT !.requests = @ \cup {q}] ELSE s
           w == [r EXCEPT !.run = "asking", !.state = "waiting_for_input",
                          !.pending = TRUE, !.asked = q]
           talk == IF s.state \in Terminal THEN Talk ELSE Activate(Talk, c)
           next == IF s.state \in Terminal \/ s.pending THEN RunFails(r) ELSE w
<1>1. s \in Subagents /\ SubSound(s) /\ TalkSound(Talk) /\ s.run \in {"thinking", "asking"}
  BY DEF TalkInv, Ask
<1>2. q \in 0..MaxQuestions /\ q \in 1..MaxQuestions
  BY SubagentAssumption DEF SubagentAssumption, TalkInv, Ask
<1>3. /\ questions' = q /\ subs' = [subs EXCEPT ![c] = next]
      /\ TalkIs(Ended(c, next, talk))
  BY DEF Ask
<1> HIDE DEF q
<1>4. rq \in SUBSET (1..MaxQuestions) BY <1>1, <1>2 DEF Subagents
<1>5. r = [s EXCEPT !.requests = rq] BY <1>1 DEF Subagents
<1>6. r \in Subagents /\ r.state = s.state
  <2> HIDE DEF rq, r, s
  <2> QED BY <1>1, <1>4, <1>5 DEF Subagents
<1> HIDE DEF r
<1>7. w \in Subagents /\ w.run = "asking" /\ w.state = "waiting_for_input" /\ w.pending
  BY <1>2, <1>6 DEF Subagents, SessionStates
<1> HIDE DEF w
<1>8. SubSound(w) BY <1>7 DEF SubSound
<1>9. SubSound(next) /\ (next.state = "waiting_for_input" => s.state \notin Terminal)
  BY <1>6, <1>7, <1>8, RunFailsSound DEF Terminal
<1>10. TalkSound(talk) /\ \A d \in Handoffs : InTalk(Talk, d) => InTalk(talk, d)
  BY SubagentAssumption, <1>1, ActivateJoins DEF SubagentAssumption
<1>11. s.state \notin Terminal => InTalk(talk, c) BY <1>1, ActivateJoins
<1> HIDE DEF next, talk
<1> QED BY <1>2, <1>3, <1>9, <1>10, BecomesSound, <1>11

\* The user does not answer in time.
LEMMA TimeoutKeeps == ASSUME TalkInv, NEW c \in Handoffs, InputTimeout(c) PROVE TalkInv'
<1> DEFINE s == subs[c]
           l == [s EXCEPT !.pending = FALSE, !.asked = 0, !.run = "thinking"]
<1>1. s \in Subagents /\ SubSound(s) /\ s.pending /\ 0 \in 0..MaxQuestions
  BY SubagentAssumption DEF SubagentAssumption, TalkInv, InputTimeout
<1>2. /\ l \in Subagents /\ l.run = "thinking" /\ l.state = s.state /\ ~l.pending
  BY <1>1 DEF Subagents
<1>3. Becomes(c, IF MaxInputRetries <= 1 THEN RunFails(l) ELSE l) BY DEF InputTimeout
<1> HIDE DEF l
<1>4. SubSound(l) BY <1>2 DEF SubSound
<1> QED BY <1>2, <1>3, <1>4, BecomesKeeps, RunFailsSound DEF Terminal

\* An answer that is meant for a subagent reaches the one that waits.
LEMMA AnswerKeeps ==
  ASSUME TalkInv, NEW c \in Handoffs, NEW q \in 1..MaxQuestions, UiResponse(c, q)
  PROVE  TalkInv'
<1> DEFINE s == SendToSubagent(subs[c], q)
<1>2. SubSound(s) /\ s.state = "running" BY SendSound DEF TalkInv, UiResponse
<1>3. Becomes(c, s)
  <2>1. s.state \notin Terminal BY <1>2 DEF Terminal
  <2>2. subs' = [subs EXCEPT ![c] = s] BY DEF UiResponse
  <2> HIDE DEF s
  <2> QED BY <2>1, <2>2 DEF Becomes, UiResponse, TalkIs, Ended, Talk
<1> HIDE DEF s
<1> QED BY <1>2, <1>3, BecomesKeeps

\* The user has spoken: whoever holds the floor and waits is answered.
LEMMA FinalizedKeeps == ASSUME TalkInv, InputFinalized PROVE TalkInv'
<1> DEFINE c == talkMode
           s == SendToSubagent(subs[c], 0)
           u == Deactivate(Talk, c)
<1>1. c \in Handoffs /\ TalkSound(Talk) /\ questions' \in 0..MaxQuestions
  BY DEF InputFinalized, TalkInv, TalkSound, Talks, Talk
<1>3. SubSound(s) /\ s.state = "running" BY SendSound, <1>1 DEF TalkInv, InputFinalized
<1>4. TalkSound(u) /\ \A d \in Handoffs : d # c /\ InTalk(Talk, d) => InTalk(u, d)
  BY <1>1, DeactivateKeeps
<1>5. subs' = [subs EXCEPT ![c] = s] /\ TalkIs(u) BY DEF InputFinalized
<1> HIDE DEF s, u, c
<1>6. Talk' = u BY <1>5, <1>4 DEF Talk, TalkIs, TalkSound, Talks
<1> QED BY <1>1, <1>4, <1>6, <1>3, <1>5 DEF TalkInv, SubSound

\* A run returns.
LEMMA ReturnKeeps == ASSUME TalkInv, NEW c \in Handoffs, GenerateReturns(c) PROVE TalkInv'
<1> DEFINE s == subs[c]
           st == IF s.state \in Terminal THEN s.state ELSE "completed"
           x == RunSucceeds(s)
<1>1. s \in Subagents /\ SubSound(s) /\ s.run = "thinking" /\ Becomes(c, x)
  BY DEF TalkInv, GenerateReturns
<1>2. st \in SessionStates /\ st \in Terminal BY DEF SessionStates, Terminal
<1>3. x = [s EXCEPT !.run = "finishing", !.outcome = "completed", !.disposed = TRUE,
                    !.state = st]
  BY DEF RunSucceeds
<1> HIDE DEF st, x
<1> QED BY <1>1, BecomesKeeps, <1>2, <1>3 DEF SubSound, Terminal, Subagents

\* A run fails.
LEMMA FailKeeps == ASSUME TalkInv, NEW c \in Handoffs, GenerateFails(c) PROVE TalkInv'
<1> QED BY BecomesKeeps, RunFailsSound DEF Terminal, TalkInv, GenerateFails

\* The session is cancelled.
LEMMA CancelKeeps == ASSUME TalkInv, NEW c \in Handoffs, CancelSubagent(c) PROVE TalkInv'
<1> DEFINE a == AbortRun(subs[c])
           s == CancelSession(a)
           x == [s EXCEPT !.active = FALSE]
<1>1. SubSound(subs[c]) /\ Becomes(c, x) BY DEF TalkInv, CancelSubagent
<1>2. SubSound(a) BY <1>1, AbortRunSound
<1> HIDE DEF a
<1>3. SubSound(s) /\ s.state \in Terminal BY <1>2, CancelSessionSound
<1> HIDE DEF s
<1>4. /\ x \in Subagents /\ x.run = s.run /\ x.state = s.state /\ x.disposed = s.disposed
      /\ x.pending = s.pending /\ ~x.active
  BY <1>3 DEF SubSound, Subagents
<1> HIDE DEF x
<1> QED BY <1>1, BecomesKeeps, <1>3, <1>4 DEF SubSound, Terminal

\* The host aborts the run.
LEMMA AbortKeeps == ASSUME TalkInv, NEW c \in Handoffs, ExternalAbort(c) PROVE TalkInv'
<1> DEFINE s == CancelSession(subs[c])
           x == AbortRun(s)
<1>1. SubSound(subs[c]) /\ Becomes(c, x) BY DEF TalkInv, ExternalAbort
<1>2. SubSound(s) /\ s.state \in Terminal BY <1>1, CancelSessionSound
<1> HIDE DEF s
<1>3. SubSound(x) /\ x.state # "waiting_for_input" BY <1>2, AbortRunSound DEF Terminal
<1> HIDE DEF x
<1> QED BY <1>1, <1>3, BecomesKeeps

\* The run takes too long.
LEMMA RunTimeoutKeeps == ASSUME TalkInv, NEW c \in Handoffs, RunTimeout(c) PROVE TalkInv'
<1> DEFINE x == AbortRun(subs[c])
<1>1. SubSound(subs[c]) /\ Becomes(c, x) BY DEF TalkInv, RunTimeout
<1>2. SubSound(x) /\ x.state = subs[c].state BY <1>1, AbortRunSound
<1> HIDE DEF x
<1> QED BY <1>1, <1>2, BecomesKeeps

\* The subagent is disposed of.
LEMMA DisposeKeeps ==
  ASSUME TalkInv, NEW c \in Handoffs, NEW throws \in BOOLEAN, DisposeSettles(c, throws)
  PROVE  TalkInv'
<1> DEFINE s == subs[c]
           o == IF throws THEN "failed" ELSE s.outcome
           x == [s EXCEPT !.run = "over", !.active = FALSE, !.outcome = o]
<1>1. s \in Subagents /\ SubSound(s) /\ s.run = "finishing" /\ Becomes(c, x)
  BY DEF TalkInv, DisposeSettles
<1>2. o \in {"none", "completed", "failed"} BY <1>1 DEF Subagents
<1> HIDE DEF o
<1>3. /\ x \in Subagents /\ x.run = "over" /\ x.state = s.state /\ x.disposed = s.disposed
      /\ x.pending = s.pending /\ ~x.active
  BY <1>1, <1>2 DEF Subagents
<1> HIDE DEF x
<1> QED BY <1>1, BecomesKeeps, <1>3 DEF SubSound, Terminal

\* The keeper: one factory for a key at a time, and one instance.
LEMMA KeeperKeeps == KeeperInv /\ KeeperNext => KeeperInv'
<1> SUFFICES ASSUME KeeperInv, KeeperNext PROVE KeeperInv' OBVIOUS
<1> DEFINE Books(r) ==
      /\ \A f \in r.factories : r.inflight[f[1]] = f[2] /\ r.instances[f[1]] = 0
      /\ \A f \in r.live : r.instances[f[1]] = f[2]
<1>0. keeper \in KeeperRecord /\ (~keeper.swept => Books(keeper)) /\ MaxFactories \in Nat
  BY SubagentAssumption DEF SubagentAssumption, KeeperInv
<1>1. ASSUME NEW k \in PersistentKeys, Acquire(k) PROVE KeeperInv'
  <2> DEFINE n == keeper.started + 1
             f == <<k, n>>
  <2>1. n \in 1..MaxFactories /\ n \in 0..MaxFactories BY <1>0, <1>1 DEF KeeperRecord, Acquire
  <2>2. keeper' = [keeper EXCEPT !.started = n, !.inflight[k] = n,
                                 !.factories = keeper.factories \cup {f}]
    BY <1>1 DEF Acquire
  <2>3. f[1] = k /\ f[2] = n /\ f \in PersistentKeys \X (1..MaxFactories) BY <2>1
  <2> HIDE DEF n, f
  <2>4. /\ keeper' \in KeeperRecord /\ keeper'.swept = keeper.swept
        /\ keeper'.factories = keeper.factories \cup {f} /\ keeper'.live = keeper.live
        /\ keeper'.instances = keeper.instances /\ keeper'.inflight[k] = n
        /\ \A j \in PersistentKeys : j # k => keeper'.inflight[j] = keeper.inflight[j]
    BY <1>0, <2>1, <2>2, <2>3 DEF KeeperRecord
  <2>6. ASSUME ~keeper.swept PROVE Books(keeper')
    BY <1>0, <1>1, <2>6, <2>4, <2>3 DEF Acquire, KeeperRecord
  <2> QED BY <2>4, <2>6 DEF KeeperInv
<1>2. ASSUME NEW k \in PersistentKeys, ReleasePersistent(k) PROVE KeeperInv'
  <2> DEFINE i == keeper.instances[k]
             lv == keeper.live \ {<<k, i>>}
  <2>1. keeper' = [keeper EXCEPT !.live = lv, !.instances[k] = 0] BY <1>2 DEF ReleasePersistent
  <2>2. /\ keeper' \in KeeperRecord /\ keeper'.swept = keeper.swept
        /\ keeper'.factories = keeper.factories /\ keeper'.live = lv
        /\ keeper'.inflight = keeper.inflight /\ keeper'.instances[k] = 0
        /\ \A j \in PersistentKeys : j # k => keeper'.instances[j] = keeper.instances[j]
    <3>1. lv \in SUBSET (PersistentKeys \X (1..MaxFactories)) /\ 0 \in 0..MaxFactories
      BY <1>0 DEF KeeperRecord
    <3> HIDE DEF i, lv
    <3> QED BY <1>0, <2>1, <3>1 DEF KeeperRecord
  <2>3. \A g \in keeper.factories \cup keeper.live : g[1] \in PersistentKeys /\ g = <<g[1], g[2]>>
    BY <1>0 DEF KeeperRecord
  <2>4. ASSUME ~keeper.swept PROVE Books(keeper')
    <3>1. \A g \in lv : g[1] # k BY <1>0, <2>3, <2>4
    <3>2. \A g \in lv : g[1] \in PersistentKeys /\ keeper.instances[g[1]] = g[2]
      BY <1>0, <2>3, <2>4
    <3> HIDE DEF lv
    <3> QED BY <2>2, <3>1, <3>2, <1>0, <2>3, <2>4
  <2> QED BY <2>2, <2>4 DEF KeeperInv
<1>3. ASSUME NEW f \in keeper.factories, FactorySettles(f) PROVE KeeperInv'
  <2> DEFINE fs == keeper.factories \ {f}
             lv == keeper.live \cup {f}
  <2>1. keeper' = [keeper EXCEPT !.factories = fs, !.live = lv, !.instances[f[1]] = f[2],
                                 !.inflight[f[1]] = 0]
    BY <1>3 DEF FactorySettles
  <2>2. f[1] \in PersistentKeys /\ f[2] \in 0..MaxFactories
        /\ \A g \in keeper.factories \cup keeper.live :
              g[1] \in PersistentKeys /\ g[2] \in 1..MaxFactories /\ g = <<g[1], g[2]>>
    BY <1>0 DEF KeeperRecord
  <2>3. fs \in SUBSET (PersistentKeys \X (1..MaxFactories))
        /\ lv \in SUBSET (PersistentKeys \X (1..MaxFactories)) /\ 0 \in 0..MaxFactories
    BY <1>0 DEF KeeperRecord
  <2> HIDE DEF fs, lv
  <2>4. /\ keeper' \in KeeperRecord /\ keeper'.swept = keeper.swept
        /\ keeper'.factories = fs /\ keeper'.live = lv
        /\ keeper'.instances[f[1]] = f[2]
        /\ \A j \in PersistentKeys : j # f[1] => /\ keeper'.inflight[j] = keeper.inflight[j]
                                                 /\ keeper'.instances[j] = keeper.instances[j]
    BY <1>0, <2>1, <2>2, <2>3 DEF KeeperRecord
  <2>5. ASSUME ~keeper.swept PROVE Books(keeper') BY <1>0, <2>2, <2>5, <2>4 DEF fs, lv
  <2> QED BY <2>4, <2>5 DEF KeeperInv
<1>4. ASSUME NEW f \in keeper.factories, FactoryFails(f) PROVE KeeperInv'
  <2> DEFINE fs == keeper.factories \ {f}
  <2>1. keeper' = [keeper EXCEPT !.factories = fs, !.inflight[f[1]] = 0] BY <1>4 DEF FactoryFails
  <2>2. f[1] \in PersistentKeys /\ 0 \in 0..MaxFactories
        /\ \A g \in keeper.factories :
              g[1] \in PersistentKeys /\ g = <<g[1], g[2]>>
    BY <1>0 DEF KeeperRecord
  <2>3. fs \in SUBSET (PersistentKeys \X (1..MaxFactories)) BY <1>0 DEF KeeperRecord
  <2> HIDE DEF fs
  <2>4. /\ keeper' \in KeeperRecord /\ keeper'.swept = keeper.swept
        /\ keeper'.factories = fs /\ keeper'.live = keeper.live
        /\ keeper'.instances = keeper.instances
        /\ \A j \in PersistentKeys : j # f[1] => keeper'.inflight[j] = keeper.inflight[j]
    BY <1>0, <2>1, <2>2, <2>3 DEF KeeperRecord
  <2>5. ASSUME ~keeper.swept PROVE Books(keeper') BY <1>0, <2>2, <2>5, <2>4 DEF fs
  <2> QED BY <2>4, <2>5 DEF KeeperInv
<1>5. ASSUME DisposeAllPersistent PROVE KeeperInv'
  <2> DEFINE lv == {f \in keeper.live : keeper.instances[f[1]] # f[2]}
             z == [k \in PersistentKeys |-> 0]
  <2>1. keeper' = [keeper EXCEPT !.swept = TRUE, !.live = lv, !.instances = z, !.inflight = z]
    BY <1>5 DEF DisposeAllPersistent
  <2>2. lv \in SUBSET (PersistentKeys \X (1..MaxFactories))
        /\ z \in [PersistentKeys -> 0..MaxFactories]
    BY <1>0 DEF KeeperRecord
  <2> HIDE DEF lv, z
  <2> QED BY <1>0, <2>1, <2>2 DEF KeeperInv, KeeperRecord
<1> QED BY <1>1, <1>2, <1>3, <1>4, <1>5 DEF KeeperNext

\* Every step of a subagent or of the user keeps the talk.
LEMMA TalkKeeps == TalkInv /\ TalkNext => TalkInv'
<1> SUFFICES ASSUME TalkInv, TalkNext PROVE TalkInv' OBVIOUS
<1> QED BY SubagentHandoffKeeps, AskKeeps, TimeoutKeeps, AnswerKeeps, FinalizedKeeps,
           ReturnKeeps,
           FailKeeps, CancelKeeps, AbortKeeps, RunTimeoutKeeps, DisposeKeeps DEF TalkNext

\* The invariant is inductive.
THEOREM SubagentInductive == SubagentSpec => []SubagentInv
<1>1. SubagentInit => SubagentInv
  <2> SUFFICES ASSUME SubagentInit PROVE SubagentInv OBVIOUS
  <2>0. 0 \in 0..MaxQuestions /\ 0 \in 0..MaxFactories BY SubagentAssumption DEF SubagentAssumption
  <2>1. /\ NoSub \in Subagents /\ NoSub.run = "none" /\ NoSub.state = "running"
        /\ ~NoSub.pending
    BY <2>0, Zenon DEF NoSub, Subagents, SessionStates
  <2>5. TalkInv BY <2>0, <2>1 DEF SubagentInit, TalkInv, SubSound, TalkSound, Talks, Talk
  <2> QED BY <2>5, <2>0 DEF SubagentInv, KeeperInv, SubagentInit, NoKeeper, KeeperRecord
<1>2. SubagentInv /\ [SubagentNext]_subagentVars => SubagentInv'
  <2> SUFFICES ASSUME SubagentInv, [SubagentNext]_subagentVars PROVE SubagentInv' OBVIOUS
  <2>1. CASE TalkNext /\ UNCHANGED keeper BY <2>1, TalkKeeps DEF SubagentInv, KeeperInv
  <2>2. CASE UNCHANGED talkVars /\ (KeeperNext \/ UNCHANGED keeper)
    BY <2>2, KeeperKeeps DEF talkVars, Talk, SubagentInv, TalkInv, KeeperInv
  <2> QED BY <2>1, <2>2 DEF SubagentNext, subagentVars
<1> QED BY <1>1, <1>2, PTL DEF SubagentSpec

\* A subagent that waits for the user can be reached, nobody waits in a session that
\* ended, and a key has one factory and one instance (subagent-session.ts,
\* interaction-mode.ts, persistent-subagent-manager.ts).
THEOREM SubagentsKept == SubagentSpec => []SubagentsAreKept
<1>1. SubagentInv => SubagentsAreKept
  <2> SUFFICES ASSUME SubagentInv PROVE SubagentsAreKept OBVIOUS
  <2>1. Talk.mode = talkMode /\ Talk.queue = talkQueue BY DEF Talk
  <2>2. WaitingIsReachable BY <2>1 DEF SubagentInv, TalkInv, WaitingIsReachable, TalkSound, InTalk
  <2>3. NoWaiterIsStranded BY DEF SubagentInv, TalkInv, NoWaiterIsStranded, SubSound
  <2>4. SubagentTypeOK
    BY <2>1 DEF SubagentInv, TalkInv, KeeperInv, KeeperRecord, SubagentTypeOK, TalkSound,
       Talks
  <2>5. OneFactoryPerKey
    <3> SUFFICES ASSUME ~keeper.swept PROVE
             /\ \A f, g \in keeper.factories \cup keeper.live : f[1] = g[1] => f = g
             /\ \A f \in keeper.live : keeper.instances[f[1]] = f[2]
      BY DEF OneFactoryPerKey
    <3>1. \A f \in keeper.factories \cup keeper.live :
            f = <<f[1], f[2]>> /\ f[2] # 0
      BY SubagentAssumption DEF SubagentAssumption, SubagentInv, KeeperInv, KeeperRecord
    <3>2. /\ \A f \in keeper.factories :
                keeper.inflight[f[1]] = f[2] /\ keeper.instances[f[1]] = 0
          /\ \A f \in keeper.live : keeper.instances[f[1]] = f[2]
      BY DEF SubagentInv, KeeperInv
    <3>3. ASSUME NEW f \in keeper.factories \cup keeper.live,
                 NEW g \in keeper.factories \cup keeper.live, f[1] = g[1]
          PROVE  f[2] = g[2]
      BY <3>1, <3>2, <3>3
    <3> QED BY <3>1, <3>2, <3>3
  <2> QED BY <2>2, <2>3, <2>4, <2>5 DEF SubagentsAreKept
<1> QED BY <1>1, SubagentInductive, PTL

-----------------------------------------------------------------------------
(* Tool calls, and the bell that tells of them.                            *)

CallNotes == [src : Nat, text : {"host", "completed", "failed"}, high : BOOLEAN]

BellRecord ==
  [queue : Seq(CallNotes), audio : BOOLEAN, interrupted : BOOLEAN, held : BOOLEAN,
   notified : SUBSET Nat, sent : SUBSET CallNotes, dropped : SUBSET CallNotes,
   hosts : 0..MaxHostNotes, over : BOOLEAN]

BellSound(b) == b \in BellRecord /\ ~b.over

ToolRecord ==
  [kind : Kinds \cup {"none"}, covered : BOOLEAN,
   phase : {"none", "unread", "running", "handed", "settled", "done"},
   runs : 0..MaxExecutors, pending : BOOLEAN, aborted : BOOLEAN,
   replies : 0..1, outcome : {"none", "ok", "error"}]

\* A background call that was answered before it is over.
Early(t) == t.kind = "local" \/ (t.kind = "handoff" /\ t.covered)

\* A call that runs is not a handed-off one, and each is answered as it should be.
CallSound(t) ==
  /\ t \in ToolRecord
  /\ t.phase \in {"running", "settled"} => t.kind \in {"refused", "inline", "local"}
  /\ t.phase = "handed" => t.kind = "handoff"
  /\ t.pending => t.phase = "running"
  /\ t.aborted <=> (t.phase = "running" /\ ~t.pending)
  /\ t.replies = IF t.phase \in {"none", "unread"} THEN 0
                 ELSE IF t.phase = "done" \/ Early(t) THEN 1 ELSE 0

\* A call the model is told of: over, and its pending message went before.
Told(t) == t.phase = "done" /\ t.covered /\ t.kind \in {"local", "handoff"}

NotedIn(b, c) == {n \in b.sent \cup b.dropped : n.src = c}

WaitingIn(b, c) == {i \in DOMAIN b.queue : b.queue[i].src = c}

Never(b, c) == NotedIn(b, c) = {} /\ WaitingIn(b, c) = {}

Once(b, c) ==
  \/ WaitingIn(b, c) = {} /\ \E n \in CallNotes : NotedIn(b, c) = {n}
  \/ NotedIn(b, c) = {} /\ \E i \in DOMAIN b.queue : WaitingIn(b, c) = {i}

CallInv ==
  /\ tools \in [ToolCallIds -> ToolRecord]
  /\ \A c \in ToolCallIds :
       /\ CallSound(tools[c])
       /\ IF Told(tools[c]) THEN Once(bell, c) ELSE Never(bell, c)
       /\ c \in bell.notified => tools[c].phase = "done"
  /\ BellSound(bell)
  /\ executor \in 1..MaxExecutors /\ transfers \in 0..MaxExecutors
  /\ executor + transfers <= MaxExecutors

\* What happens to the notes of a call when a bell b becomes a bell a.
Stays(b, a, c) == (Never(b, c) => Never(a, c)) /\ (Once(b, c) => Once(a, c))

\* A queue is its indexes.
LEMMA QueueFacts ==
  ASSUME NEW b \in BellRecord
  PROVE  /\ b.queue \in Seq(CallNotes) /\ Len(b.queue) \in Nat
         /\ DOMAIN b.queue = 1..Len(b.queue)
         /\ \A i \in DOMAIN b.queue : b.queue[i] \in CallNotes
BY DEF BellRecord

\* Sent at a moment when the model can hear it.
LEMMA SendHeard ==
  ASSUME NEW b, BellSound(b), NEW n \in CallNotes,
         ~(b.held \/ (b.audio /\ ~(n.high /\ CanTruncate)))
  PROVE  /\ BellSound(Send(b, n)) /\ Send(b, n).sent = b.sent \cup {n}
         /\ Send(b, n).dropped = b.dropped /\ Send(b, n).queue = b.queue
         /\ Send(b, n).notified = b.notified
<1> DEFINE v == b.over \/ b.held \/ (b.audio /\ ~(n.high /\ CanTruncate))
           w == b.sent \cup {n}
<1>1. Send(b, n) = [b EXCEPT !.sent = w, !.over = v] BY DEF Send
<1>2. v = FALSE /\ w \in SUBSET CallNotes BY DEF BellSound, BellRecord
<1> HIDE DEF v, w
<1>3. Send(b, n) = [b EXCEPT !.sent = w, !.over = FALSE] BY <1>1, <1>2
<1> HIDE DEF w
<1> QED BY <1>2, <1>3 DEF BellSound, w, BellRecord

\* Put at the end of the queue, or at its head.
LEMMA EnqueueFacts ==
  ASSUME NEW b, BellSound(b), NEW n \in CallNotes
  PROVE  LET a == EnqueueSend(b, n) IN
         /\ BellSound(a) /\ a.sent = b.sent /\ a.dropped = b.dropped /\ a.notified = b.notified
         /\ Len(a.queue) = Len(b.queue) + 1
         /\ n.high => /\ a.queue[1] = n
                      /\ \A i \in 1..Len(b.queue) : a.queue[i + 1] = b.queue[i]
         /\ ~n.high => /\ a.queue[Len(a.queue)] = n
                       /\ \A i \in 1..Len(b.queue) : a.queue[i] = b.queue[i]
<1> DEFINE p == b.queue
           q == IF n.high THEN <<n>> \o p ELSE Append(p, n)
           a == EnqueueSend(b, n)
<1>1. p \in Seq(CallNotes) /\ b \in BellRecord /\ Len(p) \in Nat BY QueueFacts DEF BellSound
<1>2. a = [b EXCEPT !.queue = q] BY DEF EnqueueSend
<1>3. q \in Seq(CallNotes) /\ Len(q) = Len(p) + 1 BY <1>1
<1>4. CASE n.high
  <2>1. q = <<n>> \o p BY <1>4
  <2>2. q[1] = n /\ \A i \in 1..Len(p) : q[i + 1] = p[i] BY <1>1, <2>1
  <2> HIDE DEF q
  <2>3. /\ a \in BellRecord /\ a.queue = q /\ a.sent = b.sent /\ a.dropped = b.dropped
        /\ a.notified = b.notified /\ a.over = b.over
    BY <1>1, <1>2, <1>3 DEF BellRecord
  <2> HIDE DEF a
  <2>4. BellSound(a) BY <2>3 DEF BellSound
  <2> QED BY <1>3, <1>4, <2>2, <2>3, <2>4 DEF a
<1>5. CASE ~n.high
  <2>1. q = Append(p, n) BY <1>5
  <2>2. q[Len(q)] = n /\ \A i \in 1..Len(p) : q[i] = p[i]
    <3>1. Append(p, n)[Len(p) + 1] = n /\ \A i \in 1..Len(p) : Append(p, n)[i] = p[i] BY <1>1
    <3> HIDE DEF q
    <3> QED BY <1>3, <2>1, <3>1
  <2> HIDE DEF q
  <2>3. /\ a \in BellRecord /\ a.queue = q /\ a.sent = b.sent /\ a.dropped = b.dropped
        /\ a.notified = b.notified /\ a.over = b.over
    BY <1>1, <1>2, <1>3 DEF BellRecord
  <2> HIDE DEF a
  <2>4. BellSound(a) BY <2>3 DEF BellSound
  <2> QED BY <1>3, <1>5, <2>2, <2>3, <2>4 DEF a
<1> QED BY <1>4, <1>5

\* A note that waits leaves the others where they were, and waits once.
LEMMA EnqueueStays ==
  ASSUME NEW b, BellSound(b), NEW n \in CallNotes, NEW c \in Nat
  PROVE  /\ n.src # c => Stays(b, EnqueueSend(b, n), c)
         /\ n.src = c /\ Never(b, c) => Once(EnqueueSend(b, n), c)
<1> DEFINE a == EnqueueSend(b, n)
           d == IF n.high THEN 1 ELSE 0
           h == IF n.high THEN 1 ELSE Len(a.queue)
<1>1. /\ BellSound(a) /\ a.sent = b.sent /\ a.dropped = b.dropped
      /\ Len(a.queue) = Len(b.queue) + 1
      /\ n.high => /\ a.queue[1] = n
                   /\ \A i \in 1..Len(b.queue) : a.queue[i + 1] = b.queue[i]
      /\ ~n.high => /\ a.queue[Len(a.queue)] = n
                    /\ \A i \in 1..Len(b.queue) : a.queue[i] = b.queue[i]
  BY EnqueueFacts
<1>2. /\ Len(b.queue) \in Nat /\ Len(a.queue) \in Nat /\ DOMAIN b.queue = 1..Len(b.queue)
      /\ DOMAIN a.queue = 1..Len(a.queue)
  BY <1>1, QueueFacts DEF BellSound
<1> HIDE DEF a
<1>3. /\ h \in DOMAIN a.queue /\ a.queue[h] = n
      /\ \A i \in DOMAIN b.queue : i + d \in DOMAIN a.queue /\ a.queue[i + d] = b.queue[i]
      /\ \A j \in DOMAIN a.queue : j = h \/ (j - d \in DOMAIN b.queue /\ j = (j - d) + d)
  <2>1. CASE n.high BY <1>1, <1>2, <2>1
  <2>2. CASE ~n.high BY <1>1, <1>2, <2>2
  <2> QED BY <2>1, <2>2
<1>4. NotedIn(a, c) = NotedIn(b, c) BY <1>1 DEF NotedIn
<1> HIDE DEF d, h
<1>5. ASSUME n.src # c, WaitingIn(b, c) = {} PROVE WaitingIn(a, c) = {}
  <2> SUFFICES ASSUME NEW j \in DOMAIN a.queue, a.queue[j].src = c PROVE FALSE BY DEF WaitingIn
  <2>1. j # h BY <1>3, <1>5
  <2> QED BY <1>5, <1>3, <2>1 DEF WaitingIn
<1>6. ASSUME n.src # c, NEW i \in DOMAIN b.queue, WaitingIn(b, c) = {i}
      PROVE  i + d \in DOMAIN a.queue /\ WaitingIn(a, c) = {i + d}
  <2>3. ASSUME NEW j \in DOMAIN a.queue, a.queue[j].src = c PROVE j = i + d
    BY <1>3, <1>6, <2>3 DEF WaitingIn
  <2> QED BY <2>3, <1>3, <1>6 DEF WaitingIn
<1>7. ASSUME n.src = c, WaitingIn(b, c) = {} PROVE WaitingIn(a, c) = {h}
  <2>1. ASSUME NEW j \in DOMAIN a.queue, a.queue[j].src = c, j # h PROVE FALSE
    BY <1>3, <2>1, <1>7 DEF WaitingIn
  <2> QED BY <1>3, <1>7, <2>1 DEF WaitingIn
<1> QED BY <1>4, <1>5, <1>6, <1>3, <1>7 DEF a, Stays, Never, Once

\* A note that is sent is noted, and nothing waits longer for it.
LEMMA SentStays ==
  ASSUME NEW b, BellSound(b), NEW n \in CallNotes, NEW c \in Nat, NEW a,
         a.sent = b.sent \cup {n}, a.dropped = b.dropped, a.queue = b.queue
  PROVE  /\ n.src # c => Stays(b, a, c)
         /\ n.src = c /\ Never(b, c) => Once(a, c)
<1> QED BY DEF Stays, Never, Once, WaitingIn, NotedIn

\* The queue sends a note, keeps it, or has seen its call before.
LEMMA SendOrQueueSound ==
  ASSUME NEW b, BellSound(b), NEW n \in CallNotes, NEW dedup \in BOOLEAN
  PROVE  LET a == SendOrQueue(b, n, dedup) IN
         /\ BellSound(a) /\ a.notified \subseteq b.notified \cup {n.src}
         /\ ~dedup => a.notified = b.notified
         /\ \A c \in Nat : /\ n.src # c => Stays(b, a, c)
                           /\ n.src = c /\ Never(b, c) /\ ~(dedup /\ c \in b.notified) => Once(a, c)
<1> DEFINE s == b.notified \cup {n.src}
           m == IF dedup THEN [b EXCEPT !.notified = @ \cup {n.src}] ELSE b
           waits == b.held \/ (b.audio /\ ~(n.high /\ CanTruncate))
           a == SendOrQueue(b, n, dedup)
<1>1. CASE dedup /\ n.src \in b.notified BY <1>1 DEF SendOrQueue, Stays
<1>2. CASE ~(dedup /\ n.src \in b.notified)
  <2>1. s \in SUBSET Nat /\ b \in BellRecord BY DEF BellSound, BellRecord, CallNotes
  <2>2. m = IF dedup THEN [b EXCEPT !.notified = s] ELSE b OBVIOUS
  <2>3. a = IF waits THEN EnqueueSend(m, n) ELSE Send(m, n) BY <1>2 DEF SendOrQueue
  <2> HIDE DEF s, m, a
  <2>4. /\ BellSound(m) /\ m.sent = b.sent /\ m.dropped = b.dropped /\ m.queue = b.queue
        /\ m.held = b.held /\ m.audio = b.audio /\ (m.notified = b.notified \/ m.notified = s)
        /\ (~dedup => m = b)
    BY <2>1, <2>2 DEF BellSound, BellRecord
  <2>6. \A c \in Nat : Stays(b, m, c) /\ (Never(b, c) => Never(m, c))
                       /\ (Once(m, c) <=> Once(b, c)) /\ (Never(m, c) <=> Never(b, c))
    BY <2>4 DEF Stays, Never, Once, NotedIn, WaitingIn
  <2>7. CASE waits BY <2>3, <2>7, <2>4, EnqueueFacts, EnqueueStays, <2>6 DEF Stays, a, s
  <2>8. CASE ~waits BY <2>3, <2>8, <2>4, SendHeard, SentStays, <2>6 DEF Stays, a, s
  <2> QED BY <2>7, <2>8
<1> QED BY <1>1, <1>2

\* A flush between turns sends the head of the queue, and the rest moves up.
LEMMA FlushSound ==
  ASSUME NEW b, BellSound(b), ~b.audio
  PROVE  /\ BellSound(FlushOne(b)) /\ FlushOne(b).notified = b.notified
         /\ \A c \in Nat : Stays(b, FlushOne(b), c)
<1> DEFINE n == Head(b.queue)
           q == Tail(b.queue)
           m == [b EXCEPT !.queue = q]
           a == FlushOne(b)
<1>1. CASE b.held \/ b.queue = <<>> BY <1>1 DEF FlushOne, Stays
<1>2. CASE ~(b.held \/ b.queue = <<>>)
  <2>1. b \in BellRecord /\ b.queue \in Seq(CallNotes) /\ b.queue # <<>>
    BY <1>2, QueueFacts DEF BellSound
  <2>2. /\ n \in CallNotes /\ n = b.queue[1] /\ q \in Seq(CallNotes)
        /\ Len(q) = Len(b.queue) - 1 /\ Len(b.queue) \in Nat /\ Len(b.queue) # 0
        /\ \A i \in 1..Len(q) : q[i] = b.queue[i + 1]
    BY <2>1
  <2>3. a = Send(m, n) BY <1>2 DEF FlushOne
  <2> HIDE DEF n, q, a
  <2>4. /\ BellSound(m) /\ m.queue = q /\ m.sent = b.sent /\ m.dropped = b.dropped
        /\ m.held = b.held /\ m.audio = b.audio /\ m.notified = b.notified
    BY <2>1, <2>2 DEF BellSound, BellRecord
  <2> HIDE DEF m
  <2>5. /\ BellSound(a) /\ a.sent = b.sent \cup {n} /\ a.dropped = b.dropped
        /\ a.queue = q /\ a.notified = b.notified
    BY <1>2, <2>2, <2>3, <2>4, SendHeard
  <2>6. DOMAIN b.queue = 1..Len(b.queue) /\ DOMAIN a.queue = 1..Len(q) /\ Len(q) \in Nat
    BY <2>1, <2>2, <2>5
  <2>7. /\ 1 \in DOMAIN b.queue
        /\ \A j \in DOMAIN a.queue : j + 1 \in DOMAIN b.queue /\ a.queue[j] = b.queue[j + 1]
                                   /\ j + 1 # 1
        /\ \A i \in DOMAIN b.queue : i = 1 \/ (i - 1 \in DOMAIN a.queue /\ i = (i - 1) + 1)
        /\ \A i \in DOMAIN b.queue, j \in DOMAIN a.queue : j + 1 = i => j = i - 1
    BY <2>2, <2>5, <2>6
  <2>8. ASSUME NEW c \in Nat PROVE Stays(b, a, c)
    <3>1. ASSUME n.src # c PROVE NotedIn(a, c) = NotedIn(b, c) BY <2>5, <3>1 DEF NotedIn
    <3>2. ASSUME n.src = c, NotedIn(b, c) = {} PROVE NotedIn(a, c) = {n} BY <2>5, <3>2 DEF NotedIn
    <3>3. n.src = c => 1 \in WaitingIn(b, c) BY <2>2, <2>7 DEF WaitingIn
    <3>4. ASSUME WaitingIn(b, c) = {} PROVE WaitingIn(a, c) = {} BY <2>7, <3>4 DEF WaitingIn
    <3>5. ASSUME NEW i \in DOMAIN b.queue, WaitingIn(b, c) = {i}, n.src # c
          PROVE  i - 1 \in DOMAIN a.queue /\ WaitingIn(a, c) = {i - 1}
      <4>3. ASSUME NEW j \in DOMAIN a.queue, a.queue[j].src = c PROVE j = i - 1
        BY <2>7, <4>3, <3>5 DEF WaitingIn
      <4> QED BY <4>3, <2>7, <2>2, <3>5 DEF WaitingIn
    <3>6. ASSUME NEW i \in DOMAIN b.queue, WaitingIn(b, c) = {i}, n.src = c
          PROVE  WaitingIn(a, c) = {}
      <4>1. i = 1 BY <3>3, <3>6
      <4> SUFFICES ASSUME NEW j \in DOMAIN a.queue, a.queue[j].src = c PROVE FALSE BY DEF WaitingIn
      <4> QED BY <3>6, <4>1, <2>7 DEF WaitingIn
    <3>7. Never(b, c) => Never(a, c) BY <3>1, <3>3, <3>4 DEF Never
    <3>8. ASSUME Once(b, c) PROVE Once(a, c)
      <4>1. CASE WaitingIn(b, c) = {} BY <3>1, <3>3, <3>4, <3>8, <4>1 DEF Once
      <4>2. CASE WaitingIn(b, c) # {}
        <5>1. NotedIn(b, c) = {} BY <3>8, <4>2 DEF Once
        <5>2. PICK i \in DOMAIN b.queue : WaitingIn(b, c) = {i} BY <3>8, <4>2 DEF Once
        <5>3. CASE n.src = c BY <2>2, <3>2, <3>6, <5>1, <5>2, <5>3 DEF Once
        <5>4. CASE n.src # c BY <3>1, <3>5, <5>1, <5>2, <5>4 DEF Once
        <5> QED BY <5>3, <5>4
      <4> QED BY <4>1, <4>2
    <3> QED BY <3>7, <3>8 DEF Stays
  <2> QED BY <2>5, <2>8 DEF a
<1> QED BY <1>1, <1>2

\* A close drops what waits, and what was dropped was told once.
LEMMA ClearSound ==
  ASSUME NEW b, BellSound(b), NEW a,
         a = [b EXCEPT !.dropped = @ \cup {b.queue[i] : i \in DOMAIN b.queue},
                       !.queue = <<>>, !.notified = {}]
  PROVE  /\ BellSound(a) /\ a.notified = {} /\ \A c \in Nat : Stays(b, a, c)
<1> DEFINE d == b.dropped \cup {b.queue[i] : i \in DOMAIN b.queue}
<1>1. b \in BellRecord /\ \A i \in DOMAIN b.queue : b.queue[i] \in CallNotes
  BY QueueFacts DEF BellSound
<1>2. d \in SUBSET CallNotes BY <1>1 DEF BellRecord
<1>3. a = [b EXCEPT !.dropped = d, !.queue = <<>>, !.notified = {}] OBVIOUS
<1>4. \A n : n \in d <=> n \in b.dropped \/ \E i \in DOMAIN b.queue : n = b.queue[i] OBVIOUS
<1> HIDE DEF d
<1>5. /\ a \in BellRecord /\ a.over = b.over /\ a.dropped = d /\ a.queue = <<>>
      /\ a.notified = {} /\ a.sent = b.sent
  <2>1. <<>> \in Seq(CallNotes) /\ {} \in SUBSET Nat OBVIOUS
  <2>2. a \in BellRecord BY <1>1, <1>2, <1>3, <2>1, Zenon DEF BellRecord
  <2> QED BY <1>1, <1>3, <2>2, Zenon DEF BellRecord
<1>6. ASSUME NEW c \in Nat PROVE Stays(b, a, c)
  <2>1. WaitingIn(a, c) = {} BY <1>5 DEF WaitingIn
  <2>2. WaitingIn(b, c) = {} => NotedIn(a, c) = NotedIn(b, c) BY <1>4, <1>5 DEF WaitingIn, NotedIn
  <2>3. ASSUME NEW i \in DOMAIN b.queue, WaitingIn(b, c) = {i}, NotedIn(b, c) = {}
        PROVE  NotedIn(a, c) = {b.queue[i]}
    <3>1. b.queue[i] \in NotedIn(a, c) BY <1>4, <1>5, <2>3 DEF WaitingIn, NotedIn
    <3>2. ASSUME NEW n \in NotedIn(a, c) PROVE n = b.queue[i]
      <4>1. n \in d /\ n \notin b.dropped /\ n.src = c BY <1>5, <2>3, <3>2 DEF NotedIn
      <4>2. PICK j \in DOMAIN b.queue : n = b.queue[j] BY <1>4, <4>1
      <4>3. j = i BY <2>3, <4>1, <4>2 DEF WaitingIn
      <4> QED BY <4>2, <4>3
    <3> QED BY <3>1, <3>2
  <2> QED BY <1>1, <2>1, <2>2, <2>3 DEF Stays, Never, Once
<1> QED BY <1>5, <1>6 DEF BellSound

\* A step of the bell alone.
LEMMA BellStays ==
  ASSUME CallInv, BellSound(bell'), bell'.notified \subseteq bell.notified,
         \A c \in Nat : Stays(bell, bell', c), UNCHANGED <<tools, executor, transfers>>
  PROVE  CallInv'
<1>2. ASSUME NEW c \in ToolCallIds
      PROVE  IF Told(tools[c]) THEN Once(bell', c) ELSE Never(bell', c)
  BY ToolCallAssumption DEF CallInv, Stays, ToolCallAssumption
<1> QED BY <1>2 DEF CallInv

\* A step of one call that the bell does not hear of.
LEMMA CallStays ==
  ASSUME CallInv, NEW c \in ToolCallIds, NEW t, CallSound(t), tools' = [tools EXCEPT ![c] = t],
         UNCHANGED <<executor, transfers, bell>>, Told(t) <=> Told(tools[c]),
         c \in bell.notified => t.phase = "done"
  PROVE  CallInv'
<1> QED BY DEF CallInv, CallSound

\* A call that ends, with the note that tells of it.
LEMMA CallIsTold ==
  ASSUME CallInv, NEW c \in ToolCallIds, NEW t, CallSound(t), tools' = [tools EXCEPT ![c] = t],
         NEW n \in CallNotes, n.src = c, NEW dedup \in BOOLEAN,
         bell' = SendOrQueue(bell, n, dedup), UNCHANGED <<executor, transfers>>,
         Told(t), ~Told(tools[c]), c \notin bell.notified
  PROVE  CallInv'
<1>0. \A d \in ToolCallIds : d \in Nat BY ToolCallAssumption DEF ToolCallAssumption
<1>1. /\ tools' \in [ToolCallIds -> ToolRecord] /\ tools'[c] = t
      /\ \A d \in ToolCallIds : d # c => tools'[d] = tools[d]
  BY DEF CallInv, CallSound
<1>2. /\ BellSound(bell') /\ bell'.notified \subseteq bell.notified \cup {c}
      /\ \A d \in Nat : /\ c # d => Stays(bell, bell', d)
                        /\ c = d /\ Never(bell, d) => Once(bell', d)
  BY <1>0, SendOrQueueSound DEF CallInv
<1>3. ASSUME NEW d \in ToolCallIds
      PROVE  /\ CallSound(tools'[d])
             /\ IF Told(tools'[d]) THEN Once(bell', d) ELSE Never(bell', d)
             /\ d \in bell'.notified => tools'[d].phase = "done"
  <2>1. CASE d = c BY <1>0, <1>1, <1>2, <2>1 DEF CallInv, Told
  <2>2. CASE d # c BY <1>0, <1>1, <1>2, <2>2 DEF CallInv, Stays
  <2> QED BY <2>1, <2>2
<1> QED BY <1>1, <1>2, <1>3 DEF CallInv

\* The events of the conversation that the bell hears of.
LEMMA BellKeeps == CallInv /\ BellNext => CallInv'
<1> SUFFICES ASSUME CallInv, BellNext PROVE CallInv' OBVIOUS
<1> DEFINE SameNotes(a) == /\ a.sent = bell.sent /\ a.dropped = bell.dropped
                           /\ a.queue = bell.queue /\ a.notified = bell.notified
<1>0. bell \in BellRecord /\ ~bell.over /\ UNCHANGED <<tools, executor, transfers>>
  BY DEF CallInv, BellSound, BellNext
<1>1. ASSUME NEW a, SameNotes(a) PROVE \A c \in Nat : Stays(bell, a, c)
  BY <1>1 DEF Stays, Never, Once, NotedIn, WaitingIn
<1>2. ASSUME NEW h \in BOOLEAN, AudioStarted \/ ResetAudio \/ Interrupted \/ SetHeld(h)
      PROVE  CallInv'
  BY <1>0, <1>2, <1>1, BellStays DEF AudioStarted, ResetAudio, Interrupted, SetHeld, BellRecord,
      BellSound
<1>3. CASE TurnComplete
  <2> DEFINE m == [bell EXCEPT !.audio = FALSE, !.interrupted = FALSE]
  <2>1. bell' = m \/ bell' = FlushOne(m) BY <1>3 DEF TurnComplete
  <2>2. m \in BellRecord /\ m.over = bell.over /\ ~m.audio /\ SameNotes(m) BY <1>0 DEF BellRecord
  <2> HIDE DEF m
  <2> QED BY <1>0, <2>1, <2>2, BellStays, FlushSound, <1>1 DEF Stays, BellSound
<1>4. CASE ClearQueue BY <1>0, <1>4, ClearSound, BellStays DEF ClearQueue, CallInv
<1>5. ASSUME NEW h \in BOOLEAN, Publish(h) PROVE CallInv'
  <2> DEFINE k == bell.hosts + 1
             m == [bell EXCEPT !.hosts = k]
             n == Note(0, "host", h)
  <2>1. bell' = SendOrQueue(m, n, FALSE) /\ k \in 0..MaxHostNotes
    BY <1>0, <1>5, ToolCallAssumption DEF ToolCallAssumption, Publish, BellRecord
  <2>2. n \in CallNotes /\ n.src = 0 BY DEF Note, CallNotes
  <2> HIDE DEF k, n
  <2>3. m \in BellRecord /\ m.over = bell.over /\ SameNotes(m) BY <1>0, <2>1 DEF BellRecord
  <2> HIDE DEF m
  <2>4. /\ BellSound(bell') /\ bell'.notified = m.notified
        /\ \A c \in Nat : 0 # c => Stays(m, bell', c)
    BY <1>0, <2>1, <2>2, <2>3, SendOrQueueSound DEF BellSound
  <2>7. ASSUME NEW c \in ToolCallIds
        PROVE  IF Told(tools[c]) THEN Once(bell', c) ELSE Never(bell', c)
    BY <1>1, <2>3, <2>4, ToolCallAssumption DEF CallInv, Stays, ToolCallAssumption
  <2> QED BY <1>0, <2>3, <2>4, <2>7 DEF CallInv
<1> QED BY <1>2, <1>3, <1>4, <1>5 DEF BellNext

\* A call that has just been issued.
LEMMA IssuedFacts ==
  ASSUME NEW kind \in Kinds, NEW covered \in BOOLEAN
  PROVE  LET i == Issued(kind, covered) IN
         /\ i \in ToolRecord /\ i.kind = kind /\ i.covered = covered /\ i.phase = "none"
         /\ ~i.pending /\ ~i.aborted /\ i.replies = 0 /\ i.runs = 0
<1>1. 0 \in 0..MaxExecutors /\ 0 \in 0..1 BY ToolCallAssumption DEF ToolCallAssumption
<1>2. /\ NoTool \in ToolRecord /\ NoTool.phase = "none" /\ ~NoTool.pending
      /\ ~NoTool.aborted /\ NoTool.replies = 0 /\ NoTool.runs = 0
  BY <1>1, Zenon DEF NoTool, ToolRecord
<1> QED BY <1>2 DEF Issued, ToolRecord

\* What the router makes of it.
LEMMA DispatchSound ==
  ASSUME CallInv, NEW kind \in Kinds, NEW covered \in BOOLEAN
  PROVE  LET t == Dispatch(Issued(kind, covered)) IN CallSound(t) /\ ~Told(t)
<1> DEFINE i == Issued(kind, covered)
           t == Dispatch(i)
           k == IF kind = "handoff" /\ ~covered THEN 0 ELSE 1
<1>0. executor \in 0..MaxExecutors /\ k \in 0..1 /\ 0 \in 0..1 /\ 1 \in 0..1
  BY ToolCallAssumption DEF ToolCallAssumption, CallInv
<1>1. /\ i \in ToolRecord /\ i.kind = kind /\ i.covered = covered /\ i.phase = "none"
      /\ ~i.pending /\ ~i.aborted /\ i.replies = 0 /\ i.runs = 0
  BY IssuedFacts
<1> HIDE DEF i
<1>3. CASE kind = "transfer"
  <2>1. t = [i EXCEPT !.replies = 1, !.phase = "done"]
    BY <1>1, <1>3 DEF Dispatch, Reply, ToolRecord
  <2> HIDE DEF t, i
  <2> QED BY <1>3, <1>0, <1>1, <2>1 DEF t, i, CallSound, Told, Early, ToolRecord
<1>4. CASE kind = "handoff"
  <2>1. t = [i EXCEPT !.replies = k, !.phase = "handed"]
    <3>1. t = [(IF covered THEN [i EXCEPT !.replies = 1] ELSE i) EXCEPT !.phase = "handed"]
      BY <1>1, <1>4 DEF Dispatch, Reply, HandleBackground
    <3>2. CASE covered BY <1>1, <1>4, <3>1, <3>2
    <3>3. CASE ~covered BY <1>1, <1>4, <3>1, <3>3 DEF ToolRecord
    <3> QED BY <3>2, <3>3
  <2> HIDE DEF t, i
  <2>3. CallSound(t) /\ ~Told(t) BY <1>4, <1>0, <1>1, <2>1 DEF CallSound, Told, Early, ToolRecord
  <2> QED BY <2>3 DEF t, i
<1>5. CASE kind = "local"
  <2>1. t = [i EXCEPT !.replies = 1, !.phase = "running", !.runs = executor, !.pending = TRUE]
    <3> DEFINE r == [i EXCEPT !.replies = 1]
    <3>1. t = Execute(r) BY <1>1, <1>5 DEF Dispatch, Reply, HandleBackground
    <3> QED BY <3>1, <1>1, <1>5 DEF Execute, ToolRecord
  <2> HIDE DEF t, i
  <2> QED BY <1>5, <1>0, <1>1, <2>1 DEF t, i, CallSound, Told, Early, ToolRecord
<1>6. CASE kind = "refused"
  <2>1. t = [i EXCEPT !.phase = "settled", !.outcome = "error"]
    BY <1>1, <1>6 DEF Dispatch, Execute, ToolRecord
  <2> HIDE DEF t, i
  <2> QED BY <1>6, <1>0, <1>1, <2>1 DEF t, i, CallSound, Told, Early, ToolRecord
<1>7. CASE kind = "inline"
  <2>1. t = [i EXCEPT !.phase = "running", !.runs = executor, !.pending = TRUE]
    BY <1>1, <1>7 DEF Dispatch, Execute, ToolRecord
  <2> HIDE DEF t, i
  <2> QED BY <1>7, <1>0, <1>1, <2>1 DEF t, i, CallSound, Told, Early, ToolRecord
<1> QED BY <1>3, <1>4, <1>5, <1>6, <1>7 DEF Kinds

\* A message of calls: each was not known before.
LEMMA HandleKeeps ==
  ASSUME CallInv, NEW batch \in Batches, NEW kinds \in [DOMAIN batch -> Kinds],
         NEW covered \in [DOMAIN batch -> BOOLEAN], HandleToolCalls(batch, kinds, covered)
  PROVE  CallInv'
<1> DEFINE pos(c) == CHOOSE i \in DOMAIN batch : batch[i] = c
           given(c) == Issued(kinds[pos(c)], covered[pos(c)])
           cut == {i \in DOMAIN batch : \E j \in 1..(i - 1) : kinds[j] = "transfer"}
           new(c) == IF pos(c) \in cut THEN [given(c) EXCEPT !.phase = "unread"]
                     ELSE Dispatch(given(c))
           old(c) == \A i \in DOMAIN batch : batch[i] # c
           more == IF \E i \in DOMAIN batch : kinds[i] = "transfer" THEN 1 ELSE 0
<1>1. /\ \A c \in ToolCallIds : tools[c].phase = "none" <=> c >= batch[1]
      /\ tools' = [c \in ToolCallIds |-> IF old(c) THEN tools[c] ELSE new(c)]
      /\ transfers' = transfers + more /\ executor + transfers' <= MaxExecutors
      /\ UNCHANGED <<executor, bell>>
  BY DEF HandleToolCalls
<1>2. \A i \in DOMAIN batch : batch[i] >= batch[1] /\ batch[i] \in ToolCallIds
  <2>0. ToolCallIds \subseteq Nat BY ToolCallAssumption DEF ToolCallAssumption
  <2>1. ASSUME NEW c \in ToolCallIds, batch = <<c>>
        PROVE  \A i \in DOMAIN batch : batch[i] >= batch[1] /\ batch[i] \in ToolCallIds
    BY <2>0, <2>1
  <2>2. ASSUME NEW c \in ToolCallIds, c + 1 \in ToolCallIds, batch = <<c, c + 1>>
        PROVE  \A i \in DOMAIN batch : batch[i] >= batch[1] /\ batch[i] \in ToolCallIds
    BY <2>0, <2>2
  <2> QED BY <2>1, <2>2 DEF Batches
<1>3. ASSUME NEW c \in ToolCallIds, ~old(c) PROVE tools[c].phase = "none" BY <1>1, <1>2, <1>3
<1>4. ASSUME NEW c \in ToolCallIds, ~old(c) PROVE CallSound(new(c)) /\ ~Told(new(c))
  <2>1. PICK k \in Kinds, v \in BOOLEAN : given(c) = Issued(k, v)
    <3>1. pos(c) \in DOMAIN batch BY <1>4
    <3> HIDE DEF pos
    <3> QED BY <3>1
  <2>2. CASE pos(c) \notin cut BY <2>1, <2>2, DispatchSound
  <2>3. CASE pos(c) \in cut
    <3> DEFINE u == [Issued(k, v) EXCEPT !.phase = "unread"]
    <3>1. /\ u \in ToolRecord /\ u.phase = "unread" /\ ~u.pending /\ ~u.aborted
          /\ u.replies = 0
      BY IssuedFacts DEF ToolRecord
    <3> HIDE DEF u
    <3> QED BY <2>1, <2>3, <3>1 DEF u, CallSound, Told
  <2> QED BY <2>2, <2>3
<1> HIDE DEF new, old
<1>5. ASSUME NEW c \in ToolCallIds
      PROVE  /\ CallSound(tools'[c])
             /\ IF Told(tools'[c]) THEN Once(bell, c) ELSE Never(bell, c)
             /\ c \in bell.notified => tools'[c].phase = "done"
  <2>1. CASE old(c) BY <1>1, <2>1 DEF CallInv
  <2>2. CASE ~old(c) BY <1>1, <2>2, <1>3, <1>4 DEF CallInv, Told
  <2> QED BY <2>1, <2>2
<1> QED BY <1>1, <1>5, ToolCallAssumption DEF CallInv, CallSound, ToolCallAssumption

\* The end of a run: it settles, or times out.
LEMMA SettleKeeps ==
  ASSUME CallInv, NEW c \in ToolCallIds, NEW ok \in BOOLEAN,
         InlineToolSettles(c, ok) \/ ToolTimesOut(c)
  PROVE  CallInv'
<1>1. PICK o \in {"ok", "error"} : /\ tools' = [tools EXCEPT ![c] = Settled(tools[c], o)]
                                  /\ UNCHANGED <<executor, transfers, bell>>
  BY DEF InlineToolSettles, ToolTimesOut, CallInv
<1> DEFINE s == tools[c]
           t == Settled(s, o)
<1>2. s \in ToolRecord /\ CallSound(s) /\ s.phase = "running" /\ 0 \in 0..MaxExecutors
  BY ToolCallAssumption DEF ToolCallAssumption, CallInv, InlineToolSettles, ToolTimesOut
<1>3. t = [s EXCEPT !.phase = "settled", !.outcome = o, !.runs = 0, !.pending = FALSE,
                    !.aborted = FALSE]
  BY DEF Settled
<1> HIDE DEF t, s
<1>5. CallSound(t) /\ ~Told(t) /\ ~Told(s) BY <1>2, <1>3 DEF CallSound, Early, Told, ToolRecord
<1> QED BY <1>1, <1>5, CallStays, <1>2 DEF s, t, CallInv

\* The router answers the model, or tells it that a call it was answered for is over.
LEMMA ResolvedKeeps == ASSUME CallInv, NEW c \in ToolCallIds, Resolved(c) PROVE CallInv'
<1> DEFINE s == tools[c]
           k == IF s.kind = "local" THEN s.replies ELSE s.replies + 1
           t == [s EXCEPT !.replies = k, !.phase = "done"]
           n == Note(c, "completed", FALSE)
<1>1. /\ s \in ToolRecord /\ CallSound(s) /\ s.phase = "settled"
      /\ s.kind \in {"refused", "inline", "local"} /\ UNCHANGED <<executor, transfers>>
      /\ c \in Nat
  BY ToolCallAssumption DEF ToolCallAssumption, CallInv, Resolved, CallSound
<1>2. /\ tools' = [tools EXCEPT ![c] = t]
      /\ bell' = IF s.kind = "local" /\ s.covered THEN SendOrQueue(bell, n, FALSE) ELSE bell
  BY <1>1 DEF ToolRecord, Resolved, Reply
<1>3. k = 1 BY <1>1 DEF CallSound, Early
<1> HIDE DEF k
<1>4. /\ t \in ToolRecord /\ t.phase = "done" /\ t.kind = s.kind /\ t.covered = s.covered
      /\ t.replies = 1 /\ t.pending = s.pending /\ t.aborted = s.aborted
  <2>1. 1 \in 0..1 OBVIOUS
  <2> HIDE DEF s
  <2> QED BY <1>1, <1>3, <2>1 DEF ToolRecord
<1> HIDE DEF t
<1>5. CallSound(t) /\ ~Told(s) /\ c \notin bell.notified
  BY <1>1, <1>4 DEF CallSound, Early, Told, CallInv
<1>6. Told(t) <=> s.kind = "local" /\ s.covered BY <1>1, <1>4 DEF Told
<1>7. n \in CallNotes /\ n.src = c BY <1>1 DEF Note, CallNotes
<1> HIDE DEF n
<1>8. CASE s.kind = "local" /\ s.covered
  <2>1. bell' = SendOrQueue(bell, n, FALSE) /\ Told(t) /\ ~Told(tools[c]) BY <1>2, <1>5, <1>6, <1>8
  <2> HIDE DEF s
  <2> QED BY <1>1, <1>2, <1>5, <1>7, <2>1, CallIsTold
<1>9. CASE ~(s.kind = "local" /\ s.covered)
  <2>1. bell' = bell /\ (Told(t) <=> Told(tools[c])) BY <1>2, <1>5, <1>6, <1>9
  <2> HIDE DEF s
  <2> QED BY <1>1, <1>2, <1>5, <2>1, CallStays
<1> QED BY <1>8, <1>9

\* A handed-off subagent ends.
LEMMA CallHandoffKeeps ==
  ASSUME CallInv, NEW c \in ToolCallIds, NEW ok \in BOOLEAN, HandoffSettles(c, ok)
  PROVE  CallInv'
<1> DEFINE s == tools[c]
           o == IF ok THEN "ok" ELSE "error"
           x == IF ok THEN "completed" ELSE "failed"
           k == IF s.covered THEN s.replies ELSE s.replies + 1
           t == [s EXCEPT !.replies = k, !.phase = "done", !.outcome = o]
           n == Note(c, x, FALSE)
<1>1. /\ s \in ToolRecord /\ CallSound(s) /\ s.phase = "handed" /\ s.kind = "handoff"
      /\ UNCHANGED <<executor, transfers>> /\ c \in Nat
  BY ToolCallAssumption DEF ToolCallAssumption, CallInv, HandoffSettles, CallSound
<1>2. /\ tools' = [tools EXCEPT ![c] = t]
      /\ bell' = IF s.covered THEN SendOrQueue(bell, n, TRUE) ELSE bell
  BY <1>1 DEF ToolRecord, HandoffSettles, Reply
<1>3. k = 1 /\ o \in {"ok", "error"} /\ x \in {"completed", "failed"} BY <1>1 DEF CallSound, Early
<1> HIDE DEF k, o, x
<1>4. /\ t \in ToolRecord /\ t.phase = "done" /\ t.kind = s.kind /\ t.covered = s.covered
      /\ t.replies = 1 /\ t.pending = s.pending /\ t.aborted = s.aborted
  <2>1. 1 \in 0..1 OBVIOUS
  <2> HIDE DEF s
  <2> QED BY <1>1, <1>3, <2>1 DEF ToolRecord
<1> HIDE DEF t
<1>5. CallSound(t) /\ ~Told(s) /\ c \notin bell.notified
  BY <1>1, <1>4 DEF CallSound, Early, Told, CallInv
<1>6. Told(t) <=> s.covered BY <1>1, <1>4 DEF Told
<1>7. n \in CallNotes /\ n.src = c BY <1>1, <1>3 DEF Note, CallNotes
<1> HIDE DEF n
<1>8. CASE s.covered
  <2>1. bell' = SendOrQueue(bell, n, TRUE) /\ Told(t) /\ ~Told(tools[c]) BY <1>2, <1>5, <1>6, <1>8
  <2> HIDE DEF s
  <2> QED BY <1>1, <1>2, <1>5, <1>7, <2>1, CallIsTold
<1>9. CASE ~s.covered
  <2>1. bell' = bell /\ (Told(t) <=> Told(tools[c])) BY <1>2, <1>5, <1>6, <1>9
  <2> HIDE DEF s
  <2> QED BY <1>1, <1>2, <1>5, <2>1, CallStays
<1> QED BY <1>8, <1>9

\* The model cancels a call.
LEMMA CancellationKeeps ==
  ASSUME CallInv, NEW c \in ToolCallIds, HandleToolCallCancellation(c) PROVE CallInv'
<1> DEFINE s == tools[c]
           t == [s EXCEPT !.pending = FALSE, !.aborted = TRUE]
<1>1. /\ s \in ToolRecord /\ CallSound(s) /\ s.pending /\ s.phase = "running"
      /\ tools' = [tools EXCEPT ![c] = t] /\ UNCHANGED <<executor, transfers, bell>>
  BY DEF CallInv, HandleToolCallCancellation, CallSound
<1>2. /\ t \in ToolRecord /\ t.phase = s.phase /\ t.kind = s.kind /\ t.covered = s.covered
      /\ t.replies = s.replies /\ ~t.pending /\ t.aborted
  BY <1>1 DEF ToolRecord
<1> HIDE DEF t
<1> QED BY <1>1, CallStays, <1>2 DEF CallSound, Early, Told, CallInv

\* An agent hands the session over.
LEMMA TransferKeeps ==
  ASSUME CallInv, NEW ok \in BOOLEAN, TransferToolSettles(ok) PROVE CallInv'
<1> QED BY ToolCallAssumption DEF CallInv, ToolCallAssumption, TransferToolSettles

\* The invariant is inductive.
THEOREM CallInductive == ToolCallSpec => []CallInv
<1>1. ToolCallInit => CallInv
  <2> SUFFICES ASSUME ToolCallInit PROVE CallInv OBVIOUS
  <2>0. /\ 0 \in 0..MaxExecutors /\ 0 \in 0..MaxHostNotes /\ <<>> \in Seq(CallNotes)
        /\ 0 \in 0..1
    BY ToolCallAssumption DEF ToolCallAssumption
  <2>1. /\ NoTool \in ToolRecord /\ NoTool.phase = "none" /\ ~NoTool.pending
        /\ ~NoTool.aborted /\ NoTool.replies = 0
    BY <2>0, Zenon DEF NoTool, ToolRecord
  <2>3. /\ bell \in BellRecord /\ ~bell.over /\ bell.sent = {} /\ bell.dropped = {}
        /\ bell.queue = <<>> /\ bell.notified = {}
    BY <2>0, Zenon DEF ToolCallInit, BellRecord
  <2>4. \A c : Never(bell, c) BY <2>3 DEF Never, NotedIn, WaitingIn
  <2> QED BY <2>1, <2>3, <2>4, ToolCallAssumption DEF ToolCallAssumption, ToolCallInit, CallInv,
        BellSound, CallSound, Told
<1>2. CallInv /\ [ToolCallNext]_toolCallVars => CallInv'
  <2> SUFFICES ASSUME CallInv, [ToolCallNext]_toolCallVars PROVE CallInv' OBVIOUS
  <2>1. CASE UNCHANGED toolCallVars BY <2>1 DEF CallInv, toolCallVars
  <2>2. CASE ToolCallNext
    BY <2>2, HandleKeeps, ResolvedKeeps, SettleKeeps, CancellationKeeps, CallHandoffKeeps,
       TransferKeeps, BellKeeps DEF ToolCallNext
  <2> QED BY <2>1, <2>2
<1> QED BY <1>1, <1>2, PTL DEF ToolCallSpec

\* A set of one member, and the empty set.
LEMMA OneOrNone == Cardinality({}) = 0 /\ \A x : Cardinality({x}) = 1
BY FS_EmptySet, FS_Singleton

\* Every call is answered once, what a call that was answered early comes to is told
\* once, and not over the model's audio (tool-call-router.ts, tool-executor.ts,
\* background-notification-queue.ts).
THEOREM CallsAnswered == ToolCallSpec => []ToolCallsAreAnswered
<1>1. CallInv => ToolCallsAreAnswered
  <2> SUFFICES ASSUME CallInv PROVE ToolCallsAreAnswered OBVIOUS
  <2>1. \A c \in ToolCallIds : tools[c] \in ToolRecord /\ CallSound(tools[c]) BY DEF CallInv
  <2>2. ToolCallTypeOK BY <2>1 DEF CallInv, ToolCallTypeOK, ToolRecord, BellSound, BellRecord
  <2>3. AnsweredOnce BY <2>1 DEF AnsweredOnce, CallSound, Early
  <2>4. PendingIsExact BY <2>1 DEF PendingIsExact, CallSound
  <2>5. NothingIsSentOverAudio BY DEF NothingIsSentOverAudio, CallInv, BellSound
  <2>6. ASSUME NEW c \in ToolCallIds
        PROVE  Cardinality(Noted(c)) + Cardinality(Waiting(c)) = IF Told(tools[c]) THEN 1 ELSE 0
    <3>1. Noted(c) = NotedIn(bell, c) /\ Waiting(c) = WaitingIn(bell, c)
      BY DEF Noted, Waiting, NotedIn, WaitingIn
    <3>2. IF Told(tools[c]) THEN Once(bell, c) ELSE Never(bell, c) BY DEF CallInv
    <3> HIDE DEF Noted, Waiting
    <3>3. CASE Told(tools[c])
      <4>1. CASE WaitingIn(bell, c) = {} /\ \E n \in CallNotes : NotedIn(bell, c) = {n}
        BY <3>1, <3>3, <4>1, OneOrNone
      <4>2. CASE NotedIn(bell, c) = {} /\ \E i \in DOMAIN bell.queue : WaitingIn(bell, c) = {i}
        <5>1. PICK i \in DOMAIN bell.queue : WaitingIn(bell, c) = {i} BY <4>2
        <5>3. Cardinality(Waiting(c)) = 1 BY <3>1, <5>1, OneOrNone
        <5> QED BY <5>3, <3>3, <3>1, <4>2, OneOrNone
      <4> QED BY <3>2, <3>3, <4>1, <4>2 DEF Once
    <3>4. CASE ~Told(tools[c]) BY <3>1, <3>2, <3>4, OneOrNone DEF Never
    <3> QED BY <3>3, <3>4
  <2>7. OutcomesAreToldOnce BY <2>6 DEF OutcomesAreToldOnce, Told
  <2> QED BY <2>2, <2>3, <2>4, <2>5, <2>7 DEF ToolCallsAreAnswered
<1> QED BY <1>1, CallInductive, PTL

-----------------------------------------------------------------------------
(* History: transcripts, the timeline and its writer.                      *)

\* The state of a session's history: items, timelines, transcripts, and what one
\* event hands from step to step.
HistoryItems == [id : Nat, role : {"user", "assistant", "tool"}, text : {"final", "provisional"}]

HistoryContexts == [items : Seq(HistoryItems), checkpoint : Nat, pending : SUBSET Nat,
  next : Nat \ {0}]

HistoryScripts == [from : {"none", "correction", "external"}, turn : Nat, locked : BOOLEAN,
            display : BOOLEAN, output : BOOLEAN, prefix : BOOLEAN, interrupted : BOOLEAN,
            reserved : SUBSET ((1..MaxHistoryTurns) \X (1..MaxItems))]

Heres == [script : HistoryScripts, context : HistoryContexts,
  turnNo : [id : 1..MaxHistoryTurns, finalized : SUBSET Nat],
          watch : SUBSET (1..MaxHistoryTurns)]

\* A timeline: its items are numbered in order, what is pending is in it, and
\* nothing pending is behind the checkpoint.
ContextSound(x) ==
  /\ x \in HistoryContexts
  /\ \A i \in 1..Len(x.items) : x.items[i].id < x.next
  /\ \A i, j \in 1..Len(x.items) : i < j => x.items[i].id < x.items[j].id
  /\ \A p \in x.pending : \E i \in 1..Len(x.items) : x.items[i].id = p
  /\ x.checkpoint <= Len(x.items)
  /\ \A i \in 1..x.checkpoint : x.items[i].id \notin x.pending

\* Reservations: one of a turn, one of a message, each watched and pending.
ReservedSound(h) ==
  /\ h.context.pending = {r[2] : r \in h.script.reserved}
  /\ h.watch = {r[1] : r \in h.script.reserved}
  /\ \A q, r \in h.script.reserved : q[1] = r[1] \/ q[2] = r[2] => q = r
  /\ \A r \in h.script.reserved : r[1] <= h.turnNo.id

\* A timeline with its reservations.
Booked(h) == h \in Heres /\ ContextSound(h.context) /\ ReservedSound(h)

\* A locked input buffers nothing, and only a transcript has a turn of its own.
ScriptSound(s) ==
  /\ s.locked => s.from = "none"
  /\ s.turn # 0 => s.from = "external"

\* The transcripts of a session. The turn that goes on has a reservation only
\* when its input is locked.
HereSound(h) == Booked(h) /\ ScriptSound(h.script)

\* The turn that goes on is reserved only when its input is locked.
Locked(h) == \A r \in h.script.reserved : r[1] = h.turnNo.id => h.script.locked

\* What one event may do to a timeline: it adds items behind the others, and
\* puts a final text in place of one that was pending.
Grows(x, y) ==
  /\ x.next <= y.next /\ y.checkpoint = x.checkpoint /\ Len(x.items) <= Len(y.items)
  /\ \A i \in 1..Len(x.items) :
       /\ y.items[i].id = x.items[i].id
       /\ x.items[i].id \notin x.pending => y.items[i] = x.items[i]
               /\ x.items[i].id \notin y.pending
  /\ \A i \in 1..Len(y.items) : i > Len(x.items) => y.items[i].id >= x.next

\* What grows twice has grown.
LEMMA GrowsTwice ==
  ASSUME NEW x, NEW y, NEW z, ContextSound(x), ContextSound(y), ContextSound(z),
         Grows(x, y), Grows(y, z)
  PROVE  Grows(x, z)
<1>1. /\ Len(x.items) \in Nat /\ Len(y.items) \in Nat /\ Len(z.items) \in Nat
      /\ x.next \in Nat /\ y.next \in Nat /\ z.next \in Nat
  BY DEF ContextSound, HistoryContexts
<1>2. \A i \in 1..Len(z.items) : z.items[i].id \in Nat
  <2>2. \A i \in 1..Len(z.items) : z.items[i] \in HistoryItems
    BY ElementOfSeq DEF ContextSound, HistoryContexts
  <2> QED BY <2>2 DEF HistoryItems
<1>6. ASSUME NEW i \in 1..Len(z.items), i > Len(x.items) PROVE z.items[i].id >= x.next
  <2>1. CASE i > Len(y.items) BY <2>1, <1>1, <1>2, <1>6 DEF Grows
  <2>2. CASE i <= Len(y.items) BY <2>2, <1>1, <1>6 DEF Grows
  <2> QED BY <2>1, <2>2, <1>1
<1> QED BY <1>6, <1>1 DEF Grows

\* What does not change has grown.
LEMMA GrowsNot == ASSUME NEW x, ContextSound(x) PROVE Grows(x, x)
<1> QED BY DEF Grows, ContextSound, HistoryContexts

\* An item is added behind the others.
LEMMA AddItemSound ==
  ASSUME NEW x, ContextSound(x), NEW role \in {"user", "assistant", "tool"},
         NEW text \in {"final", "provisional"}, NEW y, y = AddItem(x, role, text)
  PROVE  ContextSound(y) /\ Grows(x, y) /\ y.next = x.next + 1 /\ y.pending = x.pending
<1> DEFINE n == Item(x.next, role, text)
<1>1. /\ x.items \in Seq(HistoryItems) /\ x.next \in Nat \ {0} /\ x.checkpoint \in Nat
      /\ Len(x.items) \in Nat /\ x.pending \in SUBSET Nat
  BY DEF ContextSound, HistoryContexts
<1>2. n \in HistoryItems /\ n.id = x.next BY <1>1 DEF Item, HistoryItems
<1>3. /\ y = [items |-> Append(x.items, n), checkpoint |-> x.checkpoint, pending |-> x.pending,
              next |-> x.next + 1]
  BY DEF AddItem, ContextSound, HistoryContexts
<1> HIDE DEF n
<1>4. /\ y.items = Append(x.items, n) /\ y.checkpoint = x.checkpoint /\ y.pending = x.pending
      /\ y.next = x.next + 1
  BY <1>3
<1>5. /\ y.items \in Seq(HistoryItems) /\ Len(y.items) = Len(x.items) + 1
      /\ \A i \in 1..Len(x.items) : y.items[i] = x.items[i]
      /\ y.items[Len(y.items)] = n
  BY <1>1, <1>2, <1>4, AppendProperties
<1>7. \A i \in 1..Len(y.items) : i \in 1..Len(x.items) \/ i = Len(y.items) BY <1>1, <1>5
<1>8. \A i \in 1..Len(x.items) : x.items[i].id \in Nat /\ x.items[i].id < x.next
  <2>1. \A i \in 1..Len(x.items) : x.items[i] \in HistoryItems BY <1>1, ElementOfSeq
  <2> QED BY <2>1 DEF HistoryItems, ContextSound
<1>9. \A i \in 1..Len(y.items) : y.items[i].id < y.next BY <1>1, <1>2, <1>4, <1>5, <1>7, <1>8
<1>10. ASSUME NEW i \in 1..Len(y.items), NEW j \in 1..Len(y.items), i < j
       PROVE  y.items[i].id < y.items[j].id
  <2>1. i \in 1..Len(x.items) BY <1>1, <1>5, <1>10
  <2>2. CASE j \in 1..Len(x.items) BY <1>5, <1>10, <2>1, <2>2 DEF ContextSound
  <2>3. CASE j = Len(y.items) BY <1>2, <1>5, <1>8, <2>1, <2>3
  <2> QED BY <1>7, <2>2, <2>3
<1>13. Grows(x, y) BY <1>1, <1>2, <1>4, <1>5, <1>7 DEF Grows
<1> QED BY <1>4, <1>9, <1>10, <1>13, <1>1, <1>5, <1>3 DEF ContextSound, HistoryContexts

\* The pending messages may only become fewer, or be joined by the newest.
LEMMA PendingChanges ==
  ASSUME NEW x, ContextSound(x), NEW q, q \subseteq x.pending, NEW y, y = [x EXCEPT !.pending = q]
  PROVE  ContextSound(y) /\ Grows(x, y) /\ y.next = x.next /\ y.pending = q
<1> QED BY DEF ContextSound, Grows, HistoryContexts

\* A user message is reserved: its item is added, and pending.
LEMMA ReserveSound ==
  ASSUME NEW x, ContextSound(x), NEW y, y = ReserveUserMessage(x)
  PROVE  ContextSound(y) /\ Grows(x, y) /\ y.next = x.next + 1
         /\ y.pending = x.pending \cup {x.next}
<1> DEFINE z == AddItem(x, "user", "provisional")
<1>1. ContextSound(z) /\ Grows(x, z) /\ z.next = x.next + 1 /\ z.pending = x.pending
  BY AddItemSound
<1>2. /\ z.items = Append(x.items, Item(x.next, "user", "provisional"))
      /\ y = [z EXCEPT !.pending = x.pending \cup {x.next}]
  BY <1>1 DEF ReserveUserMessage, AddItem, ContextSound, HistoryContexts
<1> HIDE DEF z
<1>3. /\ x.items \in Seq(HistoryItems) /\ x.next \in Nat \ {0} /\ x.checkpoint \in Nat
      /\ Len(x.items) \in Nat /\ x.pending \in SUBSET Nat
  BY DEF ContextSound, HistoryContexts
<1>5. /\ Len(z.items) = Len(x.items) + 1 /\ z.items[Len(x.items) + 1].id = x.next
      /\ \A i \in 1..Len(x.items) : z.items[i] = x.items[i]
  BY <1>2, <1>3, AppendProperties DEF Item, HistoryItems
<1>6. /\ y.items = z.items /\ y.checkpoint = z.checkpoint /\ y.next = z.next
      /\ y.pending = x.pending \cup {x.next} /\ y \in HistoryContexts
  <2>1. z \in HistoryContexts /\ x.pending \cup {x.next} \in SUBSET Nat
    BY <1>1, <1>3 DEF ContextSound
  <2> QED BY <1>2, <2>1 DEF HistoryContexts
<1>7. z.checkpoint = x.checkpoint /\ x.checkpoint <= Len(x.items) BY <1>1 DEF Grows, ContextSound
<1>8. \A i \in 1..Len(x.items) : x.items[i].id \in Nat /\ x.items[i].id < x.next
  <2>1. \A i \in 1..Len(x.items) : x.items[i] \in HistoryItems BY <1>3, ElementOfSeq
  <2> QED BY <2>1 DEF HistoryItems, ContextSound
<1>9. \A i \in 1..y.checkpoint : y.items[i].id \notin y.pending
  <2>1. \A i \in 1..x.checkpoint : i \in 1..Len(x.items) BY <1>3, <1>7
  <2> QED BY <1>5, <1>6, <1>7, <1>8, <2>1 DEF ContextSound
<1>11. Grows(x, y) BY <1>1, <1>6, <1>8, <1>3 DEF Grows
<1>12. ContextSound(y) BY <1>1, <1>6, <1>9, <1>3, <1>5 DEF ContextSound
<1> QED BY <1>1, <1>6, <1>11, <1>12

LEMMA HistorySealSound ==
  ASSUME NEW x, ContextSound(x), NEW id \in x.pending, NEW y, y = SealUserMessage(x, id, "final")
  PROVE  ContextSound(y) /\ Grows(x, y) /\ y.next = x.next /\ y.pending = x.pending \ {id}
<1>1. /\ x.items \in Seq(HistoryItems) /\ x.next \in Nat \ {0} /\ x.checkpoint \in Nat
      /\ Len(x.items) \in Nat /\ x.pending \in SUBSET Nat /\ DOMAIN x.items = 1..Len(x.items)
  BY DEF ContextSound, HistoryContexts
<1> DEFINE l == [i \in 1..Len(x.items) |->
                   IF x.items[i].id = id THEN [x.items[i] EXCEPT !.text = "final"] ELSE x.items[i]]
<1>2. y = [items |-> l, checkpoint |-> x.checkpoint, pending |-> x.pending \ {id},
      next |-> x.next]
  BY <1>1, x \in HistoryContexts DEF SealUserMessage, ContextSound, HistoryContexts
<1>3. \A i \in 1..Len(x.items) : x.items[i] \in HistoryItems BY <1>1, ElementOfSeq
<1>6. l \in Seq(HistoryItems) /\ Len(l) = Len(x.items)
  BY <1>1, SeqDef, LenProperties, <1>3 DEF HistoryItems
<1>7. \A i \in 1..Len(x.items) : /\ l[i].id = x.items[i].id
                                 /\ x.items[i].id # id => l[i] = x.items[i]
  BY <1>3 DEF HistoryItems
<1> HIDE DEF l
<1>8. /\ y.items = l /\ y.checkpoint = x.checkpoint /\ y.next = x.next
      /\ y.pending = x.pending \ {id} /\ y \in HistoryContexts
  BY <1>1, <1>2, <1>6 DEF HistoryContexts
<1>9. \A i \in 1..x.checkpoint : i \in 1..Len(x.items) BY <1>1 DEF ContextSound
<1>10. ContextSound(y) BY <1>6, <1>7, <1>8, <1>9 DEF ContextSound
<1>11. Grows(x, y) BY <1>1, <1>6, <1>7, <1>8 DEF Grows
<1> QED BY <1>8, <1>10, <1>11

\* The turns of some reservations, and of one more.
LEMMA TurnsOf ==
  \A R, a, b : {r[1] : r \in R \cup {<<a, b>>}} = {r[1] : r \in R} \cup {a}
<1> SUFFICES ASSUME NEW R, NEW a, NEW b
             PROVE  {r[1] : r \in R \cup {<<a, b>>}} = {r[1] : r \in R} \cup {a}
  OBVIOUS
<1>1. <<a, b>>[1] = a OBVIOUS
<1> QED BY <1>1

\* The messages of some reservations, and of one more.
LEMMA MessagesOf ==
  \A R, a, b : {r[2] : r \in R \cup {<<a, b>>}} = {r[2] : r \in R} \cup {b}
<1> SUFFICES ASSUME NEW R, NEW a, NEW b
             PROVE  {r[2] : r \in R \cup {<<a, b>>}} = {r[2] : r \in R} \cup {b}
  OBVIOUS
<1>1. <<a, b>>[2] = b OBVIOUS
<1> QED BY <1>1

\* What is committed of a user's words: a final message, or a reserved one of
\* a turn that has none.
LEMMA CommitSound ==
  ASSUME HistoryAssumption, histCfg.external \in BOOLEAN,
         NEW h, Booked(h), Locked(h), ~h.script.locked, h.context.next <= MaxItems,
         NEW k, k = CommitUserText(h)
  PROVE  /\ Booked(k)
         /\ Grows(h.context, k.context) /\ k.context.next = h.context.next + 1
         /\ k.script = [h.script EXCEPT !.reserved = k.script.reserved]
         /\ k.turnNo.id = h.turnNo.id
         /\ h.script.from = "external" => k.script = h.script
<1> DEFINE t == h.turnNo.id
           n == h.context.next
           fin == h.turnNo.finalized \cup {t}
<1>1. /\ h \in Heres /\ h.script \in HistoryScripts /\ h.context \in HistoryContexts
           /\ h.watch \in SUBSET (1..MaxHistoryTurns)
      /\ h.turnNo \in [id : 1..MaxHistoryTurns, finalized : SUBSET Nat]
      /\ h.script.reserved \in SUBSET ((1..MaxHistoryTurns) \X (1..MaxItems))
      /\ t \in 1..MaxHistoryTurns /\ n \in Nat \ {0} /\ fin \in SUBSET Nat
      /\ MaxItems \in Nat /\ MaxHistoryTurns \in Nat
  <2>1. h \in Heres BY DEF Booked
  <2>2. /\ h.script \in HistoryScripts /\ h.context \in HistoryContexts
             /\ h.watch \in SUBSET (1..MaxHistoryTurns)
        /\ h.turnNo \in [id : 1..MaxHistoryTurns, finalized : SUBSET Nat]
    BY <2>1 DEF Heres
  <2>6. h.script.reserved \in SUBSET ((1..MaxHistoryTurns) \X (1..MaxItems))
    BY <2>2 DEF HistoryScripts
  <2> QED BY <2>1, <2>2, <2>6, HistoryAssumption DEF HistoryAssumption, HistoryContexts
<1>2. n \in 1..MaxItems BY <1>1
<1>3. \A r \in h.script.reserved : r[1] # t BY DEF Locked
<1>4. ASSUME h.script.from # "external" /\ histCfg.external
      PROVE  k = [script |-> [h.script EXCEPT !.reserved = @ \cup {<<t, n>>}],
                  context |-> ReserveUserMessage(h.context),
                  turnNo |-> [id |-> t, finalized |-> fin], watch |-> h.watch \cup {t}]
  <2>1. {r \in h.script.reserved : r[1] # t} = h.script.reserved BY <1>3
  <2> QED BY <1>1, <1>4, <2>1 DEF CommitUserText, Heres
<1>5. ASSUME ~(h.script.from # "external" /\ histCfg.external)
      PROVE  k = [script |-> h.script, context |-> AddItem(h.context, "user", "final"),
                  turnNo |-> [id |-> t, finalized |-> fin], watch |-> h.watch]
  BY <1>1, <1>5 DEF CommitUserText, Heres
<1>6. CASE h.script.from # "external" /\ histCfg.external
  <2> DEFINE c == ReserveUserMessage(h.context)
             s == [h.script EXCEPT !.reserved = @ \cup {<<t, n>>}]
  <2>1. /\ ContextSound(c) /\ Grows(h.context, c) /\ c.next = n + 1
        /\ c.pending = h.context.pending \cup {n}
    BY ReserveSound DEF Booked
  <2>3. /\ s \in HistoryScripts /\ s.reserved = h.script.reserved \cup {<<t, n>>}
        /\ s = [h.script EXCEPT !.reserved = s.reserved]
    BY <1>1, <1>2 DEF HistoryScripts
  <2> HIDE DEF c, s
  <2>4. k.script = s /\ k.context = c /\ k.turnNo = [id |-> t, finalized |-> fin]
        /\ k.watch = h.watch \cup {t}
        /\ k = [script |-> s, context |-> c, turnNo |-> k.turnNo, watch |-> k.watch]
    <3>1. k = [script |-> s, context |-> c, turnNo |-> [id |-> t, finalized |-> fin],
               watch |-> h.watch \cup {t}]
      BY <1>4, <1>6 DEF c, s
    <3> QED BY <3>1
  <2>5. k \in Heres /\ k.turnNo.id = t BY <1>1, <2>1, <2>3, <2>4 DEF Heres, ContextSound
  <2>6. \A p \in h.context.pending : p < n BY DEF Booked, ContextSound
  <2>7. k.context.pending = {r[2] : r \in k.script.reserved}
    <3>1. h.context.pending = {r[2] : r \in h.script.reserved} BY DEF Booked, ReservedSound
    <3> HIDE DEF t, n
    <3>2. {r[2] : r \in h.script.reserved \cup {<<t, n>>}} = {r[2] :
          r \in h.script.reserved} \cup {n}
      BY ONLY MessagesOf
    <3> QED BY <2>1, <2>3, <2>4, <3>1, <3>2
  <2>8. k.watch = {r[1] : r \in k.script.reserved}
    <3>1. h.watch = {r[1] : r \in h.script.reserved} BY DEF Booked, ReservedSound
    <3> HIDE DEF t, n
    <3>2. {r[1] : r \in h.script.reserved \cup {<<t, n>>}} = {r[1] :
          r \in h.script.reserved} \cup {t}
      BY ONLY TurnsOf
    <3> QED BY <2>3, <2>4, <3>1, <3>2
  <2>10. \A q, r \in k.script.reserved : q[1] = r[1] \/ q[2] = r[2] => q = r
    BY <1>1, <1>3, <2>3, <2>4, <2>6 DEF Booked, ReservedSound
  <2>11. \A r \in k.script.reserved : r[1] <= k.turnNo.id
    BY <1>1, <2>3, <2>4, <2>5 DEF Booked, ReservedSound
  <2> QED BY <1>6, <2>1, <2>3, <2>4, <2>5, <2>7, <2>8, <2>10, <2>11 DEF Booked,
             ReservedSound
<1>7. CASE ~(h.script.from # "external" /\ histCfg.external)
  <2> DEFINE c == AddItem(h.context, "user", "final")
  <2>1. /\ ContextSound(c) /\ Grows(h.context, c) /\ c.next = n + 1
        /\ c.pending = h.context.pending
    BY AddItemSound DEF Booked
  <2> HIDE DEF c
  <2>4. k.script = h.script /\ k.context = c /\ k.turnNo = [id |-> t, finalized |-> fin]
        /\ k.watch = h.watch
        /\ k = [script |-> h.script, context |-> c, turnNo |-> k.turnNo, watch |-> h.watch]
    BY <1>5, <1>7 DEF c
  <2>5. k \in Heres /\ k.turnNo.id = t BY <1>1, <2>1, <2>4 DEF Heres, ContextSound
  <2> QED BY <1>7, <2>1, <2>4, <2>5, <1>1 DEF Booked, ReservedSound, HistoryScripts
<1> QED BY <1>6, <1>7

\* The parts of what an event hands from step to step.
LEMMA HereParts ==
  ASSUME NEW h, Booked(h)
  PROVE  /\ h.script \in HistoryScripts /\ h.context \in HistoryContexts
              /\ ContextSound(h.context)
         /\ h.watch \in SUBSET (1..MaxHistoryTurns)
         /\ h.turnNo \in [id : 1..MaxHistoryTurns, finalized : SUBSET Nat]
         /\ h.turnNo.id \in 1..MaxHistoryTurns
         /\ h = [script |-> h.script, context |-> h.context, turnNo |-> h.turnNo,
                 watch |-> h.watch]
<1>1. h \in Heres BY DEF Booked
<1> QED BY <1>1 DEF Booked, Heres

\* A change of the transcripts, or of the timeline, that leaves the
\* reservations alone.
LEMMA Rescripted ==
  ASSUME NEW h, Booked(h), NEW s \in HistoryScripts, s.reserved = h.script.reserved,
         NEW k, k = [h EXCEPT !.script = s]
  PROVE  Booked(k) /\ k.script = s /\ k.context = h.context /\ k.turnNo = h.turnNo
         /\ k.watch = h.watch
<1>1. h \in Heres BY DEF Booked
<1> QED BY <1>1 DEF Booked, ReservedSound, Heres

\* An event that changes the timeline alone.
LEMMA Recontexted ==
  ASSUME NEW h, Booked(h), NEW c, ContextSound(c), c.pending = h.context.pending,
         NEW k, k = [h EXCEPT !.context = c]
  PROVE  Booked(k) /\ k.script = h.script /\ k.context = c /\ k.turnNo = h.turnNo
         /\ k.watch = h.watch
<1> QED BY DEF Booked, ReservedSound, Heres, ContextSound

\* HandleInput commits a turn that went by, and buffers the next.
LEMMA InputSound ==
  ASSUME HistoryAssumption, histCfg.external \in BOOLEAN,
         NEW h, HereSound(h), Locked(h), NEW t \in Nat, t = 0 \/ h.context.next <= MaxItems,
         NEW k, k = HandleInput(h, t)
  PROVE  HereSound(k) /\ Locked(k) /\ Grows(h.context, k.context) /\ k.turnNo.id = h.turnNo.id
<1> DEFINE next == t # 0 /\ h.script.turn # 0 /\ t # h.script.turn /\ h.script.from # "none"
           b == IF next THEN [CommitUserText(h) EXCEPT !.script.from = "none"] ELSE h
           u == IF t # 0 THEN t ELSE h.script.turn
<1>1. CASE h.script.locked BY <1>1, GrowsNot DEF HandleInput, HereSound, Booked
<1>2. CASE ~h.script.locked
  <2>1. k = [b EXCEPT !.script.from = "external", !.script.turn = IF t # 0 THEN t ELSE @]
    BY <1>2 DEF HandleInput
  <2>2. ASSUME NEW x, Booked(x), x.script = h.script
        PROVE  LET s == [x.script EXCEPT !.from = "external", !.turn = u]
                   y == [x EXCEPT !.script = s]
               IN s \in HistoryScripts /\ s.reserved = x.script.reserved /\ s.from = "external"
                  /\ s.locked = h.script.locked
    <3>1. x.script \in HistoryScripts BY <2>2, HereParts
    <3> QED BY <3>1, <2>2 DEF HistoryScripts
  <2> DEFINE c == CommitUserText(h)
             z == IF next THEN c ELSE h
  <2>3. /\ Booked(z) /\ z.script = h.script /\ z.turnNo.id = h.turnNo.id
             /\ Grows(h.context, z.context)
    <3>1. CASE next BY <3>1, <1>2, CommitSound DEF HereSound, ScriptSound
    <3>2. CASE ~next BY <3>2, GrowsNot DEF HereSound, Booked
    <3> QED BY <3>1, <3>2
  <2> DEFINE s == [z.script EXCEPT !.from = "external", !.turn = u]
  <2>4. k = [z EXCEPT !.script = s]
    <3>1. z = [script |-> z.script, context |-> z.context, turnNo |-> z.turnNo, watch |-> z.watch]
          /\ z.script \in HistoryScripts
      BY <2>3, HereParts
    <3>2. CASE next
      <4>1. z = c BY <3>2
      <4>2. b = [c EXCEPT !.script = [c.script EXCEPT !.from = "none"]] BY <3>2, <4>1, <3>1
      <4>3. k = [b EXCEPT !.script = [b.script EXCEPT !.from = "external", !.turn = u]]
        BY <2>1, <3>1, <4>1, <4>2 DEF HistoryScripts
      <4>4. c.script \in HistoryScripts /\ c = [script |-> c.script, context |-> c.context,
            turnNo |-> c.turnNo, watch |-> c.watch]
        BY <3>1, <4>1
      <4> HIDE DEF c, b, z
      <4>6. [b.script EXCEPT !.from = "external",
            !.turn = u] = [c.script EXCEPT !.from = "external", !.turn = u]
        BY <4>4, <4>2 DEF HistoryScripts
      <4> QED BY <4>1, <4>2, <4>3, <4>4, <4>6
    <3>3. CASE ~next BY <2>1, <2>3, <3>1, <3>3 DEF HistoryScripts
    <3> QED BY <3>2, <3>3
  <2>5. s \in HistoryScripts /\ s.reserved = z.script.reserved /\ s.from = "external" /\ ~s.locked
    BY <1>2, <2>2, <2>3
  <2> HIDE DEF s, z
  <2>6. /\ Booked(k) /\ k.script = s /\ k.context = z.context /\ k.turnNo = z.turnNo
    BY <2>3, <2>4, <2>5, Rescripted
  <2>7. HereSound(k) BY <2>5, <2>6 DEF HereSound, ScriptSound
  <2>8. Locked(k) BY <1>2, <2>3, <2>5, <2>6 DEF Locked
  <2> QED BY <2>3, <2>6, <2>7, <2>8
<1> QED BY <1>1, <1>2

\* An adjustment of the transcripts keeps the reservations.
LEMMA FlushOutputSound ==
  ASSUME NEW h, Booked(h), NEW k, k = FlushOutput(h)
  PROVE  Booked(k) /\ Grows(h.context, k.context) /\ k.script = h.script /\ k.turnNo = h.turnNo
<1>1. ContextSound(h.context) BY HereParts
<1>2. CASE h.script.output \/ h.script.prefix
  <2> DEFINE c == AddItem(h.context, "assistant", "final")
  <2>1. ContextSound(c) /\ Grows(h.context, c) /\ c.pending = h.context.pending
    BY <1>1, AddItemSound
  <2>2. k = [h EXCEPT !.context = c] BY <1>2, HereParts DEF FlushOutput
  <2> HIDE DEF c
  <2> QED BY <2>1, <2>2, Recontexted
<1>3. CASE ~(h.script.output \/ h.script.prefix) BY <1>1, <1>3, GrowsNot DEF FlushOutput
<1> QED BY <1>2, <1>3

\* FlushInput commits what is buffered, and locks the input.
LEMMA FlushInputSound ==
  ASSUME HistoryAssumption, histCfg.external \in BOOLEAN,
         NEW h, HereSound(h), Locked(h), h.context.next <= MaxItems, NEW k, k = FlushInput(h)
  PROVE  HereSound(k) /\ Locked(k) /\ Grows(h.context, k.context) /\ k.turnNo.id = h.turnNo.id
<1>1. Booked(h) /\ h.script \in HistoryScripts /\ ContextSound(h.context)
  BY HereParts DEF HereSound
<1>2. CASE h.script.from = "none"
  <2> DEFINE s == [h.script EXCEPT !.from = "none", !.turn = 0, !.display = FALSE]
  <2>1. k = [h EXCEPT !.script = s] BY <1>1, <1>2, HereParts DEF FlushInput, ResetInput
  <2>2. s \in HistoryScripts /\ s.reserved = h.script.reserved /\ s.locked = h.script.locked
        /\ s.from = "none" /\ s.turn = 0
    BY <1>1 DEF HistoryScripts
  <2> HIDE DEF s
  <2> QED BY <1>1, <2>2, GrowsNot, <2>1, Rescripted DEF HereSound, ScriptSound, Locked
<1>3. CASE h.script.from # "none"
  <2> DEFINE z == CommitUserText(h)
             s == [z.script EXCEPT !.locked = TRUE, !.from = "none", !.turn = 0,
               !.display = FALSE]
  <2>1. /\ Booked(z) /\ Grows(h.context, z.context) /\ z.turnNo.id = h.turnNo.id
    BY <1>1, <1>3, CommitSound DEF HereSound, ScriptSound
  <2>2. k = [z EXCEPT !.script = s] BY <2>1, HereParts, <1>3 DEF FlushInput, HistoryScripts
  <2>3. s \in HistoryScripts /\ s.reserved = z.script.reserved /\ s.locked /\ s.from = "none"
        /\ s.turn = 0
    <3>1. z.script \in HistoryScripts BY <2>1, HereParts
    <3> QED BY <3>1 DEF HistoryScripts
  <2> HIDE DEF s, z
  <2> QED BY <2>1, <2>3, <2>2, Rescripted DEF HereSound, ScriptSound, Locked
<1> QED BY <1>2, <1>3

\* Flush commits both sides, and unlocks the input.
LEMMA HistoryFlushSound ==
  ASSUME HistoryAssumption, histCfg.external \in BOOLEAN,
         NEW h, HereSound(h), Locked(h), h.context.next <= MaxItems, NEW k, k = Flush(h)
  PROVE  /\ HereSound(k) /\ Grows(h.context, k.context) /\ k.turnNo.id = h.turnNo.id
         /\ k.script.from = "none" /\ k.script.turn = 0 /\ ~k.script.locked
<1> DEFINE c == IF ~h.script.locked /\ h.script.from # "none" THEN CommitUserText(h) ELSE h
           o == FlushOutput(c)
           s == [o.script EXCEPT !.from = "none", !.turn = 0, !.display = FALSE,
                                 !.locked = FALSE, !.output = FALSE, !.prefix = FALSE]
<1>1. Booked(h) /\ ContextSound(h.context) BY HereParts DEF HereSound
<1>2. Booked(c) /\ Grows(h.context, c.context) /\ c.turnNo.id = h.turnNo.id
  <2>1. CASE ~h.script.locked /\ h.script.from # "none" BY <1>1, <2>1, CommitSound
  <2>2. CASE ~(~h.script.locked /\ h.script.from # "none") BY <1>1, <2>2, GrowsNot
  <2> QED BY <2>1, <2>2
<1>3. Booked(o) /\ Grows(c.context, o.context) /\ o.turnNo = c.turnNo
  <2> HIDE DEF c
  <2> QED BY <1>2, FlushOutputSound
<1>4. Grows(h.context, o.context)
  <2>1. ContextSound(c.context) /\ ContextSound(o.context)
    <3> HIDE DEF c, o
    <3> QED BY <1>2, <1>3, HereParts
  <2> HIDE DEF c, o
  <2> QED BY <1>1, <1>2, <1>3, <2>1, GrowsTwice
<1>5. /\ o = [script |-> o.script, context |-> o.context, turnNo |-> o.turnNo, watch |-> o.watch]
      /\ o.script \in HistoryScripts
  <2> HIDE DEF o
  <2> QED BY <1>3, HereParts
<1>6. k = [o EXCEPT !.script = s] BY <1>5 DEF Flush, ResetInput, HistoryScripts
<1> HIDE DEF c, o
<1>7. /\ s \in HistoryScripts /\ s.reserved = o.script.reserved
      /\ s.from = "none" /\ s.turn = 0 /\ ~s.locked
  BY <1>5 DEF HistoryScripts
<1> HIDE DEF s
<1> QED BY <1>2, <1>3, <1>4, <1>7, <1>6, Rescripted DEF HereSound, ScriptSound

\* SealTurns gives up the reservations of these turns.
LEMMA SealTurnsSound ==
  ASSUME NEW h, Booked(h), NEW turns, NEW k, k = SealTurns(h, turns)
  PROVE  /\ Booked(k) /\ Grows(h.context, k.context) /\ k.turnNo = h.turnNo
         /\ k.script = [h.script EXCEPT !.reserved = {r \in @ : r[1] \notin turns}]
         /\ k.context.items = h.context.items /\ k.context.next = h.context.next
<1> DEFINE R == h.script.reserved
           Q == {r \in R : r[1] \notin turns}
           p == h.context.pending \ {r[2] : r \in {q \in R : q[1] \in turns}}
           c == [h.context EXCEPT !.pending = p]
           s == [h.script EXCEPT !.reserved = Q]
<1>1. /\ h.script \in HistoryScripts /\ ContextSound(h.context) /\ h.context \in HistoryContexts
      /\ h.watch \in SUBSET (1..MaxHistoryTurns)
              /\ h.turnNo \in [id : 1..MaxHistoryTurns, finalized : SUBSET Nat]
      /\ h = [script |-> h.script, context |-> h.context, turnNo |-> h.turnNo, watch |-> h.watch]
  BY HereParts
<1>2. k = [script |-> s, context |-> c, turnNo |-> h.turnNo, watch |-> h.watch \ turns]
  BY <1>1 DEF SealTurns
<1>3. /\ ContextSound(c) /\ Grows(h.context, c) /\ c.next = h.context.next /\ c.pending = p
  <2>1. p \subseteq h.context.pending OBVIOUS
  <2> HIDE DEF p
  <2> QED BY <1>1, <2>1, PendingChanges
<1>4. c.items = h.context.items /\ c \in HistoryContexts
  BY <1>1, <1>3 DEF ContextSound, HistoryContexts
<1>5. s \in HistoryScripts /\ s.reserved = Q BY <1>1 DEF HistoryScripts
<1>6. p = {r[2] : r \in Q}
  <2>1. h.context.pending = {r[2] : r \in R} BY DEF Booked, ReservedSound
  <2>2. \A q, r \in R : q[2] = r[2] => q = r BY DEF Booked, ReservedSound
  <2> HIDE DEF R
  <2>3. ASSUME NEW x \in p PROVE x \in {r[2] : r \in Q} BY <2>1, <2>3
  <2>4. ASSUME NEW x \in {r[2] : r \in Q} PROVE x \in p BY <2>1, <2>2, <2>4
  <2> QED BY <2>3, <2>4
<1>7. h.watch \ turns = {r[1] : r \in Q} BY DEF Booked, ReservedSound
<1>8. /\ \A q, r \in Q : q[1] = r[1] \/ q[2] = r[2] => q = r
      /\ \A r \in Q : r[1] <= h.turnNo.id
  BY DEF Booked, ReservedSound
<1> HIDE DEF Q, p, c
<1>9. k.script = s /\ k.context = c /\ k.turnNo = h.turnNo /\ k.watch = h.watch \ turns BY <1>2
<1>10. k \in Heres BY <1>1, <1>2, <1>4, <1>5 DEF Heres
<1> QED BY <1>3, <1>4, <1>5, <1>6, <1>7, <1>8, <1>9, <1>10 DEF Booked, ReservedSound, Q

\* What a store holds, or is to be written, in the order of the timeline.
Ascends(l) == \A i, j \in 1..Len(l) : i < j => l[i].id < l[j].id

\* Every item of l comes before every item of m.
Precedes(l, m) == \A i \in 1..Len(l), j \in 1..Len(m) : l[i].id < m[j].id

\* It is of the timeline x, or older: before what x has not handed over, and
\* worded as x words it.
Behind(l, x) ==
  \A i \in 1..Len(l) :
    /\ l[i].id < x.next
    /\ \A j \in 1..Len(x.items) :
         /\ j > x.checkpoint => l[i].id < x.items[j].id
         /\ l[i].id = x.items[j].id => l[i] = x.items[j]

\* The queue of the writer, and what it writes to.
WriteJobs == [op : {"open", "items", "report"}, batch : Seq(HistoryItems)]

StoreRecords == [open : BOOLEAN, report : BOOLEAN, log : Seq(HistoryItems)]

\* The stores and the queue of writes hold the items once, in order and worded
\* as the timeline words them.
Flows(q, s, x) ==
  /\ q \in Seq(WriteJobs) /\ s \in [HistoryStores -> StoreRecords]
  /\ \A k \in HistoryStores : Ascends(s[k].log) /\ Behind(s[k].log, x)
  /\ \A p \in 1..Len(q) : q[p].op = "items" =>
       /\ Ascends(q[p].batch) /\ Behind(q[p].batch, x)
       /\ \A k \in HistoryStores : Precedes(s[k].log, q[p].batch)
  /\ \A p, r \in 1..Len(q) :
       p < r /\ q[p].op = "items" /\ q[r].op = "items" => Precedes(q[p].batch, q[r].batch)

\* What is behind the checkpoint of a recorded session was handed to the writer,
\* or passed by an extraction; both are older than all that is to be written.
Handed(x, ids, passed) ==
  /\ \A i \in 1..x.checkpoint : \/ x.items[i].id \in ids \cup passed
                                \/ histCfg.mode = "attach" /\ x.items[i].id = 1
  /\ ids \cap passed = {}
  /\ \A n \in ids \cup passed :
       n < x.next /\ \A j \in 1..Len(x.items) : j > x.checkpoint => n < x.items[j].id

\* It is said of sessions that are recorded only.
HandedIf(x, ids, passed) == histCfg.history => Handed(x, ids, passed)

\* The ids of the items of a batch.
HasIds(new, b) == \A n : n \in new <=> \E i \in DOMAIN b : n = b[i].id

HistoryWriters == [queue : Seq(WriteJobs), handed : SUBSET Nat, phase : {"open", "closed"}]

Distillers == [phase : {"idle", "asking"}, turns : Nat, passed : SUBSET Nat]

\* The inductive invariant: the timeline and its reservations are sound, what the
\* stores hold and the queue carries ascends behind the checkpoint, and only
\* where an agent adds to the timeline an extraction finds what is not written.
HistoryInv ==
  /\ histCfg \in [mode : HistoryModes, external : BOOLEAN, history : BOOLEAN, memory : BOOLEAN,
                 notes : BOOLEAN]
  /\ HereSound(Here) /\ Locked(Here)
  /\ writer \in HistoryWriters
  /\ Flows(writer.queue, stored, context)
  /\ HandedIf(context, writer.handed, distiller.passed)
  /\ distiller \in Distillers
  /\ histCfg.history /\ ~(histCfg.memory /\ histCfg.notes) =>
       distiller.phase = "idle" /\ distiller.passed = {}

\* The items of a timeline, item by item.
LEMMA ItemsOf ==
  ASSUME NEW x, ContextSound(x)
  PROVE  /\ x.items \in Seq(HistoryItems) /\ Len(x.items) \in Nat
              /\ x.checkpoint \in 0..Len(x.items)
         /\ x.next \in Nat /\ x.pending \in SUBSET Nat /\ DOMAIN x.items = 1..Len(x.items)
         /\ \A i \in 1..Len(x.items) : x.items[i] \in HistoryItems /\ x.items[i].id \in Nat
<1>1. x \in HistoryContexts /\ x.checkpoint <= Len(x.items) BY DEF ContextSound
<1>2. /\ x.items \in Seq(HistoryItems) /\ Len(x.items) \in Nat /\ x.checkpoint \in Nat
      /\ x.next \in Nat /\ x.pending \in SUBSET Nat /\ DOMAIN x.items = 1..Len(x.items)
  BY <1>1 DEF HistoryContexts
<1>3. \A i \in 1..Len(x.items) : x.items[i] \in HistoryItems BY <1>2, ElementOfSeq
<1> QED BY <1>1, <1>2, <1>3 DEF HistoryItems

\* A log stays behind a timeline that grows.
LEMMA BehindGrows ==
  ASSUME NEW x, NEW y, ContextSound(x), ContextSound(y), Grows(x, y),
         NEW l \in Seq(HistoryItems), Behind(l, x)
  PROVE  Behind(l, y)
<1> SUFFICES ASSUME NEW i \in 1..Len(l)
             PROVE  /\ l[i].id < y.next
                    /\ \A j \in 1..Len(y.items) :
                         /\ j > y.checkpoint => l[i].id < y.items[j].id
                         /\ l[i].id = y.items[j].id => l[i] = y.items[j]
  BY DEF Behind
<1>1. l[i] \in HistoryItems BY ElementOfSeq
<1>2. l[i].id \in Nat /\ l[i].id < x.next BY <1>1 DEF Behind, HistoryItems
<1>3. /\ x.next \in Nat /\ y.next \in Nat /\ x.next <= y.next /\ x.checkpoint \in 0..Len(x.items)
      /\ y.checkpoint = x.checkpoint
      /\ Len(x.items) \in Nat /\ Len(y.items) \in Nat /\ Len(x.items) <= Len(y.items)
      /\ \A j \in 1..Len(x.items) : x.items[j].id \in Nat
      /\ \A j \in 1..Len(y.items) : y.items[j].id \in Nat
  BY ItemsOf DEF Grows
<1>4. ASSUME NEW j \in 1..Len(x.items)
      PROVE  /\ j > y.checkpoint => l[i].id < y.items[j].id
             /\ l[i].id = y.items[j].id => l[i] = y.items[j]
  <2>2. j > x.checkpoint => l[i].id < x.items[j].id BY DEF Behind
  <2>3. ASSUME l[i].id = x.items[j].id PROVE l[i] = y.items[j]
    <3>1. l[i] = x.items[j] BY <2>3 DEF Behind
    <3>2. l[i].id \in Nat /\ j \in Nat /\ x.checkpoint \in Nat /\ ~(j > x.checkpoint)
      BY <1>2, <1>3, <2>2, <2>3
    <3>3. j \in 1..x.checkpoint BY <3>2
    <3>4. x.items[j].id \notin x.pending BY <3>3 DEF ContextSound
    <3> QED BY <3>1, <3>4 DEF Grows
  <2>4. y.items[j].id = x.items[j].id /\ y.checkpoint = x.checkpoint BY DEF Grows
  <2> QED BY <2>2, <2>3, <2>4
<1>5. ASSUME NEW j \in 1..Len(y.items), j \notin 1..Len(x.items)
      PROVE  l[i].id < y.items[j].id /\ l[i].id # y.items[j].id
  <2>1. y.items[j].id >= x.next BY <1>3, <1>5 DEF Grows
  <2>2. l[i].id # y.items[j].id BY <1>2, <1>3, <2>1
  <2> QED BY <1>2, <1>3, <2>1, <2>2
<1>6. l[i].id < y.next BY <1>2, <1>3
<1> QED BY <1>4, <1>5, <1>6

\* So does all that flows to a store.
LEMMA FlowsGrows ==
  ASSUME NEW q, NEW s, NEW x, NEW y, ContextSound(x), ContextSound(y), Grows(x, y), Flows(q, s, x)
  PROVE  Flows(q, s, y)
<1>2. \A p \in 1..Len(q) : q[p].batch \in Seq(HistoryItems)
  <2>1. \A p \in 1..Len(q) : q[p] \in WriteJobs BY ElementOfSeq DEF Flows
  <2> QED BY <2>1 DEF WriteJobs
<1> QED BY <1>2, BehindGrows DEF Flows, StoreRecords

\* What is behind the checkpoint stays handed over.
LEMMA HandedGrows ==
  ASSUME NEW x, NEW y, ContextSound(x), ContextSound(y), Grows(x, y),
         NEW ids \in SUBSET Nat, NEW passed \in SUBSET Nat, Handed(x, ids, passed)
  PROVE  Handed(y, ids, passed)
<1>1. \A i \in 1..x.checkpoint : i \in 1..Len(x.items) BY ItemsOf
<1>2. /\ Len(x.items) \in Nat /\ Len(y.items) \in Nat /\ x.next \in Nat /\ y.next \in Nat
      /\ \A j \in 1..Len(y.items) : y.items[j].id \in Nat
      /\ y.checkpoint = x.checkpoint /\ x.next <= y.next
  BY ItemsOf DEF Grows
<1>3. ASSUME NEW n \in ids \cup passed, NEW j \in 1..Len(y.items), j > y.checkpoint
      PROVE  n < y.items[j].id
  <2>1. n \in Nat /\ n < x.next BY DEF Handed
  <2>2. CASE j \in 1..Len(x.items) BY <1>2, <1>3, <2>2 DEF Grows, Handed
  <2>3. CASE ~(j \in 1..Len(x.items))
    <3>1. y.items[j].id >= x.next BY <1>2, <2>3 DEF Grows
    <3> QED BY <1>2, <2>1, <3>1
  <2> QED BY <2>2, <2>3
<1>4. ASSUME NEW n \in ids \cup passed PROVE n < y.next
  <2>1. n \in Nat /\ n < x.next BY DEF Handed
  <2> QED BY <1>2, <2>1
<1>5. \A i \in 1..y.checkpoint : \/ y.items[i].id \in ids \cup passed
                                 \/ histCfg.mode = "attach" /\ y.items[i].id = 1
  BY <1>1, <1>2 DEF Grows, Handed
<1>6. ids \cap passed = {} BY DEF Handed
<1> QED BY <1>3, <1>4, <1>5, <1>6 DEF Handed

\* So it is if that is said of recorded sessions only.
LEMMA HandedIfGrows ==
  ASSUME NEW x, NEW y, ContextSound(x), ContextSound(y), Grows(x, y),
         NEW ids \in SUBSET Nat, NEW passed \in SUBSET Nat, HandedIf(x, ids, passed)
  PROVE  HandedIf(y, ids, passed)
BY HandedGrows DEF HandedIf

\* The barrier lies before the first pending message.
LEMMA BarrierSound ==
  ASSUME NEW x, ContextSound(x)
  PROVE  /\ FlushBarrier(x) \in 0..Len(x.items)
         /\ \A i \in 1..FlushBarrier(x) : x.items[i].id \notin x.pending
<1> DEFINE first == {i \in 1..Len(x.items) : x.items[i].id \in x.pending}
<1>1. Len(x.items) \in Nat /\ DOMAIN x.items = 1..Len(x.items) BY ItemsOf
<1>2. FlushBarrier(x) = IF first = {} THEN Len(x.items)
                        ELSE (CHOOSE i \in first : \A j \in first : i <= j) - 1
  BY <1>1 DEF FlushBarrier
<1>3. CASE first = {} BY <1>1, <1>2, <1>3
<1>4. CASE first # {}
  <2>1. \E i \in first : \A j \in first : i <= j
    <3>1. first \subseteq Nat BY <1>1
    <3> HIDE DEF first
    <3> QED BY <1>4, <3>1, LeastIn
  <2> DEFINE m == CHOOSE i \in first : \A j \in first : i <= j
  <2>2. m \in first /\ \A j \in first : m <= j BY <2>1
  <2>3. FlushBarrier(x) = m - 1 BY <1>2, <1>4
  <2> HIDE DEF m
  <2> QED BY <1>1, <2>3, <2>2
<1> QED BY <1>3, <1>4

\* A moved checkpoint stays short of what is pending.
LEMMA CheckpointSound ==
  ASSUME NEW x, ContextSound(x), NEW y, y = MarkCheckpoint(x)
  PROVE  /\ ContextSound(y) /\ y.items = x.items /\ y.next = x.next /\ y.pending = x.pending
         /\ y.checkpoint = NewCheckpoint(x) /\ NewCheckpoint(x) \in x.checkpoint..Len(x.items)
         /\ ItemsSinceCheckpoint(y) = <<>>
<1>1. /\ x.checkpoint \in 0..Len(x.items) /\ Len(x.items) \in Nat /\ x \in HistoryContexts
      /\ FlushBarrier(x) \in 0..Len(x.items)
  BY ItemsOf, BarrierSound DEF ContextSound
<1>2. NewCheckpoint(x) \in x.checkpoint..Len(x.items) /\ FlushBarrier(x) <= NewCheckpoint(x)
  BY <1>1 DEF NewCheckpoint
<1>3. \A i \in 1..NewCheckpoint(x) : x.items[i].id \notin x.pending
  BY <1>1, BarrierSound DEF ContextSound, NewCheckpoint
<1>4. /\ y \in HistoryContexts /\ y.items = x.items /\ y.next = x.next /\ y.pending = x.pending
      /\ y.checkpoint = NewCheckpoint(x)
  BY <1>1, <1>2 DEF MarkCheckpoint, HistoryContexts
<1>7. NewCheckpoint(y) = NewCheckpoint(x) BY <1>1, <1>2, <1>4 DEF NewCheckpoint, FlushBarrier
<1> QED BY <1>2, <1>4, <1>1, <1>7, SubSeqEmpty, <1>3 DEF ItemsSinceCheckpoint, ContextSound

\* The batch of a flush lies behind the new checkpoint, and nothing that is
\* written or on its way comes after it.
LEMMA HistoryBatchSound ==
  ASSUME NEW x, ContextSound(x), NEW y, y = MarkCheckpoint(x), NEW b, b = ItemsSinceCheckpoint(x)
  PROVE  /\ b \in Seq(HistoryItems) /\ Ascends(b) /\ Behind(b, y)
         /\ \A l \in Seq(HistoryItems) : Behind(l, x) => Behind(l, y) /\ Precedes(l, b)
         /\ \A i \in 1..y.checkpoint : i \in 1..x.checkpoint
                 \/ \E j \in 1..Len(b) : b[j] = x.items[i]
         /\ \A j \in 1..Len(b) : \E i \in 1..Len(x.items) :
              i > x.checkpoint /\ i <= y.checkpoint /\ b[j] = x.items[i]
         /\ b = <<>> => y.checkpoint = x.checkpoint
<1> DEFINE m == x.checkpoint + 1
           n == NewCheckpoint(x)
<1>1. /\ ContextSound(y) /\ y.items = x.items /\ y.next = x.next /\ y.pending = x.pending
      /\ y.checkpoint = n /\ n \in x.checkpoint..Len(x.items) /\ x.checkpoint \in 0..Len(x.items)
      /\ Len(x.items) \in Nat /\ x.items \in Seq(HistoryItems) /\ x.next \in Nat
      /\ \A i \in 1..Len(x.items) : x.items[i] \in HistoryItems /\ x.items[i].id \in Nat
  BY CheckpointSound, ItemsOf
<1>2. /\ m \in Int /\ n \in Int /\ \A i \in m..n : i \in 1..Len(x.items)
           /\ x.items[i] \in HistoryItems
  BY <1>1
<1>3. b = SubSeq(x.items, m, n) BY DEF ItemsSinceCheckpoint
<1> HIDE DEF m, n
<1>4. /\ b \in Seq(HistoryItems) /\ Len(b) = IF m <= n THEN n - m + 1 ELSE 0
      /\ \A i \in 1..(n - m + 1) : b[i] = x.items[m + i - 1]
  BY <1>2, <1>3, SubSeqProperties
<1>5. Len(b) = n - x.checkpoint /\ m = x.checkpoint + 1
      /\ \A i \in 1..Len(b) : /\ x.checkpoint + i \in 1..Len(x.items)
              /\ x.checkpoint + i > x.checkpoint
                              /\ x.checkpoint + i <= n
                              /\ b[i] = x.items[x.checkpoint + i]
  <2>1. m = x.checkpoint + 1 BY DEF m
  <2>4. n \in x.checkpoint..Len(x.items) /\ x.checkpoint \in 0..Len(x.items)
        /\ Len(x.items) \in Nat
    BY <1>1
  <2>5. Len(b) = IF m <= n THEN n - m + 1 ELSE 0 BY <1>4
  <2>2. Len(b) = n - x.checkpoint BY <2>1, <2>4, <2>5
  <2>3. ASSUME NEW i \in 1..Len(b)
        PROVE  /\ x.checkpoint + i \in 1..Len(x.items) /\ x.checkpoint + i > x.checkpoint
               /\ x.checkpoint + i <= n /\ i \in 1..(n - m + 1) /\ m + i - 1 = x.checkpoint + i
    <3>1. /\ n \in Nat /\ x.checkpoint \in Nat /\ Len(x.items) \in Nat /\ x.checkpoint <= n
          /\ n <= Len(x.items) /\ i \in Nat /\ 1 <= i /\ i <= n - x.checkpoint
      BY <2>2, <2>4
    <3> QED BY <2>1, <3>1
  <2> QED BY <1>4, <2>1, <2>2, <2>3
<1>6. Ascends(b)
  <2> SUFFICES ASSUME NEW i \in 1..Len(b), NEW j \in 1..Len(b), i < j PROVE b[i].id < b[j].id
    BY DEF Ascends
  <2>1. x.checkpoint + i < x.checkpoint + j BY <1>1, <1>5
  <2> QED BY <1>5, <2>1 DEF ContextSound
<1>7. Behind(b, y)
  <2> SUFFICES ASSUME NEW i \in 1..Len(b), NEW j \in 1..Len(x.items)
               PROVE  /\ b[i].id < x.next
                      /\ j > n => b[i].id < x.items[j].id
                      /\ b[i].id = x.items[j].id => b[i] = x.items[j]
    <3> QED BY <1>1, <1>5 DEF Behind, ContextSound
  <2> DEFINE c == x.checkpoint + i
  <2>1. c \in 1..Len(x.items) /\ c <= n /\ b[i] = x.items[c] BY <1>5
  <2> HIDE DEF c
  <2> QED BY <1>1, <2>1 DEF ContextSound
<1>8. ASSUME NEW l \in Seq(HistoryItems), Behind(l, x) PROVE Behind(l, y) /\ Precedes(l, b)
  <2>1. Behind(l, y) BY <1>1, <1>8 DEF Behind
  <2>2. Precedes(l, b) BY <1>5, <1>8 DEF Behind, Precedes
  <2> QED BY <2>1, <2>2
<1>9. ASSUME NEW i \in 1..y.checkpoint, i \notin 1..x.checkpoint
      PROVE  \E j \in 1..Len(b) : b[j] = x.items[i]
  <2>1. i - x.checkpoint \in 1..Len(b) /\ x.checkpoint + (i - x.checkpoint) = i BY <1>1, <1>5, <1>9
  <2> QED BY <1>5, <2>1
<1>10. b = <<>> => y.checkpoint = x.checkpoint BY <1>4, EmptySeq, <1>1, <1>5
<1>11. \A j \in 1..Len(b) : \E i \in 1..Len(x.items) :
         i > x.checkpoint /\ i <= y.checkpoint /\ b[j] = x.items[i]
  BY <1>1, <1>5
<1> QED BY <1>4, <1>6, <1>7, <1>8, <1>9, <1>10, <1>11

\* What is new behind a moved checkpoint was neither handed over nor passed; it
\* is one or the other from now on.
LEMMA HandsOver ==
  ASSUME NEW x, ContextSound(x), NEW new, HasIds(new, ItemsSinceCheckpoint(x)),
         NEW ids \in SUBSET Nat, NEW passed \in SUBSET Nat, Handed(x, ids, passed)
  PROVE  /\ new \in SUBSET Nat
         /\ Handed(MarkCheckpoint(x), ids \cup new, passed)
         /\ Handed(MarkCheckpoint(x), ids, passed \cup new)
<1> DEFINE b == ItemsSinceCheckpoint(x)
           y == MarkCheckpoint(x)
<1>1. /\ ContextSound(y) /\ y.items = x.items /\ y.next = x.next
      /\ y.checkpoint \in x.checkpoint..Len(x.items) /\ x.checkpoint \in 0..Len(x.items)
      /\ Len(x.items) \in Nat /\ x.next \in Nat
      /\ \A i \in 1..Len(x.items) : x.items[i].id \in Nat
  BY CheckpointSound, ItemsOf
<1>2. /\ DOMAIN b = 1..Len(b)
      /\ \A i \in 1..y.checkpoint : i \in 1..x.checkpoint \/ \E j \in 1..Len(b) : b[j] = x.items[i]
      /\ \A j \in 1..Len(b) : \E i \in 1..Len(x.items) :
           i > x.checkpoint /\ i <= y.checkpoint /\ b[j] = x.items[i]
  <2>1. b \in Seq(HistoryItems) BY HistoryBatchSound
  <2>2. DOMAIN b = 1..Len(b) BY <2>1, LenProperties
  <2> QED BY <2>2, HistoryBatchSound
<1>9. \A n : n \in new <=> \E i \in DOMAIN b : n = b[i].id BY DEF HasIds
<1> HIDE DEF b, y
<1>3. \A n \in new : \E i \in 1..Len(x.items) :
        i > x.checkpoint /\ i <= y.checkpoint /\ n = x.items[i].id
  BY <1>2, <1>9
<1>4. \A i \in 1..y.checkpoint : i \in 1..x.checkpoint \/ x.items[i].id \in new BY <1>2, <1>9
<1>5. ASSUME NEW n \in new
      PROVE  /\ n \in Nat /\ n < y.next /\ n \notin ids \cup passed
             /\ \A j \in 1..Len(y.items) : j > y.checkpoint => n < y.items[j].id
  <2>1. PICK i \in 1..Len(x.items) : i > x.checkpoint /\ i <= y.checkpoint /\ n = x.items[i].id
    BY <1>3
  <2>2. \A j \in 1..Len(y.items) : j > y.checkpoint => j > i BY <1>1, <2>1
  <2>3. \A e \in ids \cup passed : e \in Nat /\ e < n BY <2>1 DEF Handed
  <2> QED BY <1>1, <2>1, <2>2, <2>3 DEF ContextSound
<1>6. \A e \in ids \cup passed : e < y.next
         /\ \A j \in 1..Len(y.items) : j > y.checkpoint => e < y.items[j].id
  BY <1>1 DEF Handed
<1>7. \A i \in 1..y.checkpoint : \/ y.items[i].id \in ids \cup passed \cup new
                                 \/ histCfg.mode = "attach" /\ y.items[i].id = 1
  BY <1>1, <1>4 DEF Handed
<1>8. ids \cap passed = {} BY DEF Handed
<1>10. Handed(y, ids \cup new, passed) /\ Handed(y, ids, passed \cup new)
  BY <1>5, <1>6, <1>7, <1>8 DEF Handed
<1> QED BY <1>5, <1>10 DEF y

\* What the writer and the stores make of a flush of the timeline.
LEMMA FlushedSound ==
  ASSUME NEW x, ContextSound(x), writer \in HistoryWriters, Flows(writer.queue, stored, x),
         histCfg.history \in BOOLEAN, NEW passed \in SUBSET Nat,
         HandedIf(x, writer.handed, passed),
         NEW w, w = WriterFlush(writer, x), NEW y, y = FlushedContext(x)
  PROVE  /\ w \in HistoryWriters /\ w.phase = writer.phase
         /\ ContextSound(y) /\ y.items = x.items /\ y.next = x.next /\ y.pending = x.pending
         /\ Flows(w.queue, stored, y)
         /\ HandedIf(y, w.handed, passed)
         /\ histCfg.history => ItemsSinceCheckpoint(y) = <<>>
<1>1. CASE ~histCfg.history BY <1>1 DEF WriterFlush, FlushedContext, HandedIf
<1>2. CASE histCfg.history
  <2> DEFINE b == ItemsSinceCheckpoint(x)
             ids == {b[i].id : i \in DOMAIN b}
             job == [op |-> "items", batch |-> b]
             q == Append(writer.queue, job)
  <2>1. y = MarkCheckpoint(x) BY <1>2 DEF FlushedContext
  <2>2. /\ ContextSound(y) /\ y.items = x.items /\ y.next = x.next /\ y.pending = x.pending
        /\ ItemsSinceCheckpoint(y) = <<>> /\ y.checkpoint \in x.checkpoint..Len(x.items)
    BY <2>1, CheckpointSound
  <2>3. /\ b \in Seq(HistoryItems) /\ Ascends(b) /\ Behind(b, y)
        /\ \A l \in Seq(HistoryItems) : Behind(l, x) => Behind(l, y) /\ Precedes(l, b)
        /\ \A i \in 1..y.checkpoint : i \in 1..x.checkpoint
                \/ \E j \in 1..Len(b) : b[j] = x.items[i]
        /\ b = <<>> => y.checkpoint = x.checkpoint
    BY <2>1, HistoryBatchSound
  <2>4. writer.queue \in Seq(WriteJobs) /\ writer.handed \in SUBSET Nat
        /\ writer = [queue |-> writer.queue, handed |-> writer.handed, phase |-> writer.phase]
    BY DEF HistoryWriters
  <2>5. \A k \in HistoryStores : Behind(stored[k].log, y) /\ Precedes(stored[k].log, b)
    BY <2>3 DEF Flows, StoreRecords
  <2>6. \A p \in 1..Len(writer.queue) : writer.queue[p] \in WriteJobs BY <2>4, ElementOfSeq
  <2>7. \A p \in 1..Len(writer.queue) : writer.queue[p].op = "items" =>
          Behind(writer.queue[p].batch, y) /\ Precedes(writer.queue[p].batch, b)
    BY <2>3, <2>6 DEF Flows, WriteJobs
  <2>8. CASE b = <<>>
    BY <2>8, <2>5, <2>7, <1>2, <2>2, <2>3 DEF WriterFlush, Flows, Handed, HandedIf
  <2>9. CASE b # <<>>
    <3>1. DOMAIN b = 1..Len(b) /\ \A i \in 1..Len(b) : b[i].id \in Nat
      <4>1. \A i \in 1..Len(b) : b[i] \in HistoryItems BY <2>3, ElementOfSeq
      <4> QED BY <2>3, <4>1, LenProperties DEF HistoryItems
    <3>2. w = [queue |-> q, handed |-> writer.handed \cup ids, phase |-> writer.phase]
      BY <1>2, <2>4, <2>9 DEF WriterFlush, EnqueueWrite
    <3>3. job \in WriteJobs /\ job.op = "items" /\ job.batch = b BY <2>3 DEF WriteJobs
    <3>4. ids \in SUBSET Nat /\ Handed(y, writer.handed \cup ids, passed)
      <4>1. Handed(x, writer.handed, passed) /\ writer.handed \in SUBSET Nat
        BY <1>2, <2>4 DEF HandedIf
      <4>2. HasIds(ids, b) BY DEF HasIds
      <4> HIDE DEF ids, job, q
      <4>3. ids \in SUBSET Nat /\ Handed(MarkCheckpoint(x), writer.handed \cup ids, passed)
        BY <4>1, <4>2, HandsOver
      <4> QED BY <2>1, <4>3
    <3> HIDE DEF b, ids, job
    <3>5. /\ q \in Seq(WriteJobs) /\ Len(q) = Len(writer.queue) + 1 /\ Len(writer.queue) \in Nat
          /\ \A p \in 1..Len(writer.queue) : q[p] = writer.queue[p]
          /\ q[Len(writer.queue) + 1] = job
      BY <2>4, <3>3, AppendProperties, LenProperties
    <3> HIDE DEF q
    <3>6. w \in HistoryWriters /\ w.phase = writer.phase /\ w.queue = q
          /\ w.handed = writer.handed \cup ids
      <4>2. writer.handed \cup ids \in SUBSET Nat /\ writer.phase \in {"open", "closed"}
        BY <2>4, <3>4 DEF HistoryWriters
      <4> QED BY <3>2, <3>5, <4>2 DEF HistoryWriters
    <3>7. \A p \in 1..Len(q) : p \in 1..Len(writer.queue) \/ p = Len(writer.queue) + 1 BY <3>5
    <3>8. \A p \in 1..Len(q) : q[p].op = "items" =>
            /\ Ascends(q[p].batch) /\ Behind(q[p].batch, y)
            /\ \A k \in HistoryStores : Precedes(stored[k].log, q[p].batch)
      BY <2>3, <2>5, <2>7, <3>3, <3>5, <3>7 DEF Flows
    <3>9. \A p, r \in 1..Len(q) :
            p < r /\ q[p].op = "items" /\ q[r].op = "items" => Precedes(q[p].batch, q[r].batch)
      <4> SUFFICES ASSUME NEW p \in 1..Len(q), NEW r \in 1..Len(q), p < r, q[p].op = "items",
                   q[r].op = "items"
                   PROVE  Precedes(q[p].batch, q[r].batch)
        OBVIOUS
      <4>1. p \in 1..Len(writer.queue) /\ q[p] = writer.queue[p] BY <3>5, <3>7
      <4>2. CASE r \in 1..Len(writer.queue) BY <3>5, <4>1, <4>2 DEF Flows
      <4>3. CASE r = Len(writer.queue) + 1 BY <2>7, <3>3, <3>5, <4>1, <4>3
      <4> QED BY <3>7, <4>2, <4>3
    <3>12. Handed(y, w.handed, passed) BY <3>4, <3>6
    <3> QED BY <2>2, <3>6, <3>12, <2>5, <3>5, <3>8, <3>9 DEF Flows, HandedIf
  <2> QED BY <2>8, <2>9
<1> QED BY <1>1, <1>2

\* A write that settles moves the head of the queue to the logs it reaches.
LEMMA HistoryWriteKeeps ==
  ASSUME HistoryInv, NEW reached \in SUBSET HistoryStores, WriteSettles(reached)
  PROVE  HistoryInv'
<1> DEFINE q == writer.queue
           job == Head(writer.queue)
<1>1. /\ q \in Seq(WriteJobs) /\ q # <<>> /\ writer.handed \in SUBSET Nat
      /\ writer = [queue |-> q, handed |-> writer.handed, phase |-> writer.phase]
      /\ writer.phase \in {"open", "closed"}
  BY DEF HistoryInv, HistoryWriters, WriteSettles
<1>2. /\ job \in WriteJobs /\ Tail(q) \in Seq(WriteJobs) /\ Len(Tail(q)) = Len(q) - 1
      /\ \A i \in 1..Len(Tail(q)) : Tail(q)[i] = q[i + 1]
      /\ Len(q) \in Nat \ {0} /\ job = q[1]
  BY <1>1, HeadTailProperties, EmptySeq
<1>4. writer' \in HistoryWriters /\ writer'.queue = Tail(q) /\ writer'.handed = writer.handed
      /\ writer'.phase = writer.phase
  BY <1>1, <1>2 DEF HistoryWriters, WriteSettles
<1>5. UNCHANGED <<histCfg, script, context, turnNo, watch, distiller>> BY DEF WriteSettles
<1>6. Flows(q, stored, context) BY DEF HistoryInv
<1> DEFINE t == Tail(q)
<1>7. ASSUME NEW k \in HistoryStores
      PROVE  \/ stored'[k] \in StoreRecords /\ stored'[k].log = stored[k].log
             \/ /\ job.op = "items" /\ stored'[k] \in StoreRecords
                /\ stored'[k].log = stored[k].log \o job.batch
  <2>1. stored[k] \in StoreRecords /\ job.batch \in Seq(HistoryItems)
        /\ stored[k].log \in Seq(HistoryItems)
    BY <1>2, <1>6 DEF Flows, StoreRecords, WriteJobs
  <2>2. stored[k].log \o job.batch \in Seq(HistoryItems) BY <2>1, ConcatProperties
  <2>3. stored'[k] = IF k \in reached THEN Written(k, job) ELSE stored[k] BY DEF WriteSettles
  <2>4. job.op \in {"open", "items", "report"} BY <1>2 DEF WriteJobs
  <2> HIDE DEF job
  <2>5. CASE job.op = "open" BY <2>1, <2>3, <2>5 DEF Written, StoreRecords
  <2>6. CASE job.op = "report" BY <2>1, <2>3, <2>6 DEF Written, StoreRecords
  <2>7. CASE job.op = "items" BY <2>1, <2>2, <2>3, <2>7 DEF Written, StoreRecords
  <2> QED BY <2>4, <2>5, <2>6, <2>7
<1>8. /\ \A k \in HistoryStores : stored[k].log \in Seq(HistoryItems)
      /\ job.batch \in Seq(HistoryItems)
      /\ \A p \in 1..Len(q) : q[p].batch \in Seq(HistoryItems)
  <2>1. \A p \in 1..Len(q) : q[p] \in WriteJobs BY <1>1, ElementOfSeq
  <2> QED BY <1>2, <1>6, <2>1 DEF Flows, StoreRecords, WriteJobs
<1>9. /\ \A p \in 1..Len(t) : t[p] = q[p + 1] /\ p + 1 \in 1..Len(q) /\ 1 < p + 1
      /\ 1 \in 1..Len(q)
  BY <1>2
<1>10. job.op = "items" =>
        /\ Ascends(job.batch) /\ Behind(job.batch, context)
        /\ \A k \in HistoryStores : Precedes(stored[k].log, job.batch)
        /\ \A p \in 1..Len(t) : t[p].op = "items" => Precedes(job.batch, t[p].batch)
  <2>2. ASSUME job.op = "items", NEW p \in 1..Len(t), t[p].op = "items"
        PROVE  Precedes(job.batch, t[p].batch)
    BY <1>2, <1>6, <1>9, <2>2 DEF Flows
  <2> QED BY <2>2, <1>2, <1>6, <1>9 DEF Flows
<1>11. \A p \in 1..Len(t) : t[p].op = "items" =>
         /\ Ascends(t[p].batch) /\ Behind(t[p].batch, context)
         /\ \A k \in HistoryStores : Precedes(stored[k].log, t[p].batch)
  BY <1>6, <1>9 DEF Flows
<1>12. \A p, r \in 1..Len(t) :
         p < r /\ t[p].op = "items" /\ t[r].op = "items" => Precedes(t[p].batch, t[r].batch)
  <2> SUFFICES ASSUME NEW p \in 1..Len(t), NEW r \in 1..Len(t), p < r, t[p].op = "items",
               t[r].op = "items"
               PROVE  Precedes(t[p].batch, t[r].batch)
    OBVIOUS
  <2>1. p + 1 < r + 1 BY <1>2
  <2> QED BY <1>6, <1>9, <2>1 DEF Flows
<1> HIDE DEF q, t, job
<1>13. \A k \in HistoryStores :
         /\ Ascends(stored'[k].log) /\ Behind(stored'[k].log, context)
         /\ \A p \in 1..Len(t) : t[p].op = "items" => Precedes(stored'[k].log, t[p].batch)
  <2> SUFFICES ASSUME NEW k \in HistoryStores
               PROVE  /\ Ascends(stored'[k].log) /\ Behind(stored'[k].log, context)
                      /\ \A p \in 1..Len(t) : t[p].op = "items"
                              => Precedes(stored'[k].log, t[p].batch)
    OBVIOUS
  <2> DEFINE l == stored[k].log
             n == stored'[k].log
             b == job.batch
  <2>1. /\ Ascends(l) /\ Behind(l, context)
        /\ \A p \in 1..Len(t) : t[p].op = "items" => Precedes(l, t[p].batch)
    BY <1>6, <1>11 DEF Flows
  <2>2. CASE n = l BY <2>1, <2>2
  <2>3. CASE job.op = "items" /\ n = l \o b
    <3>1. /\ l \in Seq(HistoryItems) /\ b \in Seq(HistoryItems) BY <1>8
    <3>2. /\ Ascends(b) /\ Behind(b, context) /\ Precedes(l, b)
          /\ \A p \in 1..Len(t) : t[p].op = "items" => Precedes(b, t[p].batch)
      BY <1>10, <2>3
    <3> HIDE DEF l, n, b
    <3>3. /\ Len(n) = Len(l) + Len(b) /\ Len(l) \in Nat /\ Len(b) \in Nat
          /\ \A i \in 1..Len(n) : n[i] = IF i <= Len(l) THEN l[i] ELSE b[i - Len(l)]
      BY <2>3, <3>1, ConcatProperties, LenProperties
    <3>4. \A i \in 1..Len(n) : \/ i \in 1..Len(l) /\ n[i] = l[i]
                               \/ i > Len(l) /\ i - Len(l) \in 1..Len(b) /\ n[i] = b[i - Len(l)]
      BY <3>3
    <3>5. Ascends(n)
      <4> SUFFICES ASSUME NEW i \in 1..Len(n), NEW j \in 1..Len(n), i < j PROVE n[i].id < n[j].id
        BY DEF Ascends
      <4>1. CASE j \in 1..Len(l) BY <2>1, <3>3, <4>1 DEF Ascends
      <4>2. CASE i \in 1..Len(l) /\ j > Len(l) BY <3>2, <3>3, <3>4, <4>2 DEF Precedes
      <4>3. CASE i > Len(l)
        <5> DEFINE u == i - Len(l)
                   v == j - Len(l)
        <5>1. u \in Int /\ v \in Int /\ u < v /\ j > Len(l) /\ ~(i \in 1..Len(l))
              /\ ~(j \in 1..Len(l))
          BY <3>3, <4>3
        <5>2. u \in 1..Len(b) /\ v \in 1..Len(b) /\ n[i] = b[u] /\ n[j] = b[v] BY <3>4, <5>1
        <5> HIDE DEF u, v
        <5> QED BY <3>2, <5>1, <5>2 DEF Ascends
      <4> QED BY <3>3, <4>1, <4>2, <4>3
    <3>6. Behind(n, context)
      <4> SUFFICES ASSUME NEW i \in 1..Len(n)
                   PROVE  /\ n[i].id < context.next
                          /\ \A j \in 1..Len(context.items) :
                               /\ j > context.checkpoint => n[i].id < context.items[j].id
                               /\ n[i].id = context.items[j].id => n[i] = context.items[j]
        BY DEF Behind
      <4>1. CASE i \in 1..Len(l) /\ n[i] = l[i] BY <2>1, <4>1 DEF Behind
      <4>2. CASE i - Len(l) \in 1..Len(b) /\ n[i] = b[i - Len(l)] BY <3>2, <4>2 DEF Behind
      <4> QED BY <3>4, <4>1, <4>2
    <3> QED BY <3>5, <3>6, <2>1, <3>2, <3>4 DEF n, Precedes
  <2> QED BY <1>7, <2>2, <2>3
<1>14. stored' \in [HistoryStores -> StoreRecords] BY <1>7 DEF WriteSettles
<1>16. Flows(writer.queue, stored, context)'
  BY <1>5, <1>2, <1>4, <1>11, <1>12, <1>13, <1>14 DEF t, Flows
<1> QED BY <1>4, <1>5, <1>16 DEF HistoryInv, Here, HereSound, Booked, ReservedSound,
           ScriptSound, Locked, Handed, HandedIf

\* The record of the variables has them for fields.
LEMMA HereIs ==
  ASSUME NEW k, Booked(k), There(k)
  PROVE  Here' = k /\ context' = k.context /\ script' = k.script /\ turnNo' = k.turnNo
         /\ watch' = k.watch
<1> QED BY HereParts DEF Here, There

\* The invariant, of the record of the variables.
LEMMA HereNow ==
  ASSUME HistoryInv
  PROVE  /\ HereSound(Here) /\ Locked(Here) /\ Booked(Here) /\ ContextSound(context)
         /\ Here.context = context /\ Here.script = script /\ Here.turnNo = turnNo
                 /\ Here.watch = watch
         /\ histCfg.external \in BOOLEAN /\ histCfg.history \in BOOLEAN
         /\ writer.handed \in SUBSET Nat /\ distiller.passed \in SUBSET Nat
         /\ script \in HistoryScripts /\ turnNo \in [id : 1..MaxHistoryTurns,
                 finalized : SUBSET Nat]
<1> QED BY HereParts DEF HistoryInv, Here, HereSound, HistoryWriters, Distillers

\* The invariant of the next state, put together from its parts.
LEMMA HistoryPutTogether ==
  ASSUME HistoryInv, UNCHANGED histCfg, NEW k, Here' = k, HereSound(k), Locked(k),
         writer' \in HistoryWriters, distiller' \in Distillers,
         NEW z, context' = z, NEW q, writer'.queue = q, NEW s, stored' = s, Flows(q, s, z),
         NEW m, writer'.handed = m, NEW n, distiller'.passed = n,
         HandedIf(z, m, n),
         (histCfg.history /\ ~(histCfg.memory /\ histCfg.notes)) =>
           distiller'.phase = "idle" /\ n = {}
  PROVE  HistoryInv'
<1>1. HereSound(Here)' /\ Locked(Here)'
  BY DEF HereSound, Booked, ReservedSound, ScriptSound, Locked, Here
<1>2. Flows(writer.queue, stored, context)' BY DEF Flows, Behind
<1>3. HandedIf(context, writer.handed, distiller.passed)' BY DEF HandedIf, Handed
<1> QED BY <1>1, <1>2, <1>3 DEF HistoryInv

\* An event that leaves the writer alone.
LEMMA QuietKeeps ==
  ASSUME HistoryInv, NEW k, HereSound(k), Locked(k), Grows(context, k.context), There(k),
         UNCHANGED <<histCfg, writer, stored, distiller>>
  PROVE  HistoryInv'
<1>1. Here' = k /\ context' = k.context BY HereIs DEF HereSound
<1>2. /\ ContextSound(context) /\ ContextSound(context')
      /\ writer.handed \in SUBSET Nat /\ distiller.passed \in SUBSET Nat
  BY <1>1, HereNow DEF HereSound, Booked
<1>3. Flows(writer.queue, stored, k.context) BY <1>1, <1>2, FlowsGrows DEF HistoryInv
<1>4. HandedIf(k.context, writer.handed, distiller.passed)
  <2>1. HandedIf(context, writer.handed, distiller.passed) BY DEF HistoryInv
  <2> QED BY <1>1, <1>2, <2>1, HandedIfGrows
<1>5. /\ writer' \in HistoryWriters /\ distiller' \in Distillers
      /\ (histCfg.history /\ ~(histCfg.memory /\ histCfg.notes)) =>
           distiller'.phase = "idle" /\ distiller.passed = {}
  BY DEF HistoryInv
<1> QED BY <1>1, <1>3, <1>4, <1>5, HistoryPutTogether

\* One lemma per action.  The external transcript of a turn arrives.
LEMMA TranscriptKeeps ==
  ASSUME HistoryAssumption, HistoryInv, NEW t \in 1..MaxHistoryTurns, OnTranscript(t)
  PROVE  HistoryInv'
<1> DEFINE ids == {r[2] : r \in {q \in script.reserved : q[1] = t}}
           c == SealUserMessage(context, CHOOSE i \in ids : TRUE, "final")
           sealed == [Here EXCEPT !.script.reserved = {r \in @ : r[1] # t}, !.watch = @ \ {t},
             !.context = c]
           fresh == [Here EXCEPT !.script.interrupted = @ /\ t < turnNo.id]
<1>1. /\ HereSound(Here) /\ Locked(Here) /\ Booked(Here) /\ ContextSound(context)
      /\ Here.context = context /\ Here.script = script /\ Here.turnNo = turnNo
              /\ Here.watch = watch
      /\ histCfg.external \in BOOLEAN /\ script \in HistoryScripts
      /\ turnNo \in [id : 1..MaxHistoryTurns, finalized : SUBSET Nat]
  BY HereNow
<1>2. Quietly /\ Room(1) BY DEF OnTranscript
<1>3. (ids # {} /\ There(sealed)) \/ There(HandleInput(fresh, t)) BY <1>1 DEF OnTranscript
<1>4. CASE ids # {} /\ There(sealed)
  <2>1. PICK r \in script.reserved : r[1] = t BY <1>4
  <2>2. /\ \A q \in script.reserved : q[1] = t => q = r
        /\ \A q \in script.reserved : q[2] = r[2] => q = r
        /\ context.pending = {q[2] : q \in script.reserved}
        /\ watch = {q[1] : q \in script.reserved}
    BY <1>1, <2>1 DEF Booked, ReservedSound
  <2>4. c = SealUserMessage(context, r[2], "final") /\ r[2] \in context.pending BY <2>1, <2>2
  <2>5. ContextSound(c) /\ Grows(context, c) /\ c.next = context.next
        /\ c.pending = context.pending \ {r[2]}
    <3> HIDE DEF c
    <3> QED BY <1>1, <2>4, HistorySealSound
  <2> DEFINE Q == {q \in script.reserved : q[1] # t}
             s == [script EXCEPT !.reserved = Q]
  <2>6. sealed = [script |-> s, context |-> c, turnNo |-> turnNo, watch |-> watch \ {t}]
    <3> DEFINE z == [Here.script EXCEPT !.reserved = {q \in Here.script.reserved : q[1] # t}]
    <3> HIDE DEF c
    <3>1. z = s BY <1>1
    <3>2. sealed = [Here EXCEPT !.script = z, !.watch = watch \ {t}, !.context = c]
      BY <1>1 DEF Here
    <3> HIDE DEF z, s, sealed
    <3> QED BY <3>1, <3>2 DEF Here
  <2>7. c.pending = {q[2] : q \in Q} /\ watch \ {t} = {q[1] : q \in Q} BY <2>1, <2>2, <2>5
  <2>8. /\ \A q, z \in Q : q[1] = z[1] \/ q[2] = z[2] => q = z
        /\ \A q \in Q : q[1] <= turnNo.id
    BY <1>1 DEF Booked, ReservedSound
  <2>9. /\ s \in HistoryScripts /\ s.reserved = Q /\ s.locked = script.locked
             /\ s.from = script.from
        /\ s.turn = script.turn
    BY <1>1 DEF HistoryScripts
  <2>10. ScriptSound(s) /\ \A q \in Q : q[1] = turnNo.id => s.locked
    BY <1>1, <2>9 DEF HereSound, ScriptSound, Locked
  <2> HIDE DEF c, sealed, s, Q
  <2>11. sealed.script = s /\ sealed.context = c /\ sealed.turnNo = turnNo
         /\ sealed.watch = watch \ {t}
    BY <2>6
  <2>13. sealed \in Heres BY <1>1, <2>5, <2>6, <2>9, HereParts DEF Heres, ContextSound
  <2>14. HereSound(sealed) /\ Locked(sealed)
    BY <2>5, <2>7, <2>8, <2>9, <2>10, <2>11, <2>13 DEF HereSound, Booked, ReservedSound,
       Locked
  <2> QED BY <1>2, <1>4, <2>5, <2>11, <2>14, QuietKeeps DEF Quietly, HistoryInv
<1>5. CASE There(HandleInput(fresh, t))
  <2> DEFINE s == [script EXCEPT !.interrupted = @ /\ t < turnNo.id]
  <2>1. fresh = [Here EXCEPT !.script = s] BY <1>1 DEF Here
  <2>2. /\ s \in HistoryScripts /\ s.reserved = script.reserved /\ s.locked = script.locked
        /\ s.from = script.from /\ s.turn = script.turn
    <3>1. (script.interrupted /\ t < turnNo.id) \in BOOLEAN OBVIOUS
    <3> QED BY <1>1, <3>1 DEF HistoryScripts
  <2> HIDE DEF fresh, s
  <2>3. Booked(fresh) /\ fresh.script = s /\ fresh.context = context /\ fresh.turnNo = turnNo
    BY <1>1, <2>1, <2>2, Rescripted
  <2>4. HereSound(fresh) /\ Locked(fresh) BY <1>1, <2>2, <2>3 DEF HereSound, ScriptSound, Locked
  <2>5. fresh.context.next <= MaxItems
    BY <1>1, ItemsOf, HistoryAssumption, <1>2, <2>3 DEF HistoryAssumption, Room
  <2> DEFINE k == HandleInput(fresh, t)
  <2>6. HereSound(k) /\ Locked(k) /\ Grows(context, k.context)
    BY <1>1, <2>3, <2>4, <2>5, InputSound
  <2> HIDE DEF k
  <2>7. There(k) BY <1>5 DEF k
  <2> QED BY <1>2, <2>6, <2>7, QuietKeeps DEF Quietly, HistoryInv
<1> QED BY <1>3, <1>4, <1>5

\* The transport transcribes the user.
LEMMA InputTranscriptionKeeps ==
  ASSUME HistoryAssumption, HistoryInv, OnInputTranscription PROVE HistoryInv'
<1> DEFINE corrected == IF script.locked \/ script.from = "external" THEN script
                        ELSE [script EXCEPT !.from = "correction"]
           shown == IF script.locked THEN script ELSE [script EXCEPT !.display = TRUE]
           s == IF script.interrupted THEN shown ELSE corrected
           k == [Here EXCEPT !.script = s]
<1>1. /\ HereSound(Here) /\ Locked(Here) /\ Booked(Here) /\ ContextSound(context)
      /\ Here.context = context /\ Here.script = script /\ Here.turnNo = turnNo
              /\ Here.watch = watch
      /\ histCfg.external \in BOOLEAN /\ script \in HistoryScripts
  BY HereNow
<1>2. Quietly /\ There(IF ~histCfg.external THEN HandleInput(Here, 0) ELSE k)
  BY <1>1 DEF OnInputTranscription
<1>3. ScriptSound(script) BY <1>1 DEF HereSound
<1>4. CASE ~histCfg.external
  <2> DEFINE i == HandleInput(Here, 0)
             zero == 0
  <2>1. zero \in Nat /\ zero = 0 OBVIOUS
  <2>2. i = HandleInput(Here, zero) OBVIOUS
  <2> HIDE DEF i, zero
  <2>4. There(i) BY <1>2, <1>4 DEF i
  <2> QED BY <1>2, <2>4, QuietKeeps, <1>1, <2>1, <2>2, InputSound DEF Quietly, HistoryInv
<1>5. CASE histCfg.external
  <2>1. /\ corrected \in HistoryScripts /\ corrected.reserved = script.reserved
        /\ corrected.locked = script.locked /\ ScriptSound(corrected)
    BY <1>1, <1>3 DEF HistoryScripts, ScriptSound
  <2>2. /\ shown \in HistoryScripts /\ shown.reserved = script.reserved
        /\ shown.locked = script.locked /\ ScriptSound(shown)
    BY <1>1, <1>3 DEF HistoryScripts, ScriptSound
  <2> HIDE DEF corrected, shown
  <2>3. /\ s \in HistoryScripts /\ s.reserved = script.reserved /\ s.locked = script.locked
             /\ ScriptSound(s)
    BY <2>1, <2>2
  <2> HIDE DEF s
  <2>4. Booked(k) /\ k.script = s /\ k.context = context /\ k.turnNo = turnNo
    BY <1>1, <2>3, Rescripted
  <2> HIDE DEF k
  <2> QED BY <1>2, <1>5, QuietKeeps, <1>1, <2>3, <2>4, GrowsNot DEF Quietly, HistoryInv, HereSound,
        Locked
<1> QED BY <1>4, <1>5

\* The transport transcribes the model.
LEMMA OutputKeeps == ASSUME HistoryInv, HandleOutput PROVE HistoryInv'
<1> DEFINE s == [script EXCEPT !.output = TRUE]
           k == [Here EXCEPT !.script = s]
<1>1. /\ HereSound(Here) /\ Locked(Here) /\ Booked(Here) /\ ContextSound(context)
      /\ Here.context = context /\ Here.script = script /\ Here.turnNo = turnNo
              /\ Here.watch = watch
      /\ script \in HistoryScripts
  BY HereNow
<1>2. Quietly /\ There(k) BY DEF HandleOutput, Here
<1>3. /\ s \in HistoryScripts /\ s.reserved = script.reserved /\ s.locked = script.locked
           /\ s.from = script.from
      /\ s.turn = script.turn
  BY <1>1 DEF HistoryScripts
<1> HIDE DEF s
<1>4. Booked(k) /\ k.script = s /\ k.context = context /\ k.turnNo = turnNo
  BY <1>1, <1>3, Rescripted
<1> HIDE DEF k
<1> QED BY <1>2, QuietKeeps, <1>1, <1>3, <1>4, GrowsNot DEF Quietly, HistoryInv, HereSound, ScriptSound,
      Locked

\* The model calls a tool.
LEMMA ToolCallEventKeeps ==
  ASSUME HistoryAssumption, HistoryInv, OnToolCall PROVE HistoryInv'
<1> DEFINE f == FlushInput(Here)
           p == IF f.script.output
                THEN [f EXCEPT !.script.prefix = TRUE, !.script.output = FALSE] ELSE f
           s == IF f.script.output
                THEN [f.script EXCEPT !.prefix = TRUE, !.output = FALSE] ELSE f.script
           c == AddItem(f.context, "tool", "final")
           k == [p EXCEPT !.context = AddItem(@, "tool", "final")]
<1>1. /\ HereSound(Here) /\ Locked(Here) /\ ContextSound(context) /\ Here.context = context
      /\ Here.turnNo = turnNo /\ histCfg.external \in BOOLEAN
  BY HereNow
<1>2. Quietly /\ Room(2) /\ There(k) BY DEF OnToolCall
<1>4. HereSound(f) /\ Locked(f) /\ Grows(context, f.context) /\ f.turnNo.id = turnNo.id
  BY <1>1, FlushInputSound, ItemsOf, HistoryAssumption, <1>2 DEF HistoryAssumption, Room
<1>5. /\ f.script \in HistoryScripts /\ ContextSound(f.context) /\ Booked(f)
      /\ f = [script |-> f.script, context |-> f.context, turnNo |-> f.turnNo, watch |-> f.watch]
  <2> HIDE DEF f
  <2> QED BY <1>4, HereParts DEF HereSound
<1> HIDE DEF f
<1>6. /\ s \in HistoryScripts /\ s.reserved = f.script.reserved /\ s.locked = f.script.locked
      /\ s.from = f.script.from /\ s.turn = f.script.turn
  BY <1>5 DEF HistoryScripts
<1>7. p = [f EXCEPT !.script = s] BY <1>5 DEF HistoryScripts
<1> HIDE DEF p, s
<1>8. Booked(p) /\ p.script = s /\ p.context = f.context /\ p.turnNo = f.turnNo
  BY <1>5, <1>6, <1>7, Rescripted
<1>9. k = [p EXCEPT !.context = c] BY <1>8
<1>10. ContextSound(c) /\ Grows(f.context, c) /\ c.pending = f.context.pending
  BY <1>5, AddItemSound
<1> HIDE DEF k, c
<1>11. Booked(k) /\ k.script = s /\ k.context = c /\ k.turnNo = f.turnNo
  BY <1>8, <1>9, <1>10, Recontexted
<1>12. HereSound(k) /\ Locked(k) BY <1>4, <1>6, <1>11 DEF HereSound, ScriptSound, Locked
<1>13. Grows(context, k.context) BY <1>1, <1>4, <1>5, <1>10, <1>11, GrowsTwice
<1> QED BY <1>2, <1>12, <1>13, QuietKeeps DEF Quietly, HistoryInv

\* An utterance that is replayed becomes a message.
LEMMA InterruptedInputKeeps ==
  ASSUME HistoryAssumption, HistoryInv, FinalizeInterruptedInputPartial PROVE HistoryInv'
<1> DEFINE z == CommitUserText(Here)
           s == [z.script EXCEPT !.from = "none", !.turn = 0, !.display = FALSE, !.locked = TRUE]
           k == [z EXCEPT !.script = [ResetInput(@) EXCEPT !.locked = TRUE]]
<1>1. /\ HereSound(Here) /\ Booked(Here) /\ Locked(Here) /\ ContextSound(context)
           /\ Here.context = context
      /\ Here.script = script /\ Here.turnNo = turnNo /\ histCfg.external \in BOOLEAN
  BY HereNow
<1>2. Quietly /\ Room(1) /\ There(k) /\ ~script.locked BY DEF FinalizeInterruptedInputPartial
<1>3. context.next <= MaxItems
  BY <1>1, ItemsOf, HistoryAssumption, <1>2 DEF HistoryAssumption, Room
<1>4. Booked(z) /\ Grows(context, z.context) /\ z.turnNo.id = turnNo.id
  BY <1>1, <1>2, <1>3, CommitSound
<1>5. z.script \in HistoryScripts
  <2> HIDE DEF z
  <2> QED BY <1>4, HereParts
<1> HIDE DEF z
<1>6. k = [z EXCEPT !.script = s] BY <1>5 DEF ResetInput, HistoryScripts
<1>7. /\ s \in HistoryScripts /\ s.reserved = z.script.reserved /\ s.locked /\ s.from = "none"
           /\ s.turn = 0
  BY <1>5 DEF HistoryScripts
<1> HIDE DEF k, s
<1> QED BY <1>2, QuietKeeps, <1>4, <1>7, <1>6, Rescripted DEF Quietly, HistoryInv, HereSound,
      ScriptSound, Locked

\* A reservation times out.
LEMMA SealTimeoutKeeps ==
  ASSUME HistoryInv, NEW t \in 1..MaxHistoryTurns, ReservationTimeout(t) PROVE HistoryInv'
<1> DEFINE k == SealTurns(Here, {t})
<1>1. /\ HereSound(Here) /\ Booked(Here) /\ Locked(Here) /\ ContextSound(context)
           /\ Here.context = context
      /\ Here.script = script /\ Here.turnNo = turnNo /\ script \in HistoryScripts
  BY HereNow
<1>2. Quietly /\ There(k) BY DEF ReservationTimeout
<1>3. /\ Booked(k) /\ Grows(context, k.context) /\ k.turnNo = turnNo
      /\ k.script = [script EXCEPT !.reserved = {r \in @ : r[1] \notin {t}}]
  BY <1>1, SealTurnsSound
<1> HIDE DEF k
<1> QED BY <1>2, <1>3, QuietKeeps, <1>1 DEF Quietly, HistoryInv, HereSound, ScriptSound, Locked,
      HistoryScripts

\* An event that flushes the timeline to the writer.
LEMMA HistoryFlushKeeps ==
  ASSUME HistoryInv, NEW h, HereSound(h), Locked(h), Grows(context, h.context),
         NEW z, ContextSound(z), Grows(FlushedContext(h.context), z), z.pending = h.context.pending,
         There([h EXCEPT !.context = z]),
         NEW w, w = WriterFlush(writer, h.context), writer' \in HistoryWriters,
         \/ writer' = w
         \/ /\ writer'.handed = w.handed
            /\ \E b \in Seq(HistoryItems) :
                    writer'.queue = Append(w.queue, [op |-> "report", batch |-> b])
         \/ writer'.queue = w.queue /\ writer'.handed = w.handed,
         UNCHANGED <<histCfg, stored>>,
         distiller' \in Distillers, distiller'.passed = distiller.passed,
         (histCfg.history /\ ~(histCfg.memory /\ histCfg.notes)) => distiller'.phase = "idle"
  PROVE  HistoryInv'
<1> DEFINE y == FlushedContext(h.context)
           k == [h EXCEPT !.context = z]
<1>1. /\ ContextSound(context) /\ histCfg.history \in BOOLEAN /\ ContextSound(h.context)
           /\ Booked(h)
      /\ writer \in HistoryWriters /\ Flows(writer.queue, stored, context)
      /\ HandedIf(context, writer.handed, distiller.passed)
      /\ writer.handed \in SUBSET Nat /\ distiller.passed \in SUBSET Nat
  BY HereNow, HereParts DEF HistoryInv, HereSound
<1>2. /\ w \in HistoryWriters /\ w.phase = writer.phase
      /\ ContextSound(y) /\ Flows(w.queue, stored, y)
      /\ HandedIf(y, w.handed, distiller.passed)
  <2>1. Flows(writer.queue, stored, h.context) BY <1>1, FlowsGrows
  <2>2. HandedIf(h.context, writer.handed, distiller.passed) BY <1>1, HandedIfGrows
  <2> HIDE DEF y
  <2>3. y = FlushedContext(h.context) BY DEF y
  <2> QED BY <1>1, <2>1, <2>2, <2>3, FlushedSound
<1>3. /\ Flows(w.queue, stored, z) /\ w \in HistoryWriters
      /\ HandedIf(z, w.handed, distiller.passed)
  <2> HIDE DEF y
  <2>1. w.handed \in SUBSET Nat /\ Grows(y, z) BY <1>2 DEF HistoryWriters, y
  <2> QED BY <1>1, <1>2, <2>1, FlowsGrows, HandedIfGrows
<1>4. There(k) OBVIOUS
<1>5. Booked(k) /\ k.script = h.script /\ k.context = z /\ k.turnNo = h.turnNo
      /\ k.watch = h.watch
  BY <1>1, Recontexted
<1> HIDE DEF k, y
<1>6. HereSound(k) /\ Locked(k) BY <1>5 DEF HereSound, Locked
<1>7. Here' = k /\ context' = z BY <1>4, <1>5, HereIs
<1>8. Flows(writer'.queue, stored, z) /\ writer'.handed = w.handed
  <2>1. CASE writer'.queue = w.queue /\ writer'.handed = w.handed BY <1>3, <2>1
  <2>2. ASSUME writer'.handed = w.handed, NEW b \in Seq(HistoryItems),
               writer'.queue = Append(w.queue, [op |-> "report", batch |-> b])
        PROVE  Flows(writer'.queue, stored, z)
    <3> DEFINE job == [op |-> "report", batch |-> b]
               q == w.queue
    <3>1. job \in WriteJobs /\ job.op # "items" /\ q \in Seq(WriteJobs)
      BY <1>3 DEF WriteJobs, HistoryWriters
    <3> HIDE DEF job, q
    <3>3. /\ writer'.queue \in Seq(WriteJobs) /\ Len(writer'.queue) = Len(q) + 1 /\ Len(q) \in Nat
          /\ \A p \in 1..Len(q) : writer'.queue[p] = q[p]
          /\ writer'.queue[Len(q) + 1] = job
      BY <3>1, AppendProperties, LenProperties, <2>2 DEF job, q
    <3>4. \A p \in 1..Len(writer'.queue) : writer'.queue[p].op = "items" =>
             p \in 1..Len(q) /\ writer'.queue[p] = q[p]
      BY <3>3, <3>1
    <3>5. Flows(q, stored, z) BY <1>3 DEF q
    <3> QED BY <3>3, <3>4, <3>5 DEF Flows
  <2> QED BY <2>1, <2>2
<1>10. HereSound(Here)' /\ Locked(Here)'
  BY <1>6, <1>7 DEF HereSound, Booked, ReservedSound, ScriptSound, Locked, Here
<1> QED BY <1>10, <1>7, <1>8, <1>3 DEF HistoryInv, Handed, HandedIf

\* A turn ends.
LEMMA HistoryTurnKeeps ==
  ASSUME HistoryAssumption, HistoryInv, NEW interrupted \in BOOLEAN, NEW note \in BOOLEAN,
         FinalizeTurn(interrupted, note)
  PROVE  HistoryInv'
<1> DEFINE f == Flush(Here)
           s == [f.script EXCEPT !.interrupted = interrupted]
           n == [f.turnNo EXCEPT !.id = @ + 1, !.finalized = {t \in @ : t >= turnNo.id}]
           a == [f EXCEPT !.script.interrupted = interrupted, !.turnNo.id = @ + 1,
                          !.turnNo.finalized = {t \in @ : t >= turnNo.id}]
           y == FlushedContext(a.context)
           z == Injected(y, note)
           told == [a EXCEPT !.context = Injected(FlushedContext(@), note)]
<1>1. /\ HereSound(Here) /\ Locked(Here) /\ ContextSound(context) /\ Here.context = context
      /\ Here.turnNo = turnNo /\ histCfg.external \in BOOLEAN /\ turnNo.id \in 1..MaxHistoryTurns
  BY HereNow
<1>2. /\ Room(IF note THEN 3 ELSE 2) /\ turnNo.id < MaxHistoryTurns /\ There(told)
      /\ note => histCfg.notes
      /\ writer' = WriterFlush(writer, a.context)
              /\ distiller' = OnTurnEnd(distiller, told.context)
      /\ UNCHANGED <<histCfg, stored>>
  BY DEF FinalizeTurn
<1>3. context.next <= MaxItems /\ MaxHistoryTurns \in Nat
  BY <1>1, ItemsOf, HistoryAssumption, <1>2 DEF HistoryAssumption, Room
<1>4. /\ HereSound(f) /\ Grows(context, f.context) /\ f.turnNo.id = turnNo.id
      /\ f.script.from = "none" /\ f.script.turn = 0 /\ ~f.script.locked
  BY <1>1, <1>3, HistoryFlushSound
<1>5. /\ f.script \in HistoryScripts /\ Booked(f)
           /\ f.turnNo \in [id : 1..MaxHistoryTurns, finalized : SUBSET Nat]
      /\ f = [script |-> f.script, context |-> f.context, turnNo |-> f.turnNo, watch |-> f.watch]
      /\ f \in Heres /\ f.turnNo.finalized \in SUBSET Nat
  <2> HIDE DEF f
  <2> QED BY <1>4, HereParts DEF HereSound, Booked
<1> HIDE DEF f
<1>6. a = [script |-> s, context |-> f.context, turnNo |-> n, watch |-> f.watch]
  <2>2. a = [f EXCEPT !.script = s, !.turnNo = n] BY <1>5
  <2> HIDE DEF s, n, a
  <2> QED BY <1>5, <2>2
<1>7. /\ s \in HistoryScripts /\ s.reserved = f.script.reserved /\ s.from = "none" /\ s.turn = 0
           /\ ~s.locked
  BY <1>4, <1>5 DEF HistoryScripts
<1>8. n \in [id : 1..MaxHistoryTurns, finalized : SUBSET Nat] /\ n.id = turnNo.id + 1
  <2>1. turnNo.id + 1 \in 1..MaxHistoryTurns BY <1>1, <1>2, <1>3
  <2> QED BY <1>4, <1>5, <2>1
<1> HIDE DEF s, n, a
<1>9. a.script = s /\ a.context = f.context /\ a.turnNo = n /\ a.watch = f.watch BY <1>6
<1>12. HereSound(a)
  BY <1>5, <1>7, <1>9, <1>6, <1>8, <1>3, <1>4, <1>1 DEF HereSound, Booked, ScriptSound, Heres,
      ReservedSound, HistoryScripts
<1>13. Locked(a)
  BY <1>3, <1>4, <1>5, <1>1, <1>7, <1>8, <1>9 DEF Booked, ReservedSound, HistoryScripts, Locked
<1>14. told = [a EXCEPT !.context = z] /\ told.context = z BY <1>6
<1>17. Grows(context, a.context) BY <1>4, <1>9
<1> DEFINE w == WriterFlush(writer, a.context)
<1>18. /\ w \in HistoryWriters /\ ContextSound(y) /\ y.pending = a.context.pending
       /\ histCfg.history => ItemsSinceCheckpoint(y) = <<>>
  <2>1. ContextSound(a.context) BY <1>12 DEF HereSound, Booked
  <2>2. /\ writer \in HistoryWriters /\ Flows(writer.queue, stored, context)
             /\ histCfg.history \in BOOLEAN
        /\ HandedIf(context, writer.handed, distiller.passed)
        /\ writer.handed \in SUBSET Nat /\ distiller.passed \in SUBSET Nat
    BY HereNow DEF HistoryInv
  <2>3. /\ Flows(writer.queue, stored, a.context)
        /\ HandedIf(a.context, writer.handed, distiller.passed)
    BY <1>1, <1>17, <2>1, <2>2, FlowsGrows, HandedIfGrows
  <2>4. w = WriterFlush(writer, a.context) /\ y = FlushedContext(a.context) OBVIOUS
  <2> HIDE DEF w, y
  <2> QED BY <2>1, <2>2, <2>3, <2>4, FlushedSound
<1> HIDE DEF y
<1>19. ContextSound(z) /\ Grows(y, z) /\ z.pending = a.context.pending /\ (~note => z = y)
  <2>1. ContextSound(AddItem(y, "assistant", "final")) /\ Grows(y, AddItem(y, "assistant", "final"))
        /\ AddItem(y, "assistant", "final").pending = y.pending
    BY <1>18, AddItemSound
  <2> QED BY <1>18, <2>1, GrowsNot DEF Injected
<1> HIDE DEF z
<1>20. /\ distiller' \in Distillers /\ distiller'.passed = distiller.passed
       /\ (histCfg.history /\ ~(histCfg.memory /\ histCfg.notes)) => distiller'.phase = "idle"
  <2> DEFINE d == distiller
             ticks == (d.turns + 1) % MemoryTurns
             c == [d EXCEPT !.turns = ticks]
  <2>1. d \in Distillers /\ histCfg.memory \in BOOLEAN /\ histCfg.notes \in BOOLEAN
    BY DEF HistoryInv
  <2>2. ticks \in Nat BY <2>1, HistoryAssumption DEF Distillers, HistoryAssumption
  <2>3. distiller' = OnTurnEnd(d, z) BY <1>2, <1>14
  <2>4. distiller' = IF ~histCfg.memory THEN d ELSE IF c.turns = 0 THEN StartExtraction(c, z) ELSE c
    BY <2>3 DEF OnTurnEnd
  <2> HIDE DEF ticks
  <2>5. c \in Distillers /\ c.passed = d.passed /\ c.phase = d.phase BY <2>1, <2>2 DEF Distillers
  <2> HIDE DEF c
  <2>6. /\ StartExtraction(c, z) \in Distillers /\ StartExtraction(c, z).passed = d.passed
        /\ ItemsSinceCheckpoint(z) = <<>> => StartExtraction(c, z).phase = d.phase
    BY <2>5 DEF StartExtraction, Distillers
  <2>7. distiller' \in Distillers /\ distiller'.passed = d.passed BY <2>1, <2>4, <2>5, <2>6
  <2>8. ASSUME histCfg.history, ~(histCfg.memory /\ histCfg.notes) PROVE distiller'.phase = "idle"
    <3>1. d.phase = "idle" BY <2>8 DEF HistoryInv
    <3>2. CASE ~histCfg.memory BY <2>4, <3>1, <3>2
    <3>3. CASE ~histCfg.notes
      <4>1. ItemsSinceCheckpoint(z) = <<>> BY <1>2, <1>18, <1>19, <2>8, <3>3
      <4> QED BY <2>1, <2>4, <2>5, <2>6, <3>1, <4>1
    <3> QED BY <2>1, <2>8, <3>2, <3>3
  <2> QED BY <2>7, <2>8
<1> HIDE DEF w
<1>21. /\ There([a EXCEPT !.context = z]) /\ Grows(FlushedContext(a.context), z)
       /\ w = WriterFlush(writer, a.context) /\ writer' = w
  BY <1>2, <1>14, <1>19 DEF y, w
<1> QED BY <1>2, <1>12, <1>13, <1>17, <1>18, <1>19, <1>20, <1>21, HistoryFlushKeeps

\* What reset and close flush: the transcripts with no reservation left.
LEMMA SealedSound ==
  ASSUME HistoryAssumption, HistoryInv, Room(2), NEW k, k = SealTurns(Flush(Here), AllTurns)
  PROVE  /\ HereSound(k) /\ Locked(k) /\ Grows(context, k.context)
         /\ k.script.reserved = {} /\ k.context.pending = {} /\ k.turnNo.id = turnNo.id
<1> DEFINE f == Flush(Here)
<1>1. /\ HereSound(Here) /\ Locked(Here) /\ ContextSound(context) /\ Here.context = context
      /\ Here.turnNo = turnNo /\ histCfg.external \in BOOLEAN
  BY HereNow
<1>2. context.next <= MaxItems /\ MaxHistoryTurns \in Nat
  BY <1>1, ItemsOf, HistoryAssumption DEF HistoryAssumption, Room
<1>3. /\ HereSound(f) /\ Grows(context, f.context) /\ f.turnNo.id = turnNo.id
      /\ f.script.from = "none" /\ f.script.turn = 0
  BY <1>1, <1>2, HistoryFlushSound
<1>4. k = SealTurns(f, AllTurns) OBVIOUS
<1> HIDE DEF f
<1>5. Booked(f) /\ f.script \in HistoryScripts /\ ContextSound(f.context)
  BY <1>3, HereParts DEF HereSound
<1>6. /\ Booked(k) /\ Grows(f.context, k.context) /\ k.turnNo = f.turnNo
      /\ k.script = [f.script EXCEPT !.reserved = {r \in @ : r[1] \notin AllTurns}]
  BY <1>4, <1>5, SealTurnsSound
<1>7. k.script.reserved = {} BY <1>2, <1>5, <1>6 DEF HistoryScripts, AllTurns
<1> QED BY <1>3, <1>6, <1>7, <1>5, <1>1, GrowsTwice DEF HereSound, ScriptSound, Locked, HistoryScripts,
      Booked, ReservedSound

\* The session closes.
LEMMA HistoryCloseKeeps == ASSUME HistoryAssumption, HistoryInv, CloseHistory PROVE HistoryInv'
<1> DEFINE k == SealTurns(Flush(Here), AllTurns)
           w == WriterFlush(writer, k.context)
           y == FlushedContext(k.context)
<1>1. /\ Room(2) /\ There([k EXCEPT !.context = FlushedContext(@)])
      /\ writer' = [EnqueueWrite(w, "report", k.context.items) EXCEPT !.phase = "closed"]
      /\ UNCHANGED <<histCfg, stored, distiller>>
  BY DEF CloseHistory
<1>2. /\ HereSound(k) /\ Locked(k) /\ Grows(context, k.context) BY <1>1, SealedSound
<1>3. k = [script |-> k.script, context |-> k.context, turnNo |-> k.turnNo, watch |-> k.watch]
      /\ ContextSound(k.context)
  <2> HIDE DEF k
  <2> QED BY <1>2, HereParts DEF HereSound
<1> HIDE DEF k
<1>4. There([k EXCEPT !.context = FlushedContext(k.context)]) BY <1>1, <1>3
<1>5. ContextSound(context) /\ histCfg.history \in BOOLEAN BY HereNow
<1>6. w \in HistoryWriters /\ ContextSound(y) /\ y.pending = k.context.pending
  <2>1. /\ writer \in HistoryWriters /\ Flows(writer.queue, stored, context)
        /\ HandedIf(context, writer.handed, distiller.passed)
        /\ writer.handed \in SUBSET Nat /\ distiller.passed \in SUBSET Nat
    BY HereNow DEF HistoryInv
  <2>2. /\ Flows(writer.queue, stored, k.context)
        /\ HandedIf(k.context, writer.handed, distiller.passed)
    BY <1>2, <1>3, <1>5, <2>1, FlowsGrows, HandedIfGrows
  <2>3. w = WriterFlush(writer, k.context) /\ y = FlushedContext(k.context) OBVIOUS
  <2> HIDE DEF w, y
  <2> QED BY <1>3, <1>5, <2>1, <2>2, <2>3, FlushedSound
<1>7. k.context.items \in Seq(HistoryItems) BY <1>3, ItemsOf
<1> DEFINE b == k.context.items
           job == [op |-> "report", batch |-> b]
<1>8. w = WriterFlush(writer, k.context) OBVIOUS
<1> HIDE DEF w
<1>9. /\ writer' \in HistoryWriters /\ writer'.handed = w.handed
      /\ writer'.queue = Append(w.queue, job) \/ writer'.queue = w.queue
  <2>1. w = [queue |-> w.queue, handed |-> w.handed, phase |-> w.phase]
        /\ w.queue \in Seq(WriteJobs)
        /\ w.handed \in SUBSET Nat
    BY <1>6 DEF HistoryWriters
  <2>2. job \in WriteJobs BY <1>7 DEF WriteJobs
  <2>3. Append(w.queue, job) \in Seq(WriteJobs) BY <2>1, <2>2, AppendProperties
  <2>4. CASE histCfg.history
    <3>1. writer' = [queue |-> Append(w.queue, job), handed |-> w.handed, phase |-> "closed"]
      BY <1>1, <2>1, <2>4 DEF EnqueueWrite
    <3> HIDE DEF job
    <3> QED BY <2>1, <2>3, <3>1 DEF HistoryWriters
  <2>5. CASE ~histCfg.history BY <1>1, <2>1, <2>5 DEF EnqueueWrite, HistoryWriters
  <2> QED BY <2>4, <2>5
<1>10. Grows(y, y)
  <2> HIDE DEF y
  <2> QED BY <1>6, GrowsNot
<1>11. distiller' \in Distillers /\ distiller'.passed = distiller.passed
       /\ ((histCfg.history /\ ~(histCfg.memory /\ histCfg.notes)) => distiller'.phase = "idle")
  BY <1>1 DEF HistoryInv
<1> QED BY <1>1, <1>2, <1>4, <1>6, <1>8, <1>9, <1>10, <1>11, HistoryFlushKeeps, <1>7

\* The timeline starts over: what was written is older than all to come.
LEMMA ResetHistoryKeeps == ASSUME HistoryAssumption, HistoryInv,
  ResetConversationContext PROVE HistoryInv'
<1> DEFINE k == SealTurns(Flush(Here), AllTurns)
           w == WriterFlush(writer, k.context)
           y == FlushedContext(k.context)
           c == ClearContext(k.context)
           z == [k EXCEPT !.context = c]
<1>1. /\ Room(2) /\ There([k EXCEPT !.context = ClearContext(@)])
      /\ writer' = w /\ UNCHANGED <<histCfg, stored, distiller>>
  BY DEF ResetConversationContext
<1>2. /\ HereSound(k) /\ Locked(k) /\ Grows(context, k.context) /\ k.script.reserved = {}
           /\ k.context.pending = {}
  BY <1>1, SealedSound
<1>3. k = [script |-> k.script, context |-> k.context, turnNo |-> k.turnNo, watch |-> k.watch]
      /\ ContextSound(k.context) /\ Booked(k) /\ k.context \in HistoryContexts
  <2> HIDE DEF k
  <2> QED BY <1>2, HereParts DEF HereSound
<1> HIDE DEF k
<1>4. There(z) BY <1>1, <1>3
<1>5. ContextSound(context) /\ histCfg.history \in BOOLEAN BY HereNow
<1>7. c \in HistoryContexts /\ c.items = <<>> /\ c.checkpoint = 0 /\ c.pending = {}
      /\ c.next = k.context.next
  <2> DEFINE e == <<>>
             n == {}
             m == 0
             x == k.context
  <2>1. c = [x EXCEPT !.items = e, !.checkpoint = m, !.pending = n] BY DEF ClearContext
  <2>2. e \in Seq(HistoryItems) /\ m \in Nat /\ n \in SUBSET Nat BY EmptySeq
  <2> HIDE DEF c, e, m, n
  <2>3. /\ c.items = e /\ c.checkpoint = m /\ c.pending = n /\ c.next = x.next
             /\ c \in HistoryContexts
    <3>1. x \in HistoryContexts BY <1>3
    <3> HIDE DEF x
    <3> QED BY <2>1, <2>2, <3>1 DEF HistoryContexts
  <2> QED BY <2>3 DEF e, m, n
<1> HIDE DEF c
<1>8. ContextSound(c) BY <1>7, EmptySeq DEF ContextSound
<1>9. Booked(z) /\ z.script = k.script /\ z.context = c /\ z.turnNo = k.turnNo
  BY <1>2, <1>3, <1>7, <1>8, Recontexted
<1>10. HereSound(z) /\ Locked(z) BY <1>2, <1>9 DEF HereSound, Locked
<1> HIDE DEF z
<1>11. Here' = z /\ context' = c BY <1>4, <1>9, HereIs
<1>12. w \in HistoryWriters /\ Flows(w.queue, stored, y) /\ y.next = k.context.next
       /\ HandedIf(y, w.handed, distiller.passed)
  <2>1. /\ writer \in HistoryWriters /\ Flows(writer.queue, stored, context)
        /\ HandedIf(context, writer.handed, distiller.passed)
        /\ writer.handed \in SUBSET Nat /\ distiller.passed \in SUBSET Nat
    BY HereNow DEF HistoryInv
  <2>2. /\ Flows(writer.queue, stored, k.context)
        /\ HandedIf(k.context, writer.handed, distiller.passed)
    BY <1>2, <1>3, <1>5, <2>1, FlowsGrows, HandedIfGrows
  <2>3. w = WriterFlush(writer, k.context) /\ y = FlushedContext(k.context) OBVIOUS
  <2> HIDE DEF w, y
  <2> QED BY <1>3, <1>5, <2>1, <2>2, <2>3, FlushedSound
<1> HIDE DEF w, y
<1>13. Flows(w.queue, stored, c) BY <1>12, <1>7, EmptySeq DEF Flows, Behind
<1>14. HandedIf(c, w.handed, distiller.passed) BY <1>12, <1>7, EmptySeq DEF Handed, HandedIf
<1>15. /\ writer' \in HistoryWriters /\ distiller' \in Distillers
       /\ (histCfg.history /\ ~(histCfg.memory /\ histCfg.notes)) =>
            distiller'.phase = "idle" /\ distiller.passed = {}
       /\ writer'.queue = w.queue /\ writer'.handed = w.handed /\ stored' = stored
       /\ distiller'.passed = distiller.passed /\ UNCHANGED histCfg
  BY <1>1, <1>12 DEF HistoryInv
<1> QED BY <1>10, <1>11, <1>13, <1>14, <1>15, HistoryPutTogether

\* An extraction moves the checkpoint, over what is then passed if the session is
\* recorded.
LEMMA ExtractionKeeps ==
  ASSUME HistoryInv, NEW ok \in BOOLEAN, ExtractionEnds(ok) PROVE HistoryInv'
<1> DEFINE b == ItemsSinceCheckpoint(context)
           new == {b[i].id : i \in DOMAIN b}
           none == histCfg.history /\ ~(histCfg.memory /\ histCfg.notes)
<1>1. /\ distiller.phase = "asking" /\ UNCHANGED <<histCfg, script, turnNo, watch, writer, stored>>
      /\ context' = IF ok THEN MarkCheckpoint(context) ELSE context
      /\ distiller' = [distiller EXCEPT !.phase = "idle",
            !.passed = IF ok /\ histCfg.history THEN @ \cup new ELSE @]
  BY DEF ExtractionEnds
<1>5. ~none /\ distiller \in Distillers /\ histCfg.history \in BOOLEAN BY <1>1 DEF HistoryInv
<1> HIDE DEF new
<1>6. /\ distiller'.passed = IF ok /\ histCfg.history THEN distiller.passed \cup new
                             ELSE distiller.passed
      /\ new \in SUBSET Nat => distiller' \in Distillers
      /\ ~(ok /\ histCfg.history) => distiller' \in Distillers
  BY <1>1, <1>5 DEF Distillers
<1>2. HereSound(Here) /\ Locked(Here) /\ Booked(Here) /\ ContextSound(context)
      /\ Here.context = context
  BY HereNow
<1>3. CASE ~ok
  <2>1. /\ Here' = Here /\ context' = context /\ stored' = stored /\ UNCHANGED histCfg
        /\ writer' \in HistoryWriters /\ writer'.queue = writer.queue
        /\ writer'.handed = writer.handed
        /\ distiller' \in Distillers /\ distiller'.passed = distiller.passed
    BY <1>1, <1>3, <1>6 DEF HistoryInv, Here
  <2>2. /\ Flows(writer.queue, stored, context)
        /\ HandedIf(context, writer.handed, distiller.passed)
    BY DEF HistoryInv
  <2> QED BY <1>2, <1>5, <2>1, <2>2, HistoryPutTogether
<1>4. CASE ok
  <2> DEFINE y == MarkCheckpoint(context)
             z == [Here EXCEPT !.context = y]
  <2>1. ContextSound(y) /\ y.pending = context.pending BY <1>2, CheckpointSound
  <2>2. Flows(writer.queue, stored, context) BY DEF HistoryInv
  <2>3. \A l \in Seq(HistoryItems) : Behind(l, context) => Behind(l, y) BY <1>2, HistoryBatchSound
  <2>4. y = context' BY <1>1, <1>4
  <2>5. histCfg.history => /\ new \in SUBSET Nat
                           /\ Handed(y, writer.handed, distiller.passed \cup new)
    <3>1. /\ writer.handed \in SUBSET Nat /\ distiller.passed \in SUBSET Nat
          /\ HandedIf(context, writer.handed, distiller.passed)
      BY HereNow DEF HistoryInv
    <3>2. HasIds(new, b) BY DEF HasIds, new
    <3>3. CASE histCfg.history
      <4>1. Handed(context, writer.handed, distiller.passed) BY <3>1, <3>3 DEF HandedIf
      <4> QED BY <1>2, <3>1, <3>2, <4>1, HandsOver
    <3> QED BY <3>3
  <2> HIDE DEF y
  <2>6. HereSound(z) /\ Locked(z) BY <1>2, <2>1, Recontexted DEF HereSound, Locked
  <2>7. Here' = z BY <1>1, <2>4 DEF Here
  <2> HIDE DEF z
  <2>8. HereSound(Here)' /\ Locked(Here)'
    BY <2>6, <2>7 DEF HereSound, Booked, ReservedSound, ScriptSound, Locked, Here
  <2>9. /\ \A k \in HistoryStores : stored[k].log \in Seq(HistoryItems)
        /\ \A p \in 1..Len(writer.queue) : writer.queue[p].batch \in Seq(HistoryItems)
    <3>1. \A p \in 1..Len(writer.queue) : writer.queue[p] \in WriteJobs
      BY <2>2, ElementOfSeq DEF Flows
    <3> QED BY <2>2, <3>1 DEF Flows, StoreRecords, WriteJobs
  <2>10. Flows(writer.queue, stored, y) BY <2>2, <2>3, <2>9 DEF Flows
  <2>11. HandedIf(context, writer.handed, distiller.passed)'
    BY <1>1, <1>4, <1>6, <2>4, <2>5 DEF Handed, HandedIf
  <2> QED BY <1>1, <1>4, <1>5, <1>6, <2>8, <2>4, <2>5, <2>10, <2>11 DEF HistoryInv, Flows, Handed, HandedIf
<1> QED BY <1>3, <1>4

\* The timeline that is resumed holds one item, which attach has written.
LEMMA HistoryStarts == ASSUME HistoryAssumption, HistoryInit PROVE HistoryInv
<1> DEFINE one == Item(1, "user", "final")
           l == <<one>>
           none == histCfg.mode = "none"
           attach == histCfg.mode = "attach"
<1>1. one \in HistoryItems /\ one.id = 1 /\ l \in Seq(HistoryItems) /\ Len(l) = 1 /\ l[1] = one
      /\ <<>> \in Seq(HistoryItems) /\ Len(<<>>) = 0
  <2>1. one \in HistoryItems /\ one.id = 1 BY DEF Item, HistoryItems
  <2> HIDE DEF one
  <2> QED BY <2>1, EmptySeq
<1> HIDE DEF one
<1>2. histCfg \in [mode : HistoryModes, external : BOOLEAN, history : BOOLEAN, memory : BOOLEAN,
                    notes : BOOLEAN]
      /\ histCfg.mode \in {"none", "copy", "attach"}
  BY HistoryAssumption DEF HistoryInit, HistoryAssumption
<1>3. context = [items |-> IF none THEN <<>> ELSE l, checkpoint |-> IF attach THEN 1 ELSE 0,
                 pending |-> {}, next |-> IF none THEN 1 ELSE 2]
  BY DEF HistoryInit, one
<1>4. attach => ~none OBVIOUS
<1> HIDE DEF none, l
<1>5. /\ context.items \in Seq(HistoryItems) /\ context.items = (IF none THEN <<>> ELSE l)
      /\ context.checkpoint = IF attach THEN 1 ELSE 0
      /\ context.pending = {} /\ context.next = (IF none THEN 1 ELSE 2)
  BY <1>1, <1>3
<1> HIDE DEF attach
<1>6. context \in HistoryContexts BY <1>3, <1>5 DEF HistoryContexts
<1>7. /\ none => Len(context.items) = 0
      /\ ~none => Len(context.items) = 1 /\ context.items[1] = one
  BY <1>1, <1>5
<1>8. ContextSound(context)
  <2>1. \A i \in 1..Len(context.items) : i = 1 /\ ~none /\ context.items[i].id = 1
    <3>1. CASE none BY <1>7, <3>1
    <3>2. CASE ~none
      <4>2. 1..1 = {1} OBVIOUS
      <4> QED BY <1>1, <3>2, <4>2, <1>7
    <3> QED BY <3>1, <3>2
  <2> QED BY <1>5, <1>6, <1>4, <1>7, <2>1 DEF ContextSound
<1>9. script \in HistoryScripts /\ script.reserved = {} /\ ~script.locked /\ script.from = "none"
      /\ script.turn = 0
  BY DEF HistoryInit, EmptyScript, HistoryScripts
<1>10. turnNo \in [id : 1..MaxHistoryTurns, finalized : SUBSET Nat] /\ watch = {}
  BY HistoryAssumption DEF HistoryAssumption, HistoryInit
<1>11. Here \in Heres /\ Here.script = script /\ Here.context = context /\ Here.watch = watch
       /\ Here.turnNo = turnNo
  BY <1>6, <1>9, <1>10 DEF Here, Heres
<1>12. HereSound(Here) /\ Locked(Here)
  BY <1>5, <1>9, <1>10, <1>11, <1>8 DEF ReservedSound, HereSound, Booked, ScriptSound, Locked
<1> DEFINE job == [op |-> "open", batch |-> <<>>]
           q == IF histCfg.history THEN <<job>> ELSE <<>>
<1>13. job \in WriteJobs /\ job.op = "open" BY <1>1 DEF WriteJobs
<1>14. writer = [queue |-> q, handed |-> {}, phase |-> "open"] BY DEF HistoryInit
<1> HIDE DEF job
<1>15. q \in Seq(WriteJobs) /\ \A p \in 1..Len(q) : q[p] = job BY <1>13, EmptySeq
<1> HIDE DEF q
<1>16. writer \in HistoryWriters /\ writer.queue = q /\ writer.handed = {}
  BY <1>14, <1>15 DEF HistoryWriters
<1>18. Ascends(<<>>) /\ Behind(<<>>, context) /\ Ascends(l) BY <1>1 DEF Ascends, Behind, l
<1>19. attach => Behind(l, context) BY <1>1, <1>4, <1>5, <1>7 DEF Behind, l
<1>20. Flows(writer.queue, stored, context)
  BY <1>13, <1>15, <1>16, <1>18, <1>19, <1>1 DEF Flows, HistoryInit, attach, l, one, StoreRecords
<1>21. distiller \in Distillers /\ distiller.phase = "idle" /\ distiller.passed = {}
  BY DEF HistoryInit, NoDistiller, Distillers
<1>22. Handed(context, writer.handed, distiller.passed)
  BY <1>1, <1>4, <1>5, <1>7, <1>16, <1>21 DEF Handed, attach
<1> QED BY <1>2, <1>12, <1>16, <1>20, <1>21, <1>22 DEF HistoryInv, HandedIf

\* The inductive invariant of the history: numbered timelines, watched reservations,
\* logs that ascend behind the checkpoint, and what an extraction passed apart from
\* what was handed over, whatever is spoken, written or lost.
THEOREM HistoryInductive == HistorySpec => []HistoryInv
<1>1. HistoryInit => HistoryInv BY HistoryAssumption, HistoryStarts
<1>2. HistoryInv /\ [HistoryNext]_historyVars => HistoryInv'
  <2> SUFFICES ASSUME HistoryInv, [HistoryNext]_historyVars PROVE HistoryInv' OBVIOUS
  <2>1. CASE UNCHANGED historyVars
    BY <2>1 DEF HistoryInv, historyVars, Here, HereSound, Booked, ReservedSound,
       ScriptSound, Locked, Handed, HandedIf
  <2>2. CASE HistoryNext
    <3>1. ASSUME NEW t \in 1..MaxHistoryTurns, OnTranscript(t)
                 \/ ReservationTimeout(t) PROVE HistoryInv'
      BY <3>1, HistoryAssumption, TranscriptKeeps, SealTimeoutKeeps
    <3>2. ASSUME OnInputTranscription \/ HandleOutput \/ OnToolCall
                 \/ FinalizeInterruptedInputPartial
          PROVE  HistoryInv'
      BY <3>2, HistoryAssumption, InputTranscriptionKeeps, OutputKeeps,
         ToolCallEventKeeps, InterruptedInputKeeps
    <3>3. ASSUME NEW b \in BOOLEAN, (\E note \in BOOLEAN : FinalizeTurn(b, note)) \/ ExtractionEnds(b)
          PROVE  HistoryInv'
      BY <3>3, HistoryAssumption, HistoryTurnKeeps, ExtractionKeeps
    <3>4. ASSUME ResetConversationContext \/ CloseHistory PROVE HistoryInv'
      BY <3>4, HistoryAssumption, ResetHistoryKeeps, HistoryCloseKeeps
    <3> QED BY <2>2, <3>1, <3>2, <3>3, <3>4, HistoryWriteKeeps DEF HistoryNext
  <2> QED BY <2>1, <2>2
<1> QED BY <1>1, <1>2, PTL DEF HistorySpec

\* The history is written once, in order and in its final words, nothing holds it
\* back for ever, and only an extraction makes it skip an item: HistoryIsFaithful.
THEOREM HistoryKept == HistorySpec => []HistoryIsFaithful
<1>1. HistoryInv => HistoryIsFaithful
  <2> SUFFICES ASSUME HistoryInv PROVE HistoryIsFaithful OBVIOUS
  <2>1. /\ Booked(Here) /\ ContextSound(context) /\ Here.context = context /\ Here.script = script
        /\ Here.watch = watch /\ Here.turnNo = turnNo /\ script \in HistoryScripts
        /\ Flows(writer.queue, stored, context)
    BY HereNow DEF HistoryInv
  <2>2. /\ context.items \in Seq(HistoryItems) /\ DOMAIN context.items = 1..Len(context.items)
        /\ context.checkpoint \in 0..Len(context.items)
    BY <2>1, ItemsOf
  <2>3. HistoryTypeOK BY <2>1, HereParts, <2>2 DEF HistoryScripts, ContextSound, HistoryTypeOK
  <2>4. BarrierIsWatched BY <2>1 DEF Booked, ReservedSound, BarrierIsWatched
  <2>5. PersistedOnceAndFinal
    <3>1. \A k \in HistoryStores : DOMAIN stored[k].log = 1..Len(stored[k].log)
      BY <2>1 DEF Flows, StoreRecords
    <3>2. \A k \in HistoryStores : Ascends(stored[k].log) /\ Behind(stored[k].log, context)
      BY <2>1 DEF Flows
    <3>3. ASSUME NEW k \in HistoryStores
          PROVE  /\ \A i, j \in DOMAIN stored[k].log : i < j
                      => stored[k].log[i].id < stored[k].log[j].id
                 /\ \A i \in DOMAIN stored[k].log, j \in DOMAIN context.items :
                      stored[k].log[i].id = context.items[j].id
                        => stored[k].log[i] = context.items[j]
      <4> DEFINE l == stored[k].log
      <4>1. DOMAIN l = 1..Len(l) /\ Ascends(l) /\ Behind(l, context) BY <3>1, <3>2
      <4> HIDE DEF l
      <4> QED BY <4>1, <2>2 DEF l, Ascends, Behind
    <3> QED BY <3>3 DEF PersistedOnceAndFinal
  <2>6. EveryItemIsWritten BY DEF HistoryInv, Handed, HandedIf, EveryItemIsWritten
  <2> QED BY <2>3, <2>4, <2>5, <2>6 DEF HistoryIsFaithful
<1> QED BY <1>1, HistoryInductive, PTL

-----------------------------------------------------------------------------
(* Direct inputs and declarations.                                         *)

\* The record of the inputs, and that of the declarations.
Bodies == [n : Nat, kind : {"typed", "transcript", "fix"}, turn : Nat]

InputRecord ==
  [waits : BOOLEAN, up : BOOLEAN, mode : {"agent", "transcription"}, hold : BOOLEAN, turn : Nat,
   open : BOOLEAN, token : BOOLEAN, origin : {"none", "user_text", "assistant_initiated"},
   given : Nat, chain : Seq(Bodies), busy : BOOLEAN, cut : Nat, sent : Seq(Nat), held : Seq(Nat),
   lost : SUBSET Nat, recorded : Seq(Nat), buffer : Nat, synthetic : Nat, recoveries : Nat,
   flips : Nat, seeded : BOOLEAN, leaked : BOOLEAN, stale : BOOLEAN, talkedOver : BOOLEAN,
   bound : BOOLEAN]

\* The bodies that wait are numbered in the order of the calls.
ChainSound(i) ==
  /\ \A a \in 1..Len(i.chain) : i.chain[a].n <= i.given
  /\ \A a, b \in 1..Len(i.chain) : a < b => i.chain[a].n < i.chain[b].n

\* What left the chain is older than m.
Older(i, m) ==
  /\ \A a \in 1..Len(i.sent) : i.sent[a] < m
  /\ \A a \in 1..Len(i.held) : i.held[a] < m
  /\ \A a \in 1..Len(i.recorded) : i.recorded[a] < m

\* It left in its order, what is kept for agent mode after what was sent.
OutSound(i) ==
  /\ Increasing(i.sent) /\ Increasing(i.held) /\ Increasing(i.recorded)
  /\ \A a \in 1..Len(i.sent), b \in 1..Len(i.held) : i.sent[a] < i.held[b]
  /\ ToSet(i.recorded) \subseteq ToSet(i.sent) \cup ToSet(i.held) \cup i.lost
  /\ i.mode = "agent" => i.held = <<>>

\* Nothing is held where the wait takes a step, no answer to typed text finds a
\* token, and none of the mishaps has happened.
FlagsSound(i) ==
  /\ i.waits => ~i.hold
  /\ i.origin = "user_text" \/ i.busy => ~i.token
  /\ ~i.talkedOver /\ ~i.stale /\ ~i.bound /\ ~i.leaked

InputInv(i) ==
  /\ i \in InputRecord
  /\ ChainSound(i) /\ OutSound(i) /\ FlagsSound(i)
  /\ Older(i, i.given + 1)
  /\ \A a \in 1..Len(i.chain) : Older(i, i.chain[a].n)
  /\ i.busy => i.chain # <<>>

Declarations ==
  [current : Nat, calls : Nat, pending : SUBSET [n : Nat, previous : Nat], accepted : Nat,
   latest : Nat]

DeclarationInv ==
  /\ decl \in Declarations
  /\ decl.latest = decl.calls
  /\ \A c \in decl.pending : c.n <= decl.calls
  /\ \A c, d \in decl.pending : c.n = d.n => c = d
  /\ decl.accepted <= decl.calls
  /\ \A c \in decl.pending : c.n # decl.accepted
  /\ decl.accepted = decl.latest => decl.current = decl.latest
  /\ \A c \in decl.pending : c.n = decl.latest => decl.current = decl.latest

\* A body waits only where the transport does.
InputsInv == InputInv(inp) /\ (inp.busy => inp.waits)

SessionInputsInv == InputsInv /\ DeclarationInv

\* A step that leaves alone what went out and what waits.
SameOut(i, j) ==
  /\ j \in InputRecord
  /\ j.given = i.given /\ j.chain = i.chain /\ j.sent = i.sent /\ j.held = i.held
  /\ j.lost = i.lost /\ j.recorded = i.recorded /\ j.mode = i.mode /\ j.busy = i.busy

\* What leaves the inputs alone keeps the invariant when it keeps the flags.
LEMMA SameOutKeeps ==
  ASSUME NEW i, NEW j, InputInv(i), SameOut(i, j), FlagsSound(j)
  PROVE  InputInv(j)
<1> QED BY DEF InputInv, SameOut, ChainSound, OutSound, Older

\* A new body takes its place behind the others.
LEMMA EnqueueKeeps ==
  ASSUME NEW i, InputInv(i), NEW kind \in {"typed", "transcript", "fix"}, NEW j,
         j = EnqueueInput(i, kind)
  PROVE  InputInv(j)
<1> DEFINE b == [n |-> i.given + 1, kind |-> kind, turn |-> i.turn]
<1>1. /\ i \in InputRecord /\ i.given \in Nat /\ i.chain \in Seq(Bodies) /\ Len(i.chain) \in Nat
      /\ b \in Bodies /\ b.n = i.given + 1
  <2>1. i \in InputRecord /\ i.given \in Nat /\ i.chain \in Seq(Bodies) /\ i.turn \in Nat
    BY DEF InputInv, InputRecord
  <2> QED BY <2>1, LenProperties DEF Bodies
<1>2. /\ j = [i EXCEPT !.given = i.given + 1, !.chain = Append(i.chain, b)] BY DEF EnqueueInput
<1> HIDE DEF b
<1>3. /\ j.given = i.given + 1 /\ j.chain = Append(i.chain, b) /\ j.sent = i.sent
      /\ j.held = i.held /\ j.lost = i.lost /\ j.recorded = i.recorded /\ j.mode = i.mode
      /\ j.busy = i.busy /\ j.waits = i.waits /\ j.hold = i.hold /\ j.origin = i.origin
      /\ j.token = i.token /\ j.talkedOver = i.talkedOver /\ j.stale = i.stale
      /\ j.bound = i.bound /\ j.leaked = i.leaked
  BY <1>1, <1>2, ZenonT(30) DEF InputRecord
<1>4. /\ j.chain \in Seq(Bodies) /\ j.chain # <<>> /\ Len(j.chain) = Len(i.chain) + 1
      /\ \A a \in 1..Len(i.chain) : j.chain[a] = i.chain[a]
      /\ j.chain[Len(j.chain)] = b
  BY <1>1, <1>3, AppendProperties
<1>5. j \in InputRecord
  <2>1. i.given + 1 \in Nat /\ Append(i.chain, b) \in Seq(Bodies) BY <1>1, <1>3, <1>4
  <2> QED BY <1>1, <1>2, <2>1, ZenonT(30) DEF InputRecord
<1>6. \A a \in 1..Len(i.chain) : i.chain[a].n \in Nat /\ i.chain[a].n <= i.given
  <2>1. \A a \in 1..Len(i.chain) : i.chain[a] \in Bodies BY <1>1, ElementOfSeq
  <2> QED BY <2>1 DEF InputInv, ChainSound, Bodies
<1>7. \A a \in 1..Len(j.chain) : a \in 1..Len(i.chain) \/ a = Len(j.chain) BY <1>1, <1>4
<1>8. ChainSound(j)
  <2>1. \A a \in 1..Len(j.chain) : j.chain[a].n <= j.given BY <1>1, <1>3, <1>4, <1>6, <1>7
  <2>2. ASSUME NEW a \in 1..Len(j.chain), NEW c \in 1..Len(j.chain), a < c
        PROVE  j.chain[a].n < j.chain[c].n
    <3>1. a \in 1..Len(i.chain) BY <2>2, <1>1, <1>4
    <3>2. CASE c \in 1..Len(i.chain) BY <3>1, <3>2, <2>2, <1>4 DEF InputInv, ChainSound
    <3>3. CASE c = Len(j.chain)
      <4>1. /\ j.chain[a].n \in Nat /\ j.chain[a].n <= i.given
            /\ j.chain[c].n = i.given + 1
        BY <3>1, <3>3, <1>1, <1>4, <1>6
      <4> QED BY <4>1, <1>1
    <3> QED BY <3>2, <3>3, <1>7
  <2> QED BY <2>1, <2>2 DEF ChainSound
<1>9. OutSound(j) /\ FlagsSound(j) BY <1>3 DEF InputInv, OutSound, FlagsSound
<1>10. Older(j, i.given + 1) BY <1>3 DEF InputInv, Older
<1>11. Older(j, j.given + 1)
  <2>1. /\ \A a \in 1..Len(j.sent) : j.sent[a] \in Nat
        /\ \A a \in 1..Len(j.held) : j.held[a] \in Nat
        /\ \A a \in 1..Len(j.recorded) : j.recorded[a] \in Nat
    <3>1. j.sent \in Seq(Nat) /\ j.held \in Seq(Nat) /\ j.recorded \in Seq(Nat)
      BY <1>5, ZenonT(30) DEF InputRecord
    <3> QED BY <3>1, ElementOfSeq
  <2> DEFINE g == i.given
             k == i.given + 1
  <2>2. g \in Nat /\ k = g + 1 /\ j.given = k /\ Older(j, k) BY <1>1, <1>3, <1>10
  <2> HIDE DEF g, k
  <2>3. Older(j, k + 1) BY <2>1, <2>2 DEF Older
  <2> QED BY <2>2, <2>3
<1>12. \A a \in 1..Len(j.chain) : Older(j, j.chain[a].n)
  BY <1>3, <1>1, <1>4, <1>7, <1>10 DEF InputInv, Older
<1> QED BY <1>4, <1>5, <1>8, <1>9, <1>11, <1>12 DEF InputInv

\* An input that is newer than all that left is sent, kept or lost.
LEMMA SendContentSound ==
  ASSUME NEW i \in InputRecord, OutSound(i), NEW n \in Nat, Older(i, n), NEW j,
         j = SendContent(i, n)
  PROVE  /\ j \in InputRecord /\ OutSound(j) /\ Older(j, n + 1)
         /\ n \in ToSet(j.sent) \cup ToSet(j.held) \cup j.lost
         /\ j = [i EXCEPT !.sent = j.sent, !.held = j.held, !.lost = j.lost]
<1>1. /\ i.sent \in Seq(Nat) /\ i.held \in Seq(Nat) /\ i.recorded \in Seq(Nat)
      /\ i.lost \in SUBSET Nat
      /\ Len(i.sent) \in Nat /\ Len(i.held) \in Nat /\ Len(i.recorded) \in Nat
      /\ DOMAIN i.sent = 1..Len(i.sent) /\ DOMAIN i.held = 1..Len(i.held)
  BY LenProperties DEF InputRecord
<1>2. /\ \A a \in 1..Len(i.sent) : i.sent[a] \in Nat
      /\ \A a \in 1..Len(i.held) : i.held[a] \in Nat
      /\ \A a \in 1..Len(i.recorded) : i.recorded[a] \in Nat
  BY <1>1, ElementOfSeq
<1>3. Older(i, n + 1) BY <1>2 DEF Older
<1>4. CASE i.mode # "agent"
  <2> DEFINE h == Append(i.held, n)
  <2>1. j = [i EXCEPT !.held = h] BY <1>4 DEF SendContent
  <2>2. /\ h \in Seq(Nat) /\ Len(h) = Len(i.held) + 1 /\ h[Len(h)] = n
        /\ \A a \in 1..Len(i.held) : h[a] = i.held[a]
    BY <1>1, AppendProperties
  <2>3. DOMAIN h = 1..Len(h) BY <2>2, LenProperties
  <2> HIDE DEF h
  <2>4. /\ j.held = h /\ j.sent = i.sent /\ j.lost = i.lost /\ j.recorded = i.recorded
        /\ j.mode = i.mode /\ j = [i EXCEPT !.sent = j.sent, !.held = j.held, !.lost = j.lost]
        /\ j \in InputRecord
    BY <2>1, <2>2, ZenonT(30) DEF InputRecord
  <2>5. \A a \in 1..Len(h) : a \in 1..Len(i.held) \/ a = Len(h) BY <1>1, <2>2
  <2>6. Increasing(h)
    <3>1. ASSUME NEW a \in 1..Len(h), NEW b \in 1..Len(h), a < b PROVE h[a] < h[b]
      <4>1. a \in 1..Len(i.held) BY <3>1, <1>1, <2>2
      <4>2. CASE b \in 1..Len(i.held) BY <3>1, <4>1, <4>2, <2>2 DEF OutSound, Increasing
      <4>3. CASE b = Len(h) BY <4>1, <4>3, <2>2 DEF Older
      <4> QED BY <4>2, <4>3, <2>5
    <3> QED BY <3>1 DEF Increasing
  <2>8. ToSet(i.held) \subseteq ToSet(h) /\ n \in ToSet(h)
    <3>1. \A a \in DOMAIN i.held : a \in DOMAIN h /\ h[a] = i.held[a]
      <4>1. \A a \in 1..Len(i.held) : a \in 1..Len(h) BY <1>1, <2>2
      <4> QED BY <1>1, <2>2, <2>3, <4>1
    <3>2. Len(h) \in DOMAIN h /\ h[Len(h)] = n BY <1>1, <2>2, <2>3
    <3> QED BY <3>1, <3>2 DEF ToSet
  <2>9. OutSound(j) BY <1>4, <2>4, <2>6, <2>8, <2>2, <2>5 DEF OutSound, Older
  <2>10. Older(j, n + 1)
    <3>2. \A a \in 1..Len(i.held) : i.held[a] < n + 1 BY <1>3 DEF Older
    <3>3. n < n + 1 OBVIOUS
    <3>4. \A a \in 1..Len(h) : h[a] < n + 1 BY <2>2, <2>5, <3>2, <3>3, Zenon
    <3> QED BY <2>4, <3>4, <1>3 DEF Older
  <2> QED BY <2>4, <2>8, <2>9, <2>10
<1>5. CASE i.mode = "agent" /\ i.up
  <2> DEFINE h == Append(i.sent, n)
  <2>1. j = [i EXCEPT !.sent = h] BY <1>5 DEF SendContent
  <2>2. /\ h \in Seq(Nat) /\ Len(h) = Len(i.sent) + 1 /\ h[Len(h)] = n
        /\ \A a \in 1..Len(i.sent) : h[a] = i.sent[a]
    BY <1>1, AppendProperties
  <2>3. DOMAIN h = 1..Len(h) BY <2>2, LenProperties
  <2> HIDE DEF h
  <2>4. /\ j.held = i.held /\ j.sent = h /\ j.lost = i.lost /\ j.recorded = i.recorded
        /\ j.mode = i.mode /\ j = [i EXCEPT !.sent = j.sent, !.held = j.held, !.lost = j.lost]
        /\ j \in InputRecord
    BY <2>1, <2>2, ZenonT(30) DEF InputRecord
  <2>5. \A a \in 1..Len(h) : a \in 1..Len(i.sent) \/ a = Len(h) BY <1>1, <2>2
  <2>6. Increasing(h)
    <3>1. ASSUME NEW a \in 1..Len(h), NEW b \in 1..Len(h), a < b PROVE h[a] < h[b]
      <4>1. a \in 1..Len(i.sent) BY <3>1, <1>1, <2>2
      <4>2. CASE b \in 1..Len(i.sent) BY <3>1, <4>1, <4>2, <2>2 DEF OutSound, Increasing
      <4>3. CASE b = Len(h) BY <4>1, <4>3, <2>2 DEF Older
      <4> QED BY <4>2, <4>3, <2>5
    <3> QED BY <3>1 DEF Increasing
  <2>8. ToSet(i.sent) \subseteq ToSet(h) /\ n \in ToSet(h)
    <3>1. \A a \in DOMAIN i.sent : a \in DOMAIN h /\ h[a] = i.sent[a]
      <4>1. \A a \in 1..Len(i.sent) : a \in 1..Len(h) BY <1>1, <2>2
      <4> QED BY <1>1, <2>2, <2>3, <4>1
    <3>2. Len(h) \in DOMAIN h /\ h[Len(h)] = n BY <1>1, <2>2, <2>3
    <3> QED BY <3>1, <3>2 DEF ToSet
  <2>9. OutSound(j) BY <2>4, <2>6, <2>8, <1>5, EmptySeq DEF OutSound
  <2>10. Older(j, n + 1)
    <3>2. \A a \in 1..Len(i.sent) : i.sent[a] < n + 1 BY <1>3 DEF Older
    <3>3. n < n + 1 OBVIOUS
    <3>4. \A a \in 1..Len(h) : h[a] < n + 1 BY <2>2, <2>5, <3>2, <3>3, Zenon
    <3> QED BY <2>4, <3>4, <1>3 DEF Older
  <2> QED BY <2>4, <2>8, <2>9, <2>10
<1>6. CASE i.mode = "agent" /\ ~i.up
  <2>1. j = [i EXCEPT !.lost = i.lost \cup {n}] BY <1>6 DEF SendContent
  <2>2. /\ j.held = i.held /\ j.sent = i.sent /\ j.lost = i.lost \cup {n}
        /\ j.recorded = i.recorded /\ j.mode = i.mode
        /\ j = [i EXCEPT !.sent = j.sent, !.held = j.held, !.lost = j.lost]
        /\ j \in InputRecord
    <3>1. i.lost \cup {n} \in SUBSET Nat BY <1>1
    <3> QED BY <3>1, <2>1, ZenonT(30) DEF InputRecord
  <2>3. OutSound(j) BY <2>2 DEF OutSound
  <2>4. Older(j, n + 1) BY <1>3, <2>2 DEF Older
  <2> QED BY <2>2, <2>3, <2>4
<1> QED BY <1>4, <1>5, <1>6

\* The head of the chain is gone, and what left is not newer than it.
LEMMA HeadLeaves ==
  ASSUME NEW i, InputInv(i), i.chain # <<>>, NEW j \in InputRecord, OutSound(j), FlagsSound(j),
         Older(j, Head(i.chain).n + 1), j.chain = Tail(i.chain), j.given = i.given, ~j.busy
  PROVE  InputInv(j)
<1> DEFINE c == i.chain
           h == Head(i.chain).n
<1>1. /\ c \in Seq(Bodies) /\ c # <<>> /\ i.given \in Nat /\ j.chain = Tail(c) /\ h = Head(c).n
  BY DEF InputInv, InputRecord
<1>2. /\ \A a \in 1..Len(c) : c[a].n <= i.given
      /\ \A a, b \in 1..Len(c) : a < b => c[a].n < c[b].n
  BY DEF InputInv, ChainSound
<1>3. Older(j, h + 1) OBVIOUS
<1> HIDE DEF c, h
<1>4. /\ Len(c) \in Nat \ {0} /\ Len(j.chain) = Len(c) - 1 /\ Head(c) = c[1]
      /\ \A a \in 1..Len(j.chain) : j.chain[a] = c[a + 1]
  <2>2. /\ Len(j.chain) = Len(c) - 1
        /\ \A a \in 1..Len(j.chain) : j.chain[a] = c[a + 1]
    <3>1. /\ Len(Tail(c)) = Len(c) - 1
          /\ \A a \in 1..Len(Tail(c)) : Tail(c)[a] = c[a + 1]
      BY <1>1, HeadTailProperties
    <3> QED BY <1>1, <3>1
  <2> QED BY <2>2, <1>1, EmptySeq
<1>5. \A a \in 1..Len(c) : c[a].n \in Nat
  <2>1. \A a \in 1..Len(c) : c[a] \in Bodies BY <1>1, ElementOfSeq
  <2> QED BY <2>1 DEF Bodies
<1>6. 1 \in 1..Len(c) /\ h = c[1].n /\ h \in Nat /\ h <= i.given BY <1>1, <1>2, <1>4, <1>5
<1>7. \A a \in 1..Len(j.chain) : a + 1 \in 1..Len(c) /\ 1 < a + 1 BY <1>4
<1>8. ChainSound(j)
  <2>2. ASSUME NEW a \in 1..Len(j.chain), NEW b \in 1..Len(j.chain), a < b
        PROVE  j.chain[a].n < j.chain[b].n
    <3>1. a + 1 < b + 1 BY <2>2
    <3> QED BY <3>1, <1>2, <1>4, <1>7
  <2> QED BY <2>2, <1>2, <1>4, <1>7 DEF ChainSound
<1>9. /\ \A a \in 1..Len(j.sent) : j.sent[a] \in Nat
      /\ \A a \in 1..Len(j.held) : j.held[a] \in Nat
      /\ \A a \in 1..Len(j.recorded) : j.recorded[a] \in Nat
  <2>1. j.sent \in Seq(Nat) /\ j.held \in Seq(Nat) /\ j.recorded \in Seq(Nat)
    BY ZenonT(30) DEF InputRecord
  <2> QED BY <2>1, ElementOfSeq
<1>10. ASSUME NEW m \in Nat, h < m PROVE Older(j, m)
  <2>1. /\ \A a \in 1..Len(j.sent) : j.sent[a] < h + 1
        /\ \A a \in 1..Len(j.held) : j.held[a] < h + 1
        /\ \A a \in 1..Len(j.recorded) : j.recorded[a] < h + 1
    BY <1>3 DEF Older
  <2> QED BY <1>6, <1>9, <1>10, <2>1 DEF Older
<1> QED BY <1>8, <1>2, <1>4, <1>5, <1>6, <1>7, <1>10, <1>1 DEF InputInv

\* What left is recorded, behind the older.
LEMMA RecordSound ==
  ASSUME NEW g \in InputRecord, OutSound(g), NEW n \in Nat, Older(g, n + 1),
         \A a \in 1..Len(g.recorded) : g.recorded[a] < n,
         n \in ToSet(g.sent) \cup ToSet(g.held) \cup g.lost,
         NEW j, j = [g EXCEPT !.recorded = Append(g.recorded, n)]
  PROVE  j \in InputRecord /\ OutSound(j) /\ Older(j, n + 1)
<1> DEFINE r == Append(g.recorded, n)
<1>1. g.recorded \in Seq(Nat) /\ Len(g.recorded) \in Nat /\ DOMAIN g.recorded = 1..Len(g.recorded)
  BY LenProperties DEF InputRecord
<1>2. /\ r \in Seq(Nat) /\ Len(r) = Len(g.recorded) + 1 /\ r[Len(r)] = n
      /\ \A a \in 1..Len(g.recorded) : r[a] = g.recorded[a]
  BY <1>1, AppendProperties
<1>3. DOMAIN r = 1..Len(r) BY <1>2, LenProperties
<1>4. j = [g EXCEPT !.recorded = r] OBVIOUS
<1> HIDE DEF r
<1>5. /\ j.recorded = r /\ j.sent = g.sent /\ j.held = g.held /\ j.lost = g.lost
           /\ j.mode = g.mode
      /\ j \in InputRecord
  BY <1>2, <1>4, ZenonT(30) DEF InputRecord
<1>6. \A a \in 1..Len(r) : a \in 1..Len(g.recorded) \/ a = Len(r) BY <1>1, <1>2
<1>7. Increasing(r)
  <2>1. ASSUME NEW a \in 1..Len(r), NEW b \in 1..Len(r), a < b PROVE r[a] < r[b]
    <3>1. a \in 1..Len(g.recorded) BY <2>1, <1>1, <1>2
    <3>2. CASE b \in 1..Len(g.recorded) BY <2>1, <3>1, <3>2, <1>2 DEF OutSound, Increasing
    <3>3. CASE b = Len(r) BY <3>1, <3>3, <1>2
    <3> QED BY <3>2, <3>3, <1>6
  <2> QED BY <2>1 DEF Increasing
<1>8. ToSet(r) \subseteq ToSet(g.recorded) \cup {n} BY <1>1, <1>2, <1>3, <1>6 DEF ToSet
<1>9. OutSound(j) BY <1>5, <1>7, <1>8 DEF OutSound
<1>10. \A a \in 1..Len(r) : r[a] < n + 1
  <2>1. \A a \in 1..Len(g.recorded) : g.recorded[a] < n + 1 BY DEF Older
  <2>2. n < n + 1 OBVIOUS
  <2> QED BY <1>2, <1>6, <2>1, <2>2, Zenon
<1> QED BY <1>5, <1>9, <1>10 DEF Older

\* An ended turn leaves the rest alone.
LEMMA FinalizeSound ==
  ASSUME NEW i \in InputRecord, NEW t, NEW e, e = Finalize(i, t)
  PROVE  /\ SameOut(i, e) /\ ~(e.open /\ e.turn = t)
         /\ e.hold = i.hold /\ e.token = i.token /\ e.origin = i.origin /\ e.leaked = i.leaked
         /\ e.stale = i.stale /\ e.talkedOver = i.talkedOver /\ e.bound = i.bound
         /\ e.waits = i.waits /\ e.cut = i.cut
<1>1. i.turn \in Nat BY ZenonT(30) DEF InputRecord
<1>2. CASE i.open /\ i.turn = t
  <2>1. e = [i EXCEPT !.open = FALSE, !.turn = i.turn + 1] /\ i.turn + 1 \in Nat
    BY <1>1, <1>2 DEF Finalize
  <2>2. e \in InputRecord BY <2>1, ZenonT(30) DEF InputRecord
  <2>3. /\ ~e.open /\ e.hold = i.hold /\ e.token = i.token /\ e.origin = i.origin
        /\ e.leaked = i.leaked /\ e.stale = i.stale /\ e.talkedOver = i.talkedOver
        /\ e.bound = i.bound /\ e.waits = i.waits /\ e.cut = i.cut
    BY <2>1, ZenonT(30) DEF InputRecord
  <2>4. /\ e.given = i.given /\ e.chain = i.chain /\ e.sent = i.sent /\ e.held = i.held
        /\ e.lost = i.lost /\ e.recorded = i.recorded /\ e.mode = i.mode /\ e.busy = i.busy
    BY <2>1, ZenonT(30) DEF InputRecord
  <2> QED BY <2>2, <2>3, <2>4 DEF SameOut
<1>3. CASE ~(i.open /\ i.turn = t) BY <1>3 DEF Finalize, SameOut
<1> QED BY <1>2, <1>3

\* The head of the chain is sent, once the turn it found is over.
LEMMA FinishBodyKeeps ==
  ASSUME NEW i, InputInv(i), i.chain # <<>>, ~i.token, MaxTurns \in Nat,
         Head(i.chain).kind = "fix" => ~i.hold, NEW j, j = FinishBody(i)
  PROVE  InputInv(j) /\ ~j.busy
<1> DEFINE job == Head(i.chain)
           e == Finalize(i, i.cut)
           n == job.n
<1>1. /\ i \in InputRecord /\ job \in Bodies /\ n \in Nat /\ Tail(i.chain) \in Seq(Bodies)
      /\ NoTurn \in Nat
  <2>1. i \in InputRecord /\ i.chain \in Seq(Bodies) BY DEF InputInv, InputRecord
  <2>2. job \in Bodies /\ Tail(i.chain) \in Seq(Bodies) BY <2>1, HeadTailProperties
  <2> QED BY <2>1, <2>2 DEF Bodies, NoTurn
<1>2. Older(i, n)
  <2>1. 1 \in 1..Len(i.chain) /\ i.chain[1] = job
    <3>1. i.chain \in Seq(Bodies) BY <1>1, ZenonT(30) DEF InputRecord
    <3> QED BY <3>1, EmptySeq, HeadTailProperties
  <2> QED BY <2>1 DEF InputInv
<1>3. /\ SameOut(i, e) /\ ~(e.open /\ e.turn = i.cut)
      /\ e.hold = i.hold /\ e.token = i.token /\ e.origin = i.origin /\ e.leaked = i.leaked
      /\ e.stale = i.stale /\ e.talkedOver = i.talkedOver /\ e.bound = i.bound
      /\ e.waits = i.waits /\ e.cut = i.cut
  BY <1>1, FinalizeSound
<1>4. j = [(IF job.kind = "fix" THEN SendLiveText(e, job) ELSE SendUserTurn(e, job))
             EXCEPT !.chain = Tail(@), !.busy = FALSE, !.cut = NoTurn]
  BY DEF FinishBody
<1>5. OutSound(i) /\ FlagsSound(i) BY DEF InputInv
<1> HIDE DEF job, e, n
<1>6. /\ e \in InputRecord /\ e.chain = i.chain /\ e.given = i.given /\ OutSound(e) /\ Older(e, n)
  BY <1>2, <1>3, <1>5 DEF SameOut, OutSound, Older
<1>7. CASE job.kind = "fix"
  <2> DEFINE f == [e EXCEPT !.origin = "assistant_initiated", !.token = FALSE]
             g == SendContent(f, n)
             k == [g EXCEPT !.leaked = g.leaked \/ e.hold]
  <2>1. /\ f \in InputRecord /\ OutSound(f) /\ Older(f, n)
        /\ f.chain = e.chain /\ f.given = e.given /\ f.hold = e.hold /\ ~f.token
        /\ f.origin = "assistant_initiated" /\ f.leaked = e.leaked /\ f.stale = e.stale
        /\ f.talkedOver = e.talkedOver /\ f.bound = e.bound /\ f.waits = e.waits
    BY <1>6, ZenonT(30) DEF InputRecord, OutSound, Older
  <2>2. j = [k EXCEPT !.chain = Tail(k.chain), !.busy = FALSE, !.cut = NoTurn]
    BY <1>4, <1>7 DEF SendLiveText, n
  <2> HIDE DEF f
  <2>3. /\ g \in InputRecord /\ OutSound(g) /\ Older(g, n + 1)
        /\ g = [f EXCEPT !.sent = g.sent, !.held = g.held, !.lost = g.lost]
    BY <1>1, <2>1, SendContentSound
  <2> HIDE DEF g
  <2>4. /\ g.chain = f.chain /\ g.given = f.given /\ g.hold = f.hold /\ g.token = f.token
        /\ g.origin = f.origin /\ g.leaked = f.leaked /\ g.stale = f.stale
        /\ g.talkedOver = f.talkedOver /\ g.bound = f.bound /\ g.waits = f.waits
    BY <2>1, <2>3, ZenonT(30) DEF InputRecord
  <2>5. ~e.hold /\ ~i.leaked BY <1>3, <1>5, <1>7 DEF FlagsSound, job
  <2>6. k = [g EXCEPT !.leaked = FALSE] BY <2>1, <2>4, <2>5, <1>3
  <2> HIDE DEF k
  <2>7. /\ j = [g EXCEPT !.leaked = FALSE, !.chain = Tail(i.chain), !.busy = FALSE,
             !.cut = NoTurn]
    <3>1. k.chain = i.chain BY <2>1, <2>3, <2>4, <2>6, <1>6, ZenonT(30) DEF InputRecord
    <3> QED BY <2>6, <2>2, <3>1
  <2>8. /\ j \in InputRecord /\ j.chain = Tail(i.chain) /\ j.given = i.given /\ ~j.busy
        /\ ~j.leaked /\ j.sent = g.sent /\ j.held = g.held /\ j.lost = g.lost
        /\ j.recorded = g.recorded /\ j.mode = g.mode /\ j.hold = g.hold /\ j.token = g.token
        /\ j.origin = g.origin /\ j.stale = g.stale /\ j.talkedOver = g.talkedOver
        /\ j.bound = g.bound /\ j.waits = g.waits
    <3>1. Tail(i.chain) \in Seq(Bodies) /\ NoTurn \in Nat /\ g.given = i.given
      BY <1>1, <1>6, <2>1, <2>4
    <3>2. j \in InputRecord
      <4> DEFINE z == [g EXCEPT !.leaked = FALSE, !.chain = Tail(i.chain)]
      <4>1. z \in InputRecord BY <2>3, <3>1, ZenonT(30) DEF InputRecord
      <4>2. j = [z EXCEPT !.busy = FALSE, !.cut = NoTurn] BY <2>7
      <4> HIDE DEF z
      <4> QED BY <3>1, <4>1, <4>2, ZenonT(30) DEF InputRecord
    <3>3. /\ j.chain = Tail(i.chain) /\ j.given = i.given /\ ~j.busy
          /\ ~j.leaked /\ j.sent = g.sent /\ j.held = g.held /\ j.lost = g.lost
      BY <2>3, <2>7, <3>1, ZenonT(30) DEF InputRecord
    <3>4. /\ j.recorded = g.recorded /\ j.mode = g.mode /\ j.hold = g.hold /\ j.token = g.token
          /\ j.origin = g.origin /\ j.stale = g.stale /\ j.talkedOver = g.talkedOver
          /\ j.bound = g.bound /\ j.waits = g.waits
      BY <2>3, <2>7, <3>1, ZenonT(30) DEF InputRecord
    <3> QED BY <3>2, <3>3, <3>4
  <2>10. FlagsSound(j) BY <1>3, <1>5, <2>1, <2>4, <2>5, <2>8 DEF FlagsSound
  <2> QED BY <2>8, <2>10, HeadLeaves, <2>3 DEF OutSound, Older, n, job
<1>8. CASE job.kind # "fix"
  <2> DEFINE f == [e EXCEPT !.origin = "user_text"]
             g == SendContent(f, n)
             r == [g EXCEPT !.recorded = Append(g.recorded, n)]
             k == [g EXCEPT !.recorded = Append(g.recorded, n),
                            !.talkedOver = g.talkedOver \/ (e.open /\ e.turn = e.cut)]
  <2>1. /\ f \in InputRecord /\ OutSound(f) /\ Older(f, n)
        /\ f.chain = e.chain /\ f.given = e.given /\ f.hold = e.hold /\ f.token = e.token
        /\ f.origin = "user_text" /\ f.leaked = e.leaked /\ f.stale = e.stale
        /\ f.talkedOver = e.talkedOver /\ f.bound = e.bound /\ f.waits = e.waits
    BY <1>6, ZenonT(30) DEF InputRecord, OutSound, Older
  <2>2. j = [k EXCEPT !.chain = Tail(k.chain), !.busy = FALSE, !.cut = NoTurn]
    BY <1>4, <1>8 DEF SendUserTurn, n
  <2> HIDE DEF f
  <2>3. /\ g \in InputRecord /\ OutSound(g) /\ Older(g, n + 1)
        /\ n \in ToSet(g.sent) \cup ToSet(g.held) \cup g.lost
        /\ g = [f EXCEPT !.sent = g.sent, !.held = g.held, !.lost = g.lost]
    BY <1>1, <2>1, SendContentSound
  <2> HIDE DEF g
  <2>4. /\ g.chain = f.chain /\ g.given = f.given /\ g.hold = f.hold /\ g.token = f.token
        /\ g.origin = f.origin /\ g.leaked = f.leaked /\ g.stale = f.stale
        /\ g.talkedOver = f.talkedOver /\ g.bound = f.bound /\ g.waits = f.waits
        /\ g.recorded = f.recorded
    BY <2>1, <2>3, ZenonT(30) DEF InputRecord
  <2>6. r \in InputRecord /\ OutSound(r) /\ Older(r, n + 1)
    BY <1>1, <2>3, RecordSound, <2>1, <2>4 DEF Older
  <2>7. k = [r EXCEPT !.talkedOver = FALSE]
    <3>1. ~(g.talkedOver \/ (e.open /\ e.turn = e.cut)) BY <2>1, <2>4, <1>3, <1>5 DEF FlagsSound
    <3> QED BY <3>1, <2>3, ZenonT(30) DEF InputRecord
  <2>8. /\ r.chain = i.chain /\ r.given = i.given /\ r.hold = i.hold /\ ~r.token
        /\ r.leaked = i.leaked /\ r.stale = i.stale /\ r.bound = i.bound /\ r.waits = i.waits
    <3>1. /\ r.chain = g.chain /\ r.given = g.given /\ r.hold = g.hold /\ r.token = g.token
          /\ r.leaked = g.leaked /\ r.stale = g.stale /\ r.bound = g.bound /\ r.waits = g.waits
      BY <2>3, ZenonT(30) DEF InputRecord
    <3> QED BY <3>1, <1>3, <1>6, <2>1, <2>4
  <2> HIDE DEF r, k
  <2>9. j = [r EXCEPT !.talkedOver = FALSE, !.chain = Tail(i.chain), !.busy = FALSE,
        !.cut = NoTurn]
    BY <2>2, <2>6, <2>7, <2>8, ZenonT(30) DEF InputRecord
  <2>10. /\ j \in InputRecord /\ j.chain = Tail(i.chain) /\ j.given = i.given /\ ~j.busy
         /\ ~j.talkedOver /\ j.sent = r.sent /\ j.held = r.held /\ j.lost = r.lost
         /\ j.recorded = r.recorded /\ j.mode = r.mode /\ j.hold = r.hold /\ j.token = r.token
         /\ j.leaked = r.leaked /\ j.stale = r.stale /\ j.bound = r.bound /\ j.waits = r.waits
    <3>1. Tail(i.chain) \in Seq(Bodies) /\ NoTurn \in Nat BY <1>1
    <3>2. j \in InputRecord
      <4> DEFINE z == [r EXCEPT !.talkedOver = FALSE, !.chain = Tail(i.chain)]
      <4>1. z \in InputRecord BY <2>6, <3>1, ZenonT(30) DEF InputRecord
      <4>2. j = [z EXCEPT !.busy = FALSE, !.cut = NoTurn] BY <2>9
      <4> HIDE DEF z
      <4> QED BY <3>1, <4>1, <4>2, ZenonT(30) DEF InputRecord
    <3>3. /\ j.chain = Tail(i.chain) /\ j.given = i.given /\ ~j.busy
          /\ ~j.talkedOver /\ j.sent = r.sent /\ j.held = r.held /\ j.lost = r.lost
      BY <2>6, <2>8, <2>9, <3>1, ZenonT(30) DEF InputRecord
    <3>4. /\ j.recorded = r.recorded /\ j.mode = r.mode /\ j.hold = r.hold /\ j.token = r.token
          /\ j.leaked = r.leaked /\ j.stale = r.stale /\ j.bound = r.bound /\ j.waits = r.waits
      BY <2>6, <2>9, <3>1, ZenonT(30) DEF InputRecord
    <3> QED BY <3>2, <3>3, <3>4
  <2> QED BY <2>10, HeadLeaves, <2>6, <1>5, <2>8 DEF OutSound, Older, FlagsSound, n, job
<1> QED BY <1>7, <1>8

-----------------------------------------------------------------------------
USE SessionInputsAssumption DEF SessionInputsAssumption

\* The head of the chain, and what follows it, is the chain.
LEMMA RemoveHead ==
  ASSUME NEW c \in Seq(Bodies), c # <<>>
  PROVE  <<c[1]>> \o RemoveAt(c, 1) = c /\ Head(c) = c[1]
<1>1. Len(c) \in Nat \ {0} /\ Head(c) = c[1] BY EmptySeq
<1>3. SubSeq(c, 1, 0) = <<>> BY SubSeqEmpty
<1> QED BY <1>1, SubSeqFull, SubSeqRecursiveFirst, <1>3, ConcatEmptySeq, ElementOfSeq, SubSeqProperties
      DEF RemoveAt

\* One lemma per action.  The head of the chain starts, waits, or is dropped.
LEMMA BodyStartsKeeps == InputsInv /\ BodyStarts => InputsInv'
<1> SUFFICES ASSUME InputInv(inp), BodyStarts PROVE InputInv(inp') /\ (inp'.busy => inp'.waits)
  BY DEF InputsInv
<1>1. PICK k \in NextBody(inp) :
       LET job == inp.chain[k]
           first == [inp EXCEPT !.chain = <<job>> \o RemoveAt(@, k)]
           begun == [PreEmpt(first) EXCEPT !.stale = @
             \/ (job.kind = "fix" /\ inp.turn # job.turn)]
       IN inp' = IF job.kind = "fix" /\ ~MaySend(inp, job) THEN [first EXCEPT !.chain = Tail(@)]
                 ELSE IF inp.waits THEN begun ELSE FinishBody(begun)
  BY DEF BodyStarts
<1>2. inp \in InputRecord /\ inp.chain \in Seq(Bodies) /\ ~inp.busy
  BY DEF InputInv, InputRecord, BodyStarts
<1>3. inp.chain # <<>> /\ k = 1 BY DEF NextBody
<1> DEFINE job == inp.chain[1]
           first == [inp EXCEPT !.chain = <<job>> \o RemoveAt(inp.chain, 1)]
           b == [PreEmpt(first) EXCEPT !.stale = @ \/ (job.kind = "fix" /\ inp.turn # job.turn)]
<1>4. inp' = IF job.kind = "fix" /\ ~MaySend(inp,
      job) THEN [first EXCEPT !.chain = Tail(first.chain)]
             ELSE IF inp.waits THEN b ELSE FinishBody(b)
  BY <1>1, <1>3
<1>5. first = inp /\ Head(inp.chain) = job BY <1>2, <1>3, RemoveHead DEF InputRecord
<1>6. Tail(inp.chain) \in Seq(Bodies) /\ job \in Bodies /\ job.n \in Nat
  <2>1. Tail(inp.chain) \in Seq(Bodies) /\ Head(inp.chain) \in Bodies
    BY <1>2, <1>3, HeadTailProperties
  <2> QED BY <2>1, <1>5 DEF Bodies
<1>7. Older(inp, job.n) BY <1>2, <1>3, EmptySeq DEF InputInv
<1>8. NoTurn \in Nat BY DEF NoTurn
<1>9. CASE job.kind = "fix" /\ ~MaySend(inp, job)
  <2>1. inp' = [inp EXCEPT !.chain = Tail(inp.chain)] BY <1>4, <1>5, <1>9
  <2> HIDE DEF job, first, b
  <2>2. /\ inp' \in InputRecord /\ inp'.chain = Tail(inp.chain) /\ inp'.given = inp.given
        /\ ~inp'.busy /\ inp'.sent = inp.sent /\ inp'.held = inp.held /\ inp'.lost = inp.lost
        /\ inp'.recorded = inp.recorded /\ inp'.mode = inp.mode
    BY <1>2, <1>6, <2>1, ZenonT(30) DEF InputRecord
  <2>3. /\ inp'.hold = inp.hold /\ inp'.token = inp.token
        /\ inp'.origin = inp.origin /\ inp'.stale = inp.stale /\ inp'.talkedOver = inp.talkedOver
        /\ inp'.bound = inp.bound /\ inp'.waits = inp.waits /\ inp'.leaked = inp.leaked
        /\ inp'.busy = inp.busy
    BY <1>2, <2>1, ZenonT(30) DEF InputRecord
  <2>4. OutSound(inp') /\ FlagsSound(inp') BY <2>2, <2>3 DEF InputInv, OutSound, FlagsSound
  <2>5. Older(inp', job.n + 1)
    <3>1. /\ \A a \in 1..Len(inp.sent) : inp.sent[a] \in Nat
          /\ \A a \in 1..Len(inp.held) : inp.held[a] \in Nat
          /\ \A a \in 1..Len(inp.recorded) : inp.recorded[a] \in Nat
      <4>1. inp.sent \in Seq(Nat) /\ inp.held \in Seq(Nat) /\ inp.recorded \in Seq(Nat)
        BY <1>2, ZenonT(30) DEF InputRecord
      <4> QED BY <4>1, ElementOfSeq
    <3> QED BY <1>6, <1>7, <2>2, <3>1 DEF Older
  <2> QED BY <1>3, <1>5, <2>2, <2>4, <2>5, HeadLeaves
<1>10. CASE ~(job.kind = "fix" /\ ~MaySend(inp, job))
  <2>2. ~inp.stale /\ (job.kind = "fix" => inp.turn = job.turn /\ ~inp.hold)
    BY <1>10 DEF InputInv, FlagsSound, MaySend
  <2>3. b = [inp EXCEPT !.token = FALSE, !.cut = IF inp.open THEN inp.turn ELSE NoTurn,
        !.busy = TRUE,
                        !.stale = FALSE]
    BY <2>2, <1>2, <1>5 DEF PreEmpt, InputRecord
  <2>4. inp' = IF inp.waits THEN b ELSE FinishBody(b) BY <1>4, <1>10
  <2>5. (IF inp.open THEN inp.turn ELSE NoTurn) \in Nat BY <1>2, <1>8, ZenonT(30) DEF InputRecord
  <2> HIDE DEF job, first, b
  <2>6. /\ b \in InputRecord /\ b.chain = inp.chain /\ b.given = inp.given
        /\ b.busy /\ ~b.token /\ ~b.stale
    BY <1>2, <2>3, <2>5, ZenonT(30) DEF InputRecord
  <2>7. /\ b.sent = inp.sent /\ b.held = inp.held /\ b.lost = inp.lost
        /\ b.recorded = inp.recorded /\ b.mode = inp.mode
        /\ b.hold = inp.hold /\ b.origin = inp.origin /\ b.talkedOver = inp.talkedOver
        /\ b.bound = inp.bound /\ b.waits = inp.waits /\ b.leaked = inp.leaked
    BY <1>2, <2>3, <2>5, ZenonT(30) DEF InputRecord
  <2>11. \A m : Older(b, m) <=> Older(inp, m) BY <2>7 DEF Older
  <2>12. InputInv(b) BY <1>3, <2>6, <2>11, <2>7 DEF InputInv, ChainSound, OutSound, FlagsSound
  <2>13. CASE ~inp.waits BY <2>4, <2>13, <1>5, <2>2, <2>6, <2>7, <1>3, <2>12, FinishBodyKeeps
  <2> QED BY <2>4, <2>6, <2>7, <2>12, <2>13
<1> QED BY <1>9, <1>10

\* The cancelled answer is over: the body goes on.
LEMMA CancelReturnsKeeps == InputsInv /\ CancelReturns => InputsInv'
<1> SUFFICES ASSUME InputsInv, CancelReturns PROVE InputsInv' OBVIOUS
<1> QED BY FinishBodyKeeps DEF InputsInv, CancelReturns, InputInv, FlagsSound

\* A step of that kind.
LEMMA SameOutStep ==
  ASSUME InputsInv, NEW j, SameOut(inp, j), FlagsSound(j), j.waits = inp.waits
  PROVE  InputInv(j) /\ (j.busy => j.waits)
BY SameOutKeeps DEF InputsInv, SameOut

\* A released hold.
LEMMA ReleaseSound ==
  ASSUME NEW i, InputInv(i), NEW j, j = ReleaseHold(i)
  PROVE  InputInv(j) /\ j.busy = i.busy /\ j.waits = i.waits
<1>1. i \in InputRecord /\ j = [i EXCEPT !.hold = FALSE] BY DEF InputInv, ReleaseHold
<1>2. SameOut(i, j)
  <2>1. j \in InputRecord BY <1>1, ZenonT(30) DEF InputRecord
  <2>2. /\ j.given = i.given /\ j.chain = i.chain /\ j.sent = i.sent /\ j.held = i.held
        /\ j.lost = i.lost /\ j.recorded = i.recorded /\ j.mode = i.mode /\ j.busy = i.busy
    BY <1>1, ZenonT(30) DEF InputRecord
  <2> QED BY <2>1, <2>2 DEF SameOut
<1>3. FlagsSound(j) /\ j.waits = i.waits
  <2>1. /\ ~j.hold /\ j.token = i.token /\ j.origin = i.origin /\ j.leaked = i.leaked
        /\ j.stale = i.stale /\ j.talkedOver = i.talkedOver /\ j.bound = i.bound
        /\ j.waits = i.waits /\ j.busy = i.busy
    BY <1>1, ZenonT(30) DEF InputRecord
  <2> QED BY <2>1 DEF InputInv, FlagsSound
<1> QED BY <1>2, <1>3, SameOutKeeps DEF SameOut

\* What is enqueued finds the rest as it was.
LEMMA EnqueueStep ==
  ASSUME NEW i, InputInv(i), i.busy => i.waits, NEW kind \in {"typed", "transcript", "fix"},
         inp' = EnqueueInput(i, kind)
  PROVE  InputsInv'
<1>1. InputInv(inp') BY EnqueueKeeps
<1> QED BY <1>1 DEF InputsInv, InputInv, EnqueueInput, InputRecord

\* The calls that enqueue an input.
LEMMA CallsKeep ==
  InputsInv /\ (TextInput \/ InjectTranscript \/ InjectDictation \/ Correct) => InputsInv'
<1> SUFFICES ASSUME InputsInv, TextInput \/ InjectTranscript \/ InjectDictation \/ Correct
             PROVE  InputsInv'
  OBVIOUS
<1> DEFINE r == ReleaseHold(inp)
           e == [inp EXCEPT !.buffer = 0]
           d == ReleaseHold(e)
<1>1. InputInv(inp) /\ inp \in InputRecord /\ (inp.busy => inp.waits) BY DEF InputsInv, InputInv
<1>2. InputInv(r) /\ (r.busy => r.waits) BY <1>1, ReleaseSound
<1>3. InputInv(e) /\ (e.busy => e.waits)
  <2> DEFINE z == 0
  <2>1. z \in Nat /\ e = [inp EXCEPT !.buffer = z] OBVIOUS
  <2> HIDE DEF z, e
  <2>2. /\ e \in InputRecord /\ e.waits = inp.waits
        /\ e.given = inp.given /\ e.chain = inp.chain /\ e.sent = inp.sent /\ e.held = inp.held
        /\ e.lost = inp.lost /\ e.recorded = inp.recorded /\ e.mode = inp.mode
        /\ e.busy = inp.busy
    BY <1>1, <2>1, ZenonT(30) DEF InputRecord
  <2>3. /\ e.hold = inp.hold /\ e.token = inp.token /\ e.origin = inp.origin
        /\ e.leaked = inp.leaked /\ e.stale = inp.stale /\ e.talkedOver = inp.talkedOver
        /\ e.bound = inp.bound
    BY <1>1, <2>1, ZenonT(30) DEF InputRecord
  <2>4. FlagsSound(e) BY <1>1, <2>2, <2>3 DEF InputInv, FlagsSound
  <2>5. SameOut(inp, e) BY <2>2 DEF SameOut
  <2> QED BY <2>2, <2>4, <2>5, SameOutStep
<1>4. InputInv(d) /\ (d.busy => d.waits)
  <2> HIDE DEF e
  <2> QED BY ReleaseSound, <1>3
<1>5. \/ inp' = EnqueueInput(r, "typed") \/ inp' = EnqueueInput(r, "transcript")
      \/ inp' = EnqueueInput(d, "transcript") \/ inp' = EnqueueInput(inp, "fix")
  BY DEF TextInput, InjectTranscript, InjectDictation, Correct
<1> HIDE DEF r, e, d
<1> QED BY <1>1, <1>2, <1>4, <1>5, EnqueueStep

\* A session does between the inputs what leaves them as they are.
LEMMA InjectTextKeeps == InputsInv /\ InjectText => InputsInv'
<1> SUFFICES ASSUME InputsInv, InjectText PROVE InputsInv' OBVIOUS
<1>1. inp \in InputRecord /\ FlagsSound(inp) BY DEF InputsInv, InputInv
<1>2. PICK live \in BOOLEAN :
        inp' = [inp EXCEPT !.synthetic = @ + 1, !.token = @ /\ ~live,
                           !.origin = IF live THEN "assistant_initiated" ELSE @]
  BY DEF InjectText
<1>3. CASE live
  <2> DEFINE n == inp.synthetic + 1
  <2>1. inp' = [inp EXCEPT !.synthetic = n, !.token = FALSE, !.origin = "assistant_initiated"]
    BY <1>1, <1>2, <1>3, ZenonT(30) DEF InputRecord
  <2>2. n \in Nat BY <1>1 DEF InputRecord
  <2> HIDE DEF n
  <2>3. inp' \in InputRecord BY <1>1, <2>1, <2>2, ZenonT(30) DEF InputRecord
  <2>4. /\ inp'.given = inp.given /\ inp'.chain = inp.chain /\ inp'.sent = inp.sent
        /\ inp'.held = inp.held /\ inp'.lost = inp.lost /\ inp'.recorded = inp.recorded
        /\ inp'.busy = inp.busy /\ inp'.waits = inp.waits
    BY <1>1, <2>1, ZenonT(30) DEF InputRecord
  <2>5. /\ inp'.mode = inp.mode /\ inp'.hold = inp.hold /\ ~inp'.token
        /\ inp'.origin = "assistant_initiated" /\ inp'.leaked = inp.leaked
        /\ inp'.stale = inp.stale /\ inp'.talkedOver = inp.talkedOver /\ inp'.bound = inp.bound
    BY <1>1, <2>1, ZenonT(30) DEF InputRecord
  <2> QED BY <2>4, SameOutStep, <1>1, <2>3, <2>5 DEF InputsInv, FlagsSound, SameOut
<1>4. CASE ~live
  <2> DEFINE n == inp.synthetic + 1
  <2>1. inp' = [inp EXCEPT !.synthetic = n] BY <1>1, <1>2, <1>4, ZenonT(30) DEF InputRecord
  <2>2. n \in Nat BY <1>1 DEF InputRecord
  <2> HIDE DEF n
  <2>3. inp' \in InputRecord BY <1>1, <2>1, <2>2, ZenonT(30) DEF InputRecord
  <2>4. /\ inp'.given = inp.given /\ inp'.chain = inp.chain /\ inp'.sent = inp.sent
        /\ inp'.held = inp.held /\ inp'.lost = inp.lost /\ inp'.recorded = inp.recorded
        /\ inp'.busy = inp.busy /\ inp'.waits = inp.waits
    BY <1>1, <2>1, ZenonT(30) DEF InputRecord
  <2>5. /\ inp'.mode = inp.mode /\ inp'.hold = inp.hold /\ inp'.token = inp.token
             /\ inp'.origin = inp.origin
        /\ inp'.leaked = inp.leaked /\ inp'.stale = inp.stale /\ inp'.talkedOver = inp.talkedOver
                /\ inp'.bound = inp.bound
    BY <1>1, <2>1, ZenonT(30) DEF InputRecord
  <2> QED BY <2>4, SameOutStep, <1>1, <2>3, <2>5 DEF InputsInv, FlagsSound, SameOut
<1> QED BY <1>3, <1>4

\* A triggered answer takes the token, and nothing leaves while it is held.
LEMMA GuardedTriggerGenerationKeeps == InputsInv /\ GuardedTriggerGeneration => InputsInv'
<1> SUFFICES ASSUME InputsInv, GuardedTriggerGeneration PROVE InputsInv' OBVIOUS
<1>1. inp \in InputRecord /\ FlagsSound(inp) BY DEF InputsInv, InputInv
<1> DEFINE n == inp.synthetic + 1
           i == [inp EXCEPT !.synthetic = n]
<1>2. inp' = Trigger(i) /\ n \in Nat
  <2>1. inp.synthetic \in Nat BY <1>1 DEF InputRecord
  <2> QED BY <2>1 DEF GuardedTriggerGeneration
<1>3. i.hold = inp.hold /\ i.leaked = inp.leaked BY <1>1, ZenonT(30) DEF InputRecord
<1>4. CASE ~inp.hold
  <2>1. inp' = [inp EXCEPT !.synthetic = n, !.token = FALSE, !.origin = "assistant_initiated"]
    BY <1>1, <1>2, <1>3, <1>4 DEF Trigger, FlagsSound, InputRecord
  <2> HIDE DEF n, i
  <2>3. inp' \in InputRecord BY <1>1, <1>2, <2>1, ZenonT(30) DEF InputRecord
  <2>4. /\ inp'.given = inp.given /\ inp'.chain = inp.chain /\ inp'.sent = inp.sent
        /\ inp'.held = inp.held /\ inp'.lost = inp.lost /\ inp'.recorded = inp.recorded
        /\ inp'.busy = inp.busy /\ inp'.waits = inp.waits
    BY <1>1, <2>1, ZenonT(30) DEF InputRecord
  <2>5. /\ inp'.mode = inp.mode /\ inp'.hold = inp.hold /\ ~inp'.token
        /\ inp'.origin = "assistant_initiated" /\ inp'.leaked = inp.leaked
        /\ inp'.stale = inp.stale /\ inp'.talkedOver = inp.talkedOver /\ inp'.bound = inp.bound
    BY <1>1, <2>1, ZenonT(30) DEF InputRecord
  <2> QED BY <2>4, SameOutStep, <1>1, <2>3, <2>5 DEF InputsInv, FlagsSound, SameOut
<1>5. CASE inp.hold
  <2>1. inp' = [inp EXCEPT !.synthetic = n] BY <1>2, <1>3, <1>5 DEF Trigger
  <2> HIDE DEF n, i
  <2>3. inp' \in InputRecord BY <1>1, <1>2, <2>1, ZenonT(30) DEF InputRecord
  <2>4. /\ inp'.given = inp.given /\ inp'.chain = inp.chain /\ inp'.sent = inp.sent
        /\ inp'.held = inp.held /\ inp'.lost = inp.lost /\ inp'.recorded = inp.recorded
        /\ inp'.busy = inp.busy /\ inp'.waits = inp.waits
    BY <1>1, <2>1, ZenonT(30) DEF InputRecord
  <2>5. /\ inp'.mode = inp.mode /\ inp'.hold = inp.hold /\ inp'.token = inp.token
             /\ inp'.origin = inp.origin
        /\ inp'.leaked = inp.leaked /\ inp'.stale = inp.stale /\ inp'.talkedOver = inp.talkedOver
                /\ inp'.bound = inp.bound
    BY <1>1, <2>1, ZenonT(30) DEF InputRecord
  <2> QED BY <2>4, SameOutStep, <1>1, <2>3, <2>5 DEF InputsInv, FlagsSound, SameOut
<1> QED BY <1>4, <1>5

\* A turn takes the origin with it; no answer to typed text has a token.
LEMMA TurnStartsKeeps == InputsInv /\ TurnStarts => InputsInv'
<1> SUFFICES ASSUME InputsInv, TurnStarts PROVE InputsInv' OBVIOUS
<1>1. inp \in InputRecord /\ FlagsSound(inp) BY DEF InputsInv, InputInv
<1>2. ~(inp.bound \/ (inp.token /\ inp.origin = "user_text")) BY <1>1 DEF FlagsSound
<1>3. inp' = [inp EXCEPT !.open = TRUE, !.origin = "none", !.token = FALSE, !.bound = FALSE]
  BY <1>2 DEF TurnStarts
<1>4. inp' \in InputRecord BY <1>1, <1>2, <1>3, ZenonT(30) DEF InputRecord
<1>5. /\ inp'.given = inp.given /\ inp'.chain = inp.chain /\ inp'.sent = inp.sent
        /\ inp'.held = inp.held /\ inp'.lost = inp.lost /\ inp'.recorded = inp.recorded
        /\ inp'.busy = inp.busy /\ inp'.waits = inp.waits
  BY <1>1, <1>3, ZenonT(30) DEF InputRecord
<1>6. /\ inp'.mode = inp.mode /\ inp'.hold = inp.hold /\ inp'.leaked = inp.leaked
           /\ inp'.stale = inp.stale
        /\ inp'.talkedOver = inp.talkedOver
  BY <1>1, <1>3, ZenonT(30) DEF InputRecord
<1>7. FlagsSound(inp')
  <2>1. ~inp'.bound /\ ~inp'.token /\ inp'.origin = "none"
    BY <1>1, <1>3, ZenonT(30) DEF InputRecord
  <2> QED BY <2>1, <1>1, <1>5, <1>6 DEF FlagsSound
<1>8. SameOut(inp, inp') BY <1>4, <1>5, <1>6 DEF SameOut
<1> QED BY <1>5, <1>7, <1>8, SameOutStep DEF InputsInv

\* A turn ends.
LEMMA TurnEndsKeeps == InputsInv /\ TurnEnds => InputsInv'
<1> SUFFICES ASSUME InputsInv, TurnEnds PROVE InputsInv' OBVIOUS
<1>1. inp \in InputRecord /\ FlagsSound(inp) BY DEF InputsInv, InputInv
<1>3. /\ SameOut(inp, inp') /\ inp'.hold = inp.hold /\ inp'.token = inp.token
      /\ inp'.origin = inp.origin /\ inp'.leaked = inp.leaked /\ inp'.stale = inp.stale
      /\ inp'.talkedOver = inp.talkedOver /\ inp'.bound = inp.bound /\ inp'.waits = inp.waits
  BY <1>1, FinalizeSound DEF TurnEnds
<1>4. FlagsSound(inp') BY <1>1, <1>3 DEF FlagsSound, SameOut
<1> QED BY <1>3, <1>4, SameOutStep DEF InputsInv

\* Another connection is made: synthetic output is held, and the turn over.
LEMMA RecoverKeeps == InputsInv /\ Recover => InputsInv'
<1> SUFFICES ASSUME InputsInv, Recover PROVE InputsInv' OBVIOUS
<1>1. inp \in InputRecord /\ FlagsSound(inp) /\ ~inp.waits BY DEF InputsInv, InputInv, Recover
<1> DEFINE e == Finalize(inp, inp.turn)
<1>2. /\ SameOut(inp, e) /\ e.hold = inp.hold /\ e.leaked = inp.leaked /\ e.stale = inp.stale
      /\ e.talkedOver = inp.talkedOver /\ e.bound = inp.bound /\ e.waits = inp.waits
  BY <1>1, FinalizeSound
<1>3. PICK held \in BOOLEAN :
        inp' = [e EXCEPT !.up = FALSE, !.hold = @ \/ held, !.seeded = FALSE,
                         !.origin = "none", !.token = FALSE, !.recoveries = @ + 1]
  BY DEF Recover
<1> HIDE DEF e
<1> DEFINE h == e.hold \/ held
           n == e.recoveries + 1
<1>4. e \in InputRecord BY <1>2 DEF SameOut
<1>5. h \in BOOLEAN /\ n \in Nat BY <1>4 DEF InputRecord
<1>6. inp' = [e EXCEPT !.up = FALSE, !.hold = h, !.seeded = FALSE,
                       !.origin = "none", !.token = FALSE, !.recoveries = n]
  BY <1>3
<1> HIDE DEF h, n
<1>7. inp' \in InputRecord
  <2> DEFINE z == [e EXCEPT !.up = FALSE, !.hold = h, !.seeded = FALSE]
  <2>1. z \in InputRecord BY <1>4, <1>5, ZenonT(30) DEF InputRecord
  <2>2. inp' = [z EXCEPT !.origin = "none", !.token = FALSE, !.recoveries = n] BY <1>6
  <2> HIDE DEF z
  <2> QED BY <1>5, <2>1, <2>2, ZenonT(30) DEF InputRecord
<1>8. /\ inp'.given = e.given /\ inp'.chain = e.chain /\ inp'.sent = e.sent
      /\ inp'.held = e.held /\ inp'.lost = e.lost /\ inp'.recorded = e.recorded
      /\ inp'.busy = e.busy /\ inp'.mode = e.mode
  BY <1>4, <1>6, ZenonT(30) DEF InputRecord
<1>9. /\ inp'.waits = e.waits /\ ~inp'.token /\ inp'.origin = "none" /\ inp'.leaked = e.leaked
      /\ inp'.stale = e.stale /\ inp'.talkedOver = e.talkedOver /\ inp'.bound = e.bound
  BY <1>4, <1>6, ZenonT(30) DEF InputRecord
<1> QED BY <1>2, <1>9, SameOutStep, <1>7, <1>8, <1>1 DEF InputsInv, SameOut, FlagsSound

\* Fresh speech releases what is held.
LEMMA FreshSpeechKeeps == InputsInv /\ FreshSpeech => InputsInv'
<1> SUFFICES ASSUME InputsInv, FreshSpeech PROVE InputsInv' OBVIOUS
<1> QED BY ReleaseSound DEF InputsInv, FreshSpeech

\* The new connection is up.
LEMMA ReplacementKeeps == InputsInv /\ Replacement => InputsInv'
<1> SUFFICES ASSUME InputsInv, Replacement PROVE InputsInv' OBVIOUS
<1>1. inp \in InputRecord /\ FlagsSound(inp) BY DEF InputsInv, InputInv
<1>3. inp' = [inp EXCEPT !.up = TRUE, !.seeded = ~inp.hold] BY DEF Replacement
<1>4. inp' \in InputRecord BY <1>1, <1>3, ZenonT(30) DEF InputRecord
<1>5. /\ inp'.given = inp.given /\ inp'.chain = inp.chain /\ inp'.sent = inp.sent
        /\ inp'.held = inp.held /\ inp'.lost = inp.lost /\ inp'.recorded = inp.recorded
        /\ inp'.busy = inp.busy /\ inp'.waits = inp.waits
  BY <1>1, <1>3, ZenonT(30) DEF InputRecord
<1>6. /\ inp'.mode = inp.mode /\ inp'.hold = inp.hold /\ inp'.token = inp.token
           /\ inp'.origin = inp.origin
        /\ inp'.leaked = inp.leaked /\ inp'.stale = inp.stale /\ inp'.talkedOver = inp.talkedOver
                /\ inp'.bound = inp.bound
  BY <1>1, <1>3, ZenonT(30) DEF InputRecord
<1>7. FlagsSound(inp') BY <1>1, <1>5, <1>6 DEF FlagsSound
<1>8. SameOut(inp, inp') BY <1>4, <1>5, <1>6 DEF SameOut
<1> QED BY <1>5, <1>7, <1>8, SameOutStep DEF InputsInv

\* Dictation has a text.
LEMMA DictationFinalKeeps == InputsInv /\ DictationFinal => InputsInv'
<1> SUFFICES ASSUME InputsInv, DictationFinal PROVE InputsInv' OBVIOUS
<1>1. inp \in InputRecord /\ FlagsSound(inp) BY DEF InputsInv, InputInv
<1>3. inp' = [inp EXCEPT !.buffer = 1] BY DEF DictationFinal
<1>4. inp' \in InputRecord BY <1>1, <1>3, ZenonT(30) DEF InputRecord
<1>5. /\ inp'.given = inp.given /\ inp'.chain = inp.chain /\ inp'.sent = inp.sent
        /\ inp'.held = inp.held /\ inp'.lost = inp.lost /\ inp'.recorded = inp.recorded
        /\ inp'.busy = inp.busy /\ inp'.waits = inp.waits
  BY <1>1, <1>3, ZenonT(30) DEF InputRecord
<1>6. /\ inp'.mode = inp.mode /\ inp'.hold = inp.hold /\ inp'.token = inp.token
           /\ inp'.origin = inp.origin
        /\ inp'.leaked = inp.leaked /\ inp'.stale = inp.stale /\ inp'.talkedOver = inp.talkedOver
                /\ inp'.bound = inp.bound
  BY <1>1, <1>3, ZenonT(30) DEF InputRecord
<1>7. FlagsSound(inp') BY <1>1, <1>5, <1>6 DEF FlagsSound
<1>8. SameOut(inp, inp') BY <1>4, <1>5, <1>6 DEF SameOut
<1> QED BY <1>5, <1>7, <1>8, SameOutStep DEF InputsInv

\* Dictation begins: what is sent from now on is kept.
LEMMA EnterDictationKeeps == InputsInv /\ EnterDictation => InputsInv'
<1> SUFFICES ASSUME InputsInv, EnterDictation PROVE InputsInv' OBVIOUS
<1> DEFINE n == inp.flips + 1
<1>1. inp \in InputRecord /\ FlagsSound(inp) /\ OutSound(inp) /\ InputInv(inp)
  BY DEF InputsInv, InputInv
<1>2. inp' = [inp EXCEPT !.mode = "transcription", !.flips = n] BY DEF EnterDictation
<1>3. n \in Nat BY <1>1 DEF InputRecord
<1> HIDE DEF n
<1>4. inp' \in InputRecord /\ inp'.mode = "transcription"
  BY <1>1, <1>2, <1>3, ZenonT(30) DEF InputRecord
<1>5. /\ inp'.given = inp.given /\ inp'.chain = inp.chain /\ inp'.sent = inp.sent
        /\ inp'.held = inp.held /\ inp'.lost = inp.lost /\ inp'.recorded = inp.recorded
        /\ inp'.busy = inp.busy /\ inp'.waits = inp.waits
  BY <1>1, <1>2, ZenonT(30) DEF InputRecord
<1>6. /\ inp'.hold = inp.hold /\ inp'.token = inp.token /\ inp'.origin = inp.origin
           /\ inp'.leaked = inp.leaked
        /\ inp'.stale = inp.stale /\ inp'.talkedOver = inp.talkedOver /\ inp'.bound = inp.bound
  BY <1>1, <1>2, ZenonT(30) DEF InputRecord
<1>10. \A m : Older(inp', m) <=> Older(inp, m) BY <1>5 DEF Older
<1> QED BY <1>1, <1>4, <1>5, <1>10, <1>6 DEF InputsInv, InputInv, FlagsSound, OutSound, ChainSound

\* Two increasing sequences, of which the second goes on where the first ends.
LEMMA IncreasingConcat ==
  ASSUME NEW s \in Seq(Nat), NEW h \in Seq(Nat), Increasing(s), Increasing(h),
         \A a \in 1..Len(s), b \in 1..Len(h) : s[a] < h[b]
  PROVE  /\ Increasing(s \o h)
         /\ \A a \in 1..Len(s \o h) : \/ a \in 1..Len(s) /\ (s \o h)[a] = s[a]
                                      \/ a - Len(s) \in 1..Len(h) /\ (s \o h)[a] = h[a - Len(s)]
<1> DEFINE c == s \o h
<1>1. Len(h) \in Nat /\ Len(s) \in Nat BY LenProperties
<1>2. /\ c \in Seq(Nat) /\ Len(c) = Len(s) + Len(h)
      /\ \A a \in 1..Len(s) + Len(h) : c[a] = IF a <= Len(s) THEN s[a] ELSE h[a - Len(s)]
  BY ConcatProperties
<1> HIDE DEF c
<1>3. \A a \in 1..Len(c) : \/ a \in 1..Len(s) /\ c[a] = s[a]
                           \/ a - Len(s) \in 1..Len(h) /\ c[a] = h[a - Len(s)] /\ a > Len(s)
  <2>1. ASSUME NEW a \in 1..Len(c), a <= Len(s) PROVE a \in 1..Len(s) /\ c[a] = s[a]
    BY <1>1, <1>2, <2>1
  <2>2. ASSUME NEW a \in 1..Len(c), ~(a <= Len(s))
        PROVE  a - Len(s) \in 1..Len(h) /\ c[a] = h[a - Len(s)] /\ a > Len(s)
    BY <1>1, <1>2, <2>2
  <2>3. ASSUME NEW a \in 1..Len(c)
        PROVE  \/ a \in 1..Len(s) /\ c[a] = s[a]
               \/ a - Len(s) \in 1..Len(h) /\ c[a] = h[a - Len(s)] /\ a > Len(s)
    <3>1. CASE a <= Len(s) BY <2>1, <3>1
    <3>2. CASE ~(a <= Len(s)) BY <2>2, <3>2
    <3> QED BY <3>1, <3>2
  <2> QED BY <2>3
<1>4. ASSUME NEW a \in 1..Len(c), NEW b \in 1..Len(c), a < b PROVE c[a] < c[b]
  <2>1. CASE a \in 1..Len(s) /\ b \in 1..Len(s)
    <3>1. c[a] = s[a] /\ c[b] = s[b] BY <1>1, <1>2, <2>1
    <3> QED BY <3>1, <2>1, <1>4 DEF Increasing
  <2>2. CASE a \in 1..Len(s) /\ b > Len(s)
    <3>1. b - Len(s) \in 1..Len(h) /\ c[b] = h[b - Len(s)] BY <1>1, <1>3, <2>2
    <3>2. c[a] = s[a] BY <1>1, <1>2, <2>2
    <3> QED BY <3>1, <3>2, <2>2
  <2>3. CASE a > Len(s)
    <3>1. /\ a - Len(s) \in 1..Len(h) /\ c[a] = h[a - Len(s)]
          /\ b - Len(s) \in 1..Len(h) /\ c[b] = h[b - Len(s)]
          /\ a - Len(s) < b - Len(s)
      BY <1>1, <1>2, <1>3, <1>4, <2>3
    <3> QED BY <3>1 DEF Increasing
  <2> QED BY <1>1, <1>2, <2>1, <2>2, <2>3
<1> QED BY <1>3, <1>4 DEF Increasing, c

\* Dictation ends: what was kept follows what was sent, or is lost.
LEMMA ExitDictationKeeps == InputsInv /\ ExitDictation => InputsInv'
<1> SUFFICES ASSUME InputsInv, ExitDictation PROVE InputsInv' OBVIOUS
<1> DEFINE h == inp.held
           s == inp.sent
           went == IF inp.up THEN s \o h ELSE s
           gone == IF inp.up THEN inp.lost ELSE inp.lost \cup ToSet(h)
           none == <<>>
<1>1. inp \in InputRecord /\ FlagsSound(inp) /\ OutSound(inp) /\ InputInv(inp)
  BY DEF InputsInv, InputInv
<1>2. inp' = [inp EXCEPT !.mode = "agent", !.held = none, !.sent = went, !.lost = gone]
  <2>1. CASE inp.up
    <3>1. inp' = [inp EXCEPT !.mode = "agent", !.held = <<>>, !.sent = s \o h]
      BY <2>1 DEF ExitDictation
    <3> QED BY <1>1, <2>1, <3>1, ZenonT(30) DEF InputRecord
  <2>2. CASE ~inp.up
    <3>1. inp' = [inp EXCEPT !.mode = "agent", !.held = <<>>, !.lost = inp.lost \cup ToSet(h)]
      BY <2>2 DEF ExitDictation
    <3> QED BY <1>1, <2>2, <3>1, ZenonT(30) DEF InputRecord
  <2> QED BY <2>1, <2>2
<1>3. /\ h \in Seq(Nat) /\ s \in Seq(Nat) /\ Len(h) \in Nat /\ Len(s) \in Nat
      /\ DOMAIN h = 1..Len(h) /\ DOMAIN s = 1..Len(s) /\ inp.lost \in SUBSET Nat
      /\ none \in Seq(Nat) /\ Len(none) = 0
  <2>1. h \in Seq(Nat) /\ s \in Seq(Nat) /\ inp.lost \in SUBSET Nat
    BY <1>1, ZenonT(30) DEF InputRecord
  <2> QED BY <2>1, LenProperties, EmptySeq
<1>6. /\ Increasing(s) /\ Increasing(h) /\ \A a \in 1..Len(s), b \in 1..Len(h) : s[a] < h[b]
      /\ ToSet(inp.recorded) \subseteq ToSet(s) \cup ToSet(h) \cup inp.lost
  BY <1>1 DEF OutSound
<1>7. /\ went \in Seq(Nat) /\ gone \in SUBSET Nat /\ Increasing(went)
      /\ ToSet(s) \cup ToSet(h) \cup inp.lost \subseteq ToSet(went) \cup gone
      /\ \A a \in 1..Len(went) : (\E b \in 1..Len(s) : went[a] = s[b])
                                \/ (\E b \in 1..Len(h) : went[a] = h[b])
  <2>1. CASE ~inp.up BY <2>1, <1>3, <1>6, ElementOfSeq DEF ToSet
  <2>2. CASE inp.up
    <3> DEFINE c == s \o h
    <3>1. /\ c \in Seq(Nat) /\ Len(c) = Len(s) + Len(h)
          /\ \A a \in 1..Len(s) + Len(h) : c[a] = IF a <= Len(s) THEN s[a] ELSE h[a - Len(s)]
      <4>1. s \in Seq(Nat) /\ h \in Seq(Nat) BY <1>3
      <4> HIDE DEF s, h
      <4> QED BY <4>1, ConcatProperties
    <3>2. DOMAIN c = 1..Len(c) BY <3>1, LenProperties
    <3>3. went = c /\ gone = inp.lost BY <2>2
    <3> HIDE DEF c, s, h, went, gone
    <3>4. /\ Increasing(c)
          /\ \A a \in 1..Len(c) : \/ a \in 1..Len(s) /\ c[a] = s[a]
                                  \/ a - Len(s) \in 1..Len(h) /\ c[a] = h[a - Len(s)]
      BY <1>3, <1>6, IncreasingConcat DEF c
    <3>6. Increasing(went) BY <3>3, <3>4
    <3>7. ToSet(s) \cup ToSet(h) \subseteq ToSet(c)
      <4>1. ASSUME NEW a \in 1..Len(s) PROVE a \in 1..Len(c) /\ c[a] = s[a] BY <1>3, <3>1
      <4>2. ASSUME NEW a \in 1..Len(h)
            PROVE  a + Len(s) \in 1..Len(c) /\ c[a + Len(s)] = h[a]
        <5>1. a + Len(s) \in 1..Len(s) + Len(h) /\ ~(a + Len(s) <= Len(s))
              /\ (a + Len(s)) - Len(s) = a
          BY <1>3
        <5> QED BY <5>1, <3>1
      <4>3. ASSUME NEW x \in ToSet(s) PROVE x \in ToSet(c)
        <5>1. PICK a \in 1..Len(s) : x = s[a] BY <4>3, <1>3 DEF ToSet
        <5> QED BY <4>1, <5>1, <3>2 DEF ToSet
      <4>4. ASSUME NEW x \in ToSet(h) PROVE x \in ToSet(c)
        <5>1. PICK a \in 1..Len(h) : x = h[a] BY <4>4, <1>3 DEF ToSet
        <5> QED BY <4>2, <5>1, <3>2 DEF ToSet
      <4> QED BY <4>3, <4>4
    <3> QED BY <1>3, <3>1, <3>3, <3>4, <3>6, <3>7
  <2> QED BY <2>1, <2>2
<1> HIDE DEF went, gone, none
<1>8. inp' \in InputRecord /\ inp'.mode = "agent" /\ inp'.held = none /\ inp'.sent = went
      /\ inp'.lost = gone
  BY <1>1, <1>2, <1>3, <1>7, ZenonT(30) DEF InputRecord
<1>9. /\ inp'.given = inp.given /\ inp'.chain = inp.chain /\ inp'.recorded = inp.recorded
      /\ inp'.busy = inp.busy /\ inp'.waits = inp.waits
  BY <1>1, <1>2, ZenonT(30) DEF InputRecord
<1>10. /\ inp'.hold = inp.hold /\ inp'.token = inp.token /\ inp'.origin = inp.origin
       /\ inp'.leaked = inp.leaked /\ inp'.stale = inp.stale /\ inp'.talkedOver = inp.talkedOver
       /\ inp'.bound = inp.bound
  BY <1>1, <1>2, ZenonT(30) DEF InputRecord
<1>12. OutSound(inp') BY <1>3, <1>8, <1>1, <1>9, <1>6, <1>7 DEF none, Increasing, OutSound
<1>14. ASSUME NEW m, Older(inp, m) PROVE Older(inp', m)
  <2>2. \A a \in 1..Len(inp'.held) : inp'.held[a] < m BY <1>3, <1>8
  <2> QED BY <2>2, <1>8, <1>9, <1>14, <1>7 DEF Older
<1> QED BY <1>1, <1>8, <1>9, <1>12, <1>14, <1>10 DEF InputsInv, InputInv, FlagsSound, ChainSound

-----------------------------------------------------------------------------
\* A declaration takes the place of those before it, until it is rejected.
LEMMA DeclareKeeps == DeclarationInv /\ Declare => DeclarationInv'
<1> SUFFICES ASSUME DeclarationInv, Declare PROVE DeclarationInv' OBVIOUS
<1> DEFINE n == decl.calls + 1
           c == [n |-> n, previous |-> decl.current]
           p == decl.pending \cup {c}
<1>1. /\ decl \in Declarations /\ decl.calls \in Nat /\ decl.current \in Nat
           /\ decl.accepted \in Nat
      /\ decl.pending \in SUBSET [n : Nat, previous : Nat]
  BY DEF DeclarationInv, Declarations
<1>2. decl' = [decl EXCEPT !.current = n, !.calls = n, !.latest = n, !.pending = p] BY DEF Declare
<1>3. /\ n \in Nat /\ c.n = n /\ p \in SUBSET [n : Nat, previous : Nat]
      /\ \A q \in p : q = c \/ q \in decl.pending
  BY <1>1
<1> HIDE DEF c, p
<1>4. /\ decl'.current = n /\ decl'.calls = n /\ decl'.latest = n /\ decl'.pending = p
      /\ decl'.accepted = decl.accepted /\ decl' \in Declarations
  BY <1>1, <1>2, <1>3 DEF Declarations
<1>5. /\ decl.accepted < n /\ \A q \in decl.pending : q.n \in Nat /\ q.n < n
  BY <1>1 DEF DeclarationInv
<1>7. \A q, r \in p : q.n = r.n => q = r BY <1>1, <1>3, <1>5 DEF DeclarationInv
<1> QED BY <1>1, <1>4, <1>5, <1>7, <1>3 DEF DeclarationInv

\* A call is settled: it is accepted, or taken back where it still stands.
LEMMA SettlesKeep == DeclarationInv /\ DeclarationSettles => DeclarationInv'
<1> SUFFICES ASSUME DeclarationInv, DeclarationSettles PROVE DeclarationInv' OBVIOUS
<1>1. PICK call \in decl.pending :
        \/ decl' = [decl EXCEPT !.pending = @ \ {call}, !.accepted = call.n]
        \/ decl' = Rejected(decl, call)
  BY DEF DeclarationSettles
<1> DEFINE p == decl.pending \ {call}
<1>2. /\ decl \in Declarations /\ decl.calls \in Nat /\ decl.current \in Nat
           /\ decl.accepted \in Nat
      /\ p \in SUBSET [n : Nat, previous : Nat] /\ call.n \in Nat /\ call.previous \in Nat
  BY DEF DeclarationInv, Declarations
<1>3. /\ call \in decl.pending /\ call \notin p /\ \A q \in p : q \in decl.pending /\ q # call
  OBVIOUS
<1>4. CASE decl' = [decl EXCEPT !.pending = @ \ {call}, !.accepted = call.n]
  <2>1. decl' = [decl EXCEPT !.pending = p, !.accepted = call.n] BY <1>4
  <2> HIDE DEF p
  <2> QED BY <1>3, <1>2, <2>1 DEF DeclarationInv, Declarations
<1>5. CASE decl' = Rejected(decl, call)
  <2> DEFINE k == IF decl.current = call.n THEN call.previous ELSE decl.current
  <2>1. decl' = [decl EXCEPT !.pending = p, !.current = k] BY <1>5 DEF Rejected
  <2>2. k \in Nat BY <1>2
  <2>3. k = decl.current \/ decl.current = call.n OBVIOUS
  <2> HIDE DEF p, k
  <2>6. ASSUME NEW q \in p, q.n = decl.latest PROVE k = decl.latest
    BY <1>3, <2>3, <2>6 DEF DeclarationInv
  <2> QED BY <1>3, <2>6, <1>2, <2>1, <2>2, <2>3 DEF DeclarationInv, Declarations
<1> QED BY <1>1, <1>4, <1>5

\* The list of another agent is taken at once.
LEMMA TransferDeclaresKeeps == DeclarationInv /\ TransferDeclares => DeclarationInv'
<1> SUFFICES ASSUME DeclarationInv, TransferDeclares PROVE DeclarationInv' OBVIOUS
<1> DEFINE n == decl.calls + 1
<1>1. /\ decl \in Declarations /\ decl.calls \in Nat /\ n \in Nat
      /\ decl.pending \in SUBSET [n : Nat, previous : Nat]
  BY DEF DeclarationInv, Declarations
<1>2. decl' = [decl EXCEPT !.calls = n, !.current = n, !.accepted = n, !.latest = n]
  BY DEF TransferDeclares
<1>3. \A q \in decl.pending : q.n \in Nat /\ q.n < n BY <1>1 DEF DeclarationInv
<1>4. n <= n BY <1>1
<1> HIDE DEF n
<1>6. \A q \in decl.pending : q.n <= n /\ q.n # n BY <1>1, <1>3
<1> QED BY <1>1, <1>4, <1>6, <1>2 DEF DeclarationInv, Declarations

-----------------------------------------------------------------------------
\* Nothing was said or declared.
LEMMA SessionInputsStart == SessionInputsInit => SessionInputsInv
<1> SUFFICES ASSUME SessionInputsInit PROVE SessionInputsInv OBVIOUS
<1> DEFINE e == <<>>
           o == 0
           none == {}
<1>1. /\ e \in Seq(Nat) /\ e \in Seq(Bodies) /\ Len(e) = 0 /\ DOMAIN e = {} /\ o \in Nat
      /\ none \in SUBSET Nat /\ NoTurn \in Nat
  BY EmptySeq, LenProperties DEF NoTurn
<1>2. PICK waits \in BOOLEAN :
    inp = [waits |-> waits, up |-> TRUE, mode |-> "agent", hold |-> FALSE, turn |-> o,
           open |-> FALSE, token |-> TRUE, origin |-> "none", given |-> o, chain |-> e,
             busy |-> FALSE,
           cut |-> NoTurn, sent |-> e, held |-> e, lost |-> none, recorded |-> e,
           buffer |-> o, synthetic |-> o, recoveries |-> o, flips |-> o, seeded |-> TRUE,
           leaked |-> FALSE, stale |-> FALSE, talkedOver |-> FALSE, bound |-> FALSE]
  BY DEF SessionInputsInit, InputsInit
<1>3. e = <<>> /\ none = {} OBVIOUS
<1>4. ToSet(e) = {} BY <1>1 DEF ToSet
<1>5. DeclarationInv
  <2>1. decl = [current |-> o, calls |-> o, pending |-> {}, accepted |-> o, latest |-> o]
    BY DEF SessionInputsInit, DeclarationsInit
  <2>2. o <= o OBVIOUS
  <2> HIDE DEF o
  <2> QED BY <2>2, <1>1, <2>1 DEF DeclarationInv, Declarations
<1> HIDE DEF e, o, none
<1>6. inp \in InputRecord BY <1>1, <1>2, ZenonT(30) DEF InputRecord
<1>7. /\ inp.given = o /\ inp.chain = e /\ inp.sent = e /\ inp.held = e /\ inp.recorded = e
      /\ inp.mode = "agent" /\ ~inp.busy /\ ~inp.hold /\ inp.origin = "none" /\ ~inp.talkedOver
      /\ ~inp.stale /\ ~inp.bound /\ ~inp.leaked
  BY <1>2
<1>8. Increasing(e) BY <1>1 DEF Increasing
<1>10. OutSound(inp) /\ ChainSound(inp) /\ FlagsSound(inp)
  BY <1>1, <1>3, <1>4, <1>7, <1>8 DEF OutSound, ChainSound, FlagsSound
<1> QED BY <1>1, <1>5, <1>6, <1>7, <1>10 DEF SessionInputsInv, InputsInv, InputInv, Older

\* The inductive invariant of the inputs: what left the chain is older than all
\* that wait, in its order; and the last declaration stands while it may.
THEOREM InputsInductive == SessionInputsSpec => []SessionInputsInv
<1>1. SessionInputsInv /\ [SessionInputsNext]_<<inp, decl>> => SessionInputsInv'
  <2> SUFFICES ASSUME SessionInputsInv, [SessionInputsNext]_<<inp, decl>> PROVE SessionInputsInv'
    OBVIOUS
  <2>1. CASE InputsStep /\ UNCHANGED decl
    <3>1. InputsInv'
      BY <2>1, BodyStartsKeeps, CancelReturnsKeeps, CallsKeep, InjectTextKeeps,
         GuardedTriggerGenerationKeeps, TurnStartsKeeps, TurnEndsKeeps, EnterDictationKeeps,
         DictationFinalKeeps, ExitDictationKeeps, RecoverKeeps, ReplacementKeeps, FreshSpeechKeeps
         DEF InputsStep, SessionInputsInv
    <3> QED BY <2>1, <3>1 DEF SessionInputsInv, DeclarationInv
  <2>2. CASE DeclarationsStep /\ UNCHANGED inp
    BY <2>2, DeclareKeeps, SettlesKeep, TransferDeclaresKeeps DEF DeclarationsStep,
        SessionInputsInv, InputsInv
  <2>3. CASE UNCHANGED <<inp, decl>> BY <2>3 DEF SessionInputsInv, InputsInv, DeclarationInv
  <2> QED BY <2>1, <2>2, <2>3 DEF SessionInputsNext
<1> QED BY SessionInputsStart, <1>1, PTL DEF SessionInputsSpec

\* Direct inputs keep their order, nothing is said over the turn it found, and
\* a rejected declaration takes back no later one: InputsAreOrderly.
THEOREM InputsOrdered == SessionInputsSpec => []InputsAreOrderly
<1>1. SessionInputsInv => InputsAreOrderly
  <2> SUFFICES ASSUME SessionInputsInv PROVE InputsAreOrderly OBVIOUS
  <2> DEFINE s == inp.sent
             h == inp.held
             c == s \o h
  <2>1. inp \in InputRecord /\ OutSound(inp) /\ FlagsSound(inp)
    BY DEF SessionInputsInv, InputsInv, InputInv
  <2>2. s \in Seq(Nat) /\ h \in Seq(Nat) /\ Len(s) \in Nat /\ Len(h) \in Nat
    <3>1. s \in Seq(Nat) /\ h \in Seq(Nat) BY <2>1, ZenonT(30) DEF InputRecord
    <3> QED BY <3>1, LenProperties
  <2>5. InputsKeepOrder BY <2>1, <2>2, IncreasingConcat DEF InputsKeepOrder, OutSound, FlagsSound
  <2> QED BY <2>5 DEF InputsAreOrderly, LaterDeclarationStands, SessionInputsInv,
             DeclarationInv
<1> QED BY <1>1, InputsInductive, PTL

-----------------------------------------------------------------------------
(* What the transport sends upstream.                                      *)

USE GeminiSendingAssumption DEF GeminiSendingAssumption

\* The three variables as one record.
Counters == [attempted : Nat, ended : [Outcomes -> Nat]]

Transports ==
  [session : BOOLEAN, made : 0..MaxSessions, upstream : [Slots -> Counters],
   turns : 0..MaxServerTurns, open : BOOLEAN, windingDown : BOOLEAN, buffer : Seq(Sends),
   config : BOOLEAN, live : BOOLEAN, handle : BOOLEAN]

Guards == [held : BOOLEAN, results : Seq(Sends), contents : Seq(Sends)]

Histories == [next : 1..(MaxSends + 1), last : Nat, late : BOOLEAN, leaked : BOOLEAN,
              answered : BOOLEAN]

Wholes == [out : Transports, guard : Guards, issued : Histories]

\* Every attempt of a slot has ended in one way.
Counted(c) ==
  c.attempted = c.ended["queued"] + c.ended["skippedNoSession"] + c.ended["skippedEmpty"]
                  + c.ended["unsupportedMime"] + c.ended["threw"]

\* The sends of b that the guard never put aside are newer than last, and each
\* newer than those before it.
Fresh(b, last) ==
  /\ \A k \in 1..Len(b) : ~b[k].aside => last < b[k].n
  /\ \A j, k \in 1..Len(b) : j < k /\ ~b[j].aside /\ ~b[k].aside => b[j].n < b[k].n

\* ... and older than next.
Past(b, next) == \A k \in 1..Len(b) : ~b[k].aside => b[k].n < next

AllAside(b) == \A k \in 1..Len(b) : b[k].aside

\* The parts of the invariant that a send keeps.
HistorySound(w) ==
  /\ ~w.issued.late /\ ~w.issued.leaked /\ w.issued.last < w.issued.next

PutAside(w) == AllAside(w.guard.results) /\ AllAside(w.guard.contents)

CountersSound(w) == \A s \in Slots : Counted(w.out.upstream[s])

BufferSound(w) ==
  /\ Fresh(w.out.buffer, w.issued.last) /\ Past(w.out.buffer, w.issued.next)
  /\ w.out.buffer # <<>> => w.out.session /\ w.out.windingDown

WholeSound(w) ==
  w \in Wholes /\ HistorySound(w) /\ PutAside(w) /\ CountersSound(w) /\ BufferSound(w)

\* An attempt is counted twice: as made, and as ended.
LEMMA AccountFlat ==
  ASSUME NEW w \in Wholes, NEW slot \in Slots, NEW o \in Outcomes, NEW y, y = Account(w, slot, o),
         NEW u, u = w.out.upstream[slot]
  PROVE  LET c == [attempted |-> u.attempted + 1,
         ended |-> [u.ended EXCEPT ![o] = u.ended[o] + 1]]
             up == [w.out.upstream EXCEPT ![slot] = c]
         IN  y = [w EXCEPT !.out = [w.out EXCEPT !.upstream = up]]
<1>1. w.out.upstream \in [Slots -> Counters] /\ u \in Counters BY DEF Wholes, Transports
<1> DEFINE c == [attempted |-> u.attempted + 1, ended |-> [u.ended EXCEPT ![o] = u.ended[o] + 1]]
<1>2. y = [w EXCEPT !.out.upstream[slot] = c] BY DEF Account
<1> HIDE DEF c
<1> QED BY <1>1, <1>2 DEF c, Wholes, Transports

\* So the counters still add up, and nothing else changes.
LEMMA AccountSound ==
  ASSUME NEW w \in Wholes, CountersSound(w), NEW slot \in Slots, NEW o \in Outcomes,
         NEW y, y = Account(w, slot, o)
  PROVE  /\ y \in Wholes /\ CountersSound(y)
         /\ y.guard = w.guard /\ y.issued = w.issued
         /\ y.out = [w.out EXCEPT !.upstream = y.out.upstream]
<1> DEFINE u == w.out.upstream[slot]
           e == [u.ended EXCEPT ![o] = u.ended[o] + 1]
           n == u.attempted + 1
           c == [attempted |-> n, ended |-> e]
           up == [w.out.upstream EXCEPT ![slot] = c]
<1>1. w.out \in Transports /\ w.out.upstream \in [Slots -> Counters] /\ u \in Counters
  BY DEF Wholes, Transports
<1>2. y = [w EXCEPT !.out = [w.out EXCEPT !.upstream = up]] BY AccountFlat
<1>3. u.ended \in [Outcomes -> Nat] /\ u.attempted \in Nat BY <1>1 DEF Counters
<1>5. c \in Counters BY <1>3 DEF Counters
<1>6. Counted(u) BY DEF CountersSound
<1>7. Counted(c)
  <2> DEFINE a == u.ended["queued"]
             b == u.ended["skippedNoSession"]
             d == u.ended["skippedEmpty"]
             f == u.ended["unsupportedMime"]
             g == u.ended["threw"]
  <2>1. a \in Nat /\ b \in Nat /\ d \in Nat /\ f \in Nat /\ g \in Nat BY <1>3 DEF Outcomes
  <2>2. u.attempted = a + b + d + f + g BY <1>6 DEF Counted
  <2>3. \/ o = "queued" /\ e["queued"] = a + 1 /\ e["skippedNoSession"] = b
             /\ e["skippedEmpty"] = d
           /\ e["unsupportedMime"] = f /\ e["threw"] = g
        \/ o = "skippedNoSession" /\ e["queued"] = a /\ e["skippedNoSession"] = b + 1
           /\ e["skippedEmpty"] = d /\ e["unsupportedMime"] = f /\ e["threw"] = g
        \/ o = "skippedEmpty" /\ e["queued"] = a /\ e["skippedNoSession"] = b
           /\ e["skippedEmpty"] = d + 1 /\ e["unsupportedMime"] = f /\ e["threw"] = g
        \/ o = "unsupportedMime" /\ e["queued"] = a /\ e["skippedNoSession"] = b
           /\ e["skippedEmpty"] = d /\ e["unsupportedMime"] = f + 1 /\ e["threw"] = g
        \/ o = "threw" /\ e["queued"] = a /\ e["skippedNoSession"] = b /\ e["skippedEmpty"] = d
           /\ e["unsupportedMime"] = f /\ e["threw"] = g + 1
    BY <1>3 DEF Outcomes
  <2>4. n = u.attempted + 1 /\ u.attempted \in Nat BY <1>3
  <2>5. c.attempted = n /\ c.ended = e OBVIOUS
  <2> HIDE DEF a, b, d, f, g, e, n, c
  <2> QED BY <2>5, <2>1, <2>2, <2>3, <2>4 DEF Counted
<1> HIDE DEF c
<1>8. up \in [Slots -> Counters] /\ \A s \in Slots : Counted(up[s])
  BY <1>1, <1>5, <1>7 DEF CountersSound
<1> HIDE DEF up
<1>9. [w.out EXCEPT !.upstream = up] \in Transports BY <1>1, <1>8 DEF Transports
<1> QED BY <1>8, <1>1, <1>2, <1>9 DEF CountersSound, Transports, Wholes

\* s is newer than what the guard never put aside and what went out before it.
Follows(w, s) ==
  \/ s.aside
  \/ /\ s.n < w.issued.next /\ w.issued.last < s.n
     /\ \A k \in 1..Len(w.out.buffer) : ~w.out.buffer[k].aside => w.out.buffer[k].n < s.n

\* What a send leaves as it was.
SameBut(w, s, y) ==
  /\ y.guard.held = w.guard.held /\ y.issued.next = w.issued.next
  /\ y.out.session = w.out.session /\ y.out.windingDown = w.out.windingDown
  /\ y.out.open = w.out.open
  /\ y.issued.last = w.issued.last \/ (~s.aside /\ y.issued.last = s.n)

\* The parts of the three variables.
LEMMA WholeParts ==
  ASSUME NEW w \in Wholes
  PROVE  /\ w.out \in Transports /\ w.guard \in Guards /\ w.issued \in Histories
         /\ w.issued.next \in Nat /\ w.issued.last \in Nat
         /\ w.out.session \in BOOLEAN /\ w.out.windingDown \in BOOLEAN
                 /\ w.out.buffer \in Seq(Sends)
         /\ w.guard.held \in BOOLEAN /\ w.guard.results \in Seq(Sends)
         /\ w.guard.contents \in Seq(Sends)
BY DEF Wholes, Transports, Guards, Histories

\* The parts of a send.
LEMMA SendParts ==
  ASSUME NEW s \in Sends
  PROVE  /\ s.n \in Nat /\ s.aside \in BOOLEAN
         /\ s.kind \in {"result", "silent", "content", "live", "inline", "utterance"}
BY DEF Sends

\* A send that follows those of b takes its place behind them.
LEMMA FreshAppend ==
  ASSUME NEW b \in Seq(Sends), NEW last, NEW next, NEW s \in Sends, Fresh(b, last), Past(b, next),
         \/ s.aside
         \/ s.n < next /\ last < s.n /\ \A k \in 1..Len(b) : ~b[k].aside => b[k].n < s.n
  PROVE  Append(b, s) \in Seq(Sends) /\ Fresh(Append(b, s), last) /\ Past(Append(b, s), next)
<1> DEFINE c == Append(b, s)
<1>1. /\ c \in Seq(Sends) /\ Len(c) = Len(b) + 1 /\ Len(b) \in Nat /\ c[Len(c)] = s
      /\ \A k \in 1..Len(b) : c[k] = b[k]
  BY AppendProperties, LenProperties
<1> HIDE DEF c
<1>2. \A k \in 1..Len(c) : k \in 1..Len(b) \/ k = Len(c) BY <1>1
<1>4. ASSUME NEW j \in 1..Len(c), NEW k \in 1..Len(c), j < k, ~c[j].aside, ~c[k].aside
      PROVE  c[j].n < c[k].n
  <2>1. j \in 1..Len(b) BY <1>1, <1>4
  <2>2. CASE k \in 1..Len(b) BY <1>1, <1>4, <2>1, <2>2 DEF Fresh
  <2>3. CASE k = Len(c) BY <1>1, <1>4, <2>1, <2>3
  <2> QED BY <1>2, <2>2, <2>3
<1> QED BY <1>1, <1>4, <1>2 DEF Fresh, c, Past

\* A send put aside takes its place behind the others put aside.
LEMMA AsideAppend ==
  ASSUME NEW b \in Seq(Sends), AllAside(b), NEW s \in Sends, NEW a, a = [s EXCEPT !.aside = TRUE]
  PROVE  Append(b, a) \in Seq(Sends) /\ AllAside(Append(b, a))
<1> DEFINE c == Append(b, a)
<1>1. a \in Sends /\ a.aside BY DEF Sends
<1>2. /\ c \in Seq(Sends) /\ Len(c) = Len(b) + 1 /\ Len(b) \in Nat /\ c[Len(c)] = a
      /\ \A k \in 1..Len(b) : c[k] = b[k]
  BY <1>1, AppendProperties, LenProperties
<1> HIDE DEF c
<1> QED BY <1>1, <1>2 DEF AllAside, c

\* Every attempt ends in an outcome that is counted, on a slot that is counted.
LEMMA OutcomeIs ==
  ASSUME NEW w, NEW kind, NEW bad PROVE Outcome(w, kind, bad) \in Outcomes
BY DEF Outcome, Outcomes

\* A method counts on a slot.
LEMMA SlotIs == ASSUME NEW kind PROVE SlotOf(kind) \in Slots
BY DEF SlotOf, Slots

\* What is dispatched is counted, and newer than what was before it.
LEMMA SendOutSound ==
  ASSUME NEW w, WholeSound(w), NEW s \in Sends, Follows(w, s),
         w.out.buffer = <<>> \/ s.aside,
         ~w.guard.held \/ s.kind \notin {"result", "content", "live"},
         NEW y, y = SendOut(w, s)
  PROVE  WholeSound(y) /\ SameBut(w, s, y)
<1> DEFINE o == Outcome(w, s.kind, s.bad)
           told == IF s.kind \in {"result", "silent"} THEN w ELSE Account(w, SlotOf(s.kind), o)
<1>1. w \in Wholes /\ CountersSound(w) /\ o \in Outcomes /\ SlotOf(s.kind) \in Slots
  BY OutcomeIs, SlotIs DEF WholeSound
<1>2. /\ told \in Wholes /\ CountersSound(told) /\ told.guard = w.guard /\ told.issued = w.issued
      /\ told.out = [w.out EXCEPT !.upstream = told.out.upstream]
  <2>1. CASE s.kind \in {"result", "silent"} BY <1>1, <2>1 DEF Wholes, Transports
  <2>2. CASE s.kind \notin {"result", "silent"} BY <1>1, <2>2, AccountSound
  <2> QED BY <2>1, <2>2
<1>3. /\ told.out.buffer = w.out.buffer /\ told.out.session = w.out.session
      /\ told.out.windingDown = w.out.windingDown /\ told.out.open = w.out.open
  BY <1>1, <1>2 DEF Wholes, Transports
<1>4. WholeSound(told) BY <1>2, <1>3 DEF WholeSound, HistorySound, PutAside, BufferSound
<1>5. CASE o # "queued" BY <1>5, <1>2, <1>3, <1>4 DEF SendOut, SameBut
<1>6. CASE o = "queued"
  <2> DEFINE l == IF s.aside THEN w.issued.last ELSE s.n
             late == w.issued.late \/ (~s.aside /\ s.n < w.issued.last)
             leaked == w.issued.leaked \/ (w.guard.held
               /\ s.kind \in {"result", "content", "live"})
             answered == w.issued.answered \/ (w.guard.held /\ s.kind = "silent" /\ ~w.out.live)
             h == [next |-> w.issued.next, last |-> l, late |-> late, leaked |-> leaked,
                   answered |-> answered]
  <2>2. y = [told EXCEPT !.issued = h] BY <1>6 DEF SendOut
  <2>3. /\ w.issued.next \in Nat /\ w.issued.last \in Nat /\ s.n \in Nat
             /\ w.issued.last < w.issued.next
        /\ w.issued \in Histories /\ ~w.issued.late /\ ~w.issued.leaked
    BY <1>1, WholeParts, SendParts DEF WholeSound, HistorySound
  <2>4. ~late /\ ~leaked BY <2>3 DEF Follows
  <2>5. answered \in BOOLEAN OBVIOUS
  <2>6. l \in Nat /\ l < w.issued.next BY <2>3 DEF Follows
  <2> HIDE DEF late, leaked, answered
  <2> HIDE DEF l
  <2>73. h \in Histories BY <2>5, <2>6, <2>3 DEF Histories, late, leaked
  <2>7. h \in Histories /\ ~h.late /\ ~h.leaked /\ h.last = l /\ h.next = w.issued.next
    BY <2>4, <2>73
  <2> HIDE DEF h, told
  <2>8. y \in Wholes /\ y.issued = h /\ y.out = told.out /\ y.guard = told.guard
    BY <1>2, <2>2, <2>7 DEF Wholes
  <2>10. BufferSound(y)
    <3>1. CASE s.aside BY <3>1, <1>2, <2>7, <1>4, <2>8 DEF l, WholeSound, BufferSound
    <3>2. CASE w.out.buffer = <<>> BY <3>2, <1>3, <2>8, EmptySeq DEF BufferSound, Fresh, Past
    <3> QED BY <3>1, <3>2
  <2> QED BY <1>2, <1>3, <2>7, <2>8, <2>10, <1>4, <2>6 DEF WholeSound, SameBut, HistorySound, PutAside,
        CountersSound, l
<1> QED BY <1>5, <1>6

\* While a server turn winds down a send takes its place behind the others.
LEMMA SendNowSound ==
  ASSUME NEW w, WholeSound(w), NEW s \in Sends, Follows(w, s),
         ~w.guard.held \/ s.kind \notin {"result", "content", "live"},
         NEW y, y = SendNow(w, s)
  PROVE  WholeSound(y) /\ SameBut(w, s, y)
<1>1. w \in Wholes /\ BufferSound(w) BY DEF WholeSound
<1>2. CASE ~(w.out.session /\ w.out.windingDown)
  BY <1>2, <1>1, SendOutSound DEF SendNow, BufferSound
<1>3. CASE w.out.session /\ w.out.windingDown
  <2> DEFINE b == Append(w.out.buffer, s)
             t == [w.out EXCEPT !.buffer = b]
  <2>2. b \in Seq(Sends) /\ Fresh(b, w.issued.last) /\ Past(b, w.issued.next)
    BY <1>1, WholeParts, FreshAppend DEF BufferSound, Follows
  <2>3. y = [w EXCEPT !.out = t] BY <1>1, <1>3 DEF Wholes, SendNow
  <2> HIDE DEF b
  <2>4. t \in Transports /\ t.buffer = b /\ t.session = w.out.session
        /\ t.windingDown = w.out.windingDown /\ t.upstream = w.out.upstream
        /\ t.open = w.out.open
    BY <1>1, <2>2 DEF Wholes, Transports
  <2> HIDE DEF t
  <2>5. y \in Wholes /\ y.out = t /\ y.guard = w.guard /\ y.issued = w.issued
    BY <1>1, <2>3, <2>4 DEF Wholes
  <2>7. BufferSound(y) BY <1>3, <2>2, <2>4, <2>5 DEF BufferSound
  <2> QED BY <2>4, <2>5, <2>7 DEF WholeSound, SameBut, HistorySound, PutAside, CountersSound
<1> QED BY <1>2, <1>3

\* The guard lets pass what starts no answer, keeps the rest, or refuses it.
LEMMA SendThroughSound ==
  ASSUME NEW w, WholeSound(w), NEW s \in Sends, Follows(w, s), NEW y, y = SendThrough(w, s)
  PROVE  WholeSound(y) /\ SameBut(w, s, y)
<1> DEFINE aside == [s EXCEPT !.aside = TRUE]
<1>1. w \in Wholes /\ PutAside(w) /\ w.guard \in Guards BY WholeParts DEF WholeSound
<1>2. \/ /\ y = SendNow(w, s)
         /\ ~w.guard.held \/ s.kind \notin {"result", "content", "live"}
      \/ y = [w EXCEPT !.guard.results = Append(@, aside)]
      \/ y = [w EXCEPT !.guard.contents = Append(@, aside)]
      \/ y = w
  BY DEF SendThrough
<1>3. CASE y = SendNow(w, s) /\ (~w.guard.held \/ s.kind \notin {"result", "content", "live"})
  BY <1>3, SendNowSound
<1>4. CASE y = [w EXCEPT !.guard.results = Append(@, aside)]
  <2> DEFINE b == Append(w.guard.results, aside)
             g == [w.guard EXCEPT !.results = b]
  <2>1. y = [w EXCEPT !.guard = g] BY <1>1, <1>4 DEF Wholes
  <2>2. b \in Seq(Sends) /\ AllAside(b) BY <1>1, WholeParts, AsideAppend DEF PutAside
  <2> HIDE DEF b
  <2>3. g \in Guards /\ g.results = b /\ g.contents = w.guard.contents /\ g.held = w.guard.held
    BY <1>1, <2>2 DEF Guards
  <2> HIDE DEF g
  <2>4. y \in Wholes /\ y.out = w.out /\ y.guard = g /\ y.issued = w.issued
    BY <1>1, <2>1, <2>3 DEF Wholes
  <2> QED BY <2>3, <2>4, <1>1, <2>2 DEF WholeSound, SameBut, PutAside, HistorySound, CountersSound,
        BufferSound
<1>5. CASE y = [w EXCEPT !.guard.contents = Append(@, aside)]
  <2> DEFINE b == Append(w.guard.contents, aside)
             g == [w.guard EXCEPT !.contents = b]
  <2>1. y = [w EXCEPT !.guard = g] BY <1>1, <1>5 DEF Wholes
  <2>2. b \in Seq(Sends) /\ AllAside(b) BY <1>1, WholeParts, AsideAppend DEF PutAside
  <2> HIDE DEF b
  <2>3. g \in Guards /\ g.contents = b /\ g.results = w.guard.results /\ g.held = w.guard.held
    BY <1>1, <2>2 DEF Guards
  <2> HIDE DEF g
  <2>4. y \in Wholes /\ y.out = w.out /\ y.guard = g /\ y.issued = w.issued
    BY <1>1, <2>1, <2>3 DEF Wholes
  <2> QED BY <2>3, <2>4, <1>1, <2>2 DEF WholeSound, SameBut, PutAside, HistorySound, CountersSound,
        BufferSound
<1>6. CASE y = w BY <1>6 DEF SameBut
<1> QED BY <1>2, <1>3, <1>4, <1>5, <1>6

\* One send put aside, sent again.
SentAgain(y, s, wrapped) == IF wrapped THEN SendThrough(y, s) ELSE SendNow(y, s)

IsRun(f, w, sends, wrapped, n) ==
  f = [k \in 0..n |-> IF k = 0 THEN w ELSE SentAgain(f[k - 1], sends[k], wrapped)]

\* The sends can be made one after the other.
LEMMA RunExists ==
  ASSUME NEW w, NEW sends \in Seq(Sends), NEW wrapped \in BOOLEAN, NEW n \in Nat
  PROVE  \E f : IsRun(f, w, sends, wrapped, n)
<1> DEFINE P(m) == \E f : IsRun(f, w, sends, wrapped, m)
           S == {m \in Nat : ~P(m)}
<1>1. SUFFICES S = {} OBVIOUS
<1>2. SUFFICES ASSUME S # {} PROVE FALSE OBVIOUS
<1>3. PICK m \in S : \A j \in S : m <= j
  <2>1. S \subseteq Nat OBVIOUS
  <2> HIDE DEF S
  <2> QED BY <1>2, <2>1, LeastIn
<1>4. m \in Nat /\ ~P(m) BY <1>3
<1>5. CASE m = 0
  <2> DEFINE f == [k \in 0..0 |-> w]
  <2>3. IsRun(f, w, sends, wrapped, 0) BY DEF IsRun
  <2> QED BY <1>4, <1>5, <2>3
<1>6. CASE m # 0
  <2>1. m - 1 \in Nat /\ m - 1 \notin S BY <1>3, <1>4, <1>6
  <2>2. PICK f : IsRun(f, w, sends, wrapped, m - 1) BY <2>1
  <2> DEFINE g == [k \in 0..m |-> IF k = m THEN SentAgain(f[m - 1], sends[m], wrapped) ELSE f[k]]
  <2>3. \A k \in 0..(m - 1) : f[k] = IF k = 0 THEN w ELSE SentAgain(f[k - 1], sends[k], wrapped)
    BY <2>2 DEF IsRun
  <2>4. ASSUME NEW k \in 0..m
        PROVE  g[k] = IF k = 0 THEN w ELSE SentAgain(g[k - 1], sends[k], wrapped)
    <3>1. CASE k = m BY <1>4, <1>6, <3>1
    <3>2. CASE k # m
      <4>1. k \in 0..(m - 1) /\ g[k] = f[k] BY <1>4, <3>2
      <4>2. CASE k = 0 BY <2>3, <4>1, <4>2
      <4>3. CASE k # 0 BY <1>4, <4>1, <4>3, <2>3
      <4> QED BY <4>2, <4>3
    <3> QED BY <3>1, <3>2
  <2>5. g = [k \in 0..m |-> g[k]] OBVIOUS
  <2> HIDE DEF g
  <2> QED BY <1>4, <2>4, <2>5 DEF IsRun
<1> QED BY <1>5, <1>6

\* What was put aside is sent again one by one.
LEMMA SendAgainIs ==
  ASSUME NEW w, NEW sends \in Seq(Sends), NEW wrapped \in BOOLEAN
  PROVE  \E f : IsRun(f, w, sends, wrapped, Len(sends))
               /\ SendAgain(w, sends, wrapped) = f[Len(sends)]
<1>1. Len(sends) \in Nat BY LenProperties
<1> DEFINE f == CHOOSE g : IsRun(g, w, sends, wrapped, Len(sends))
<1>3. SendAgain(w, sends, wrapped) = f[Len(sends)] BY DEF SendAgain, IsRun, SentAgain
<1> QED BY <1>3, <1>1, RunExists

\* Sends that went out again one by one went out in order.
LEMMA SendAgainSound ==
  ASSUME NEW w, WholeSound(w), NEW sends \in Seq(Sends), NEW wrapped \in BOOLEAN,
         Fresh(sends, w.issued.last), Past(sends, w.issued.next),
         \/ wrapped /\ ~w.out.windingDown
         \/ ~wrapped /\ ~w.guard.held /\ AllAside(sends)
  PROVE  /\ WholeSound(SendAgain(w, sends, wrapped))
         /\ SendAgain(w, sends, wrapped).out.windingDown = w.out.windingDown
         /\ SendAgain(w, sends, wrapped).out.open = w.out.open
<1> DEFINE n == Len(sends)
<1>1. n \in Nat /\ \A k \in 1..n : sends[k] \in Sends BY LenProperties, ElementOfSeq
<1>2. PICK f : IsRun(f, w, sends, wrapped, n) /\ SendAgain(w, sends, wrapped) = f[n] BY SendAgainIs
<1> HIDE DEF n
<1>3. f[0] = w /\ \A k \in 1..n : f[k] = SentAgain(f[k - 1], sends[k], wrapped)
  BY <1>2, <1>1 DEF IsRun
<1> DEFINE J(k) == /\ WholeSound(f[k])
                   /\ f[k].out.windingDown = w.out.windingDown
                   /\ f[k].out.open = w.out.open
                   /\ f[k].guard.held = w.guard.held
                   /\ f[k].issued.next = w.issued.next
                   /\ \A j \in 1..n : k < j /\ ~sends[j].aside => f[k].issued.last < sends[j].n
           S == {k \in 0..n : ~J(k)}
<1>4. SUFFICES S = {} BY <1>1, <1>2
<1>5. SUFFICES ASSUME S # {} PROVE FALSE OBVIOUS
<1>6. PICK m \in S : \A j \in S : m <= j
  <2>1. S \subseteq Nat BY <1>1
  <2> HIDE DEF S
  <2> QED BY <1>5, <2>1, LeastIn
<1>7. m \in 0..n /\ ~J(m) BY <1>6
<1>8. CASE m = 0 BY <1>3, <1>7, <1>8 DEF Fresh, n
<1>9. CASE m # 0
  <2>1. m - 1 \in 0..n /\ m - 1 \notin S /\ m \in 1..n BY <1>1, <1>6, <1>7, <1>9
  <2>2. J(m - 1) BY <2>1
  <2> DEFINE x == f[m - 1]
             s == sends[m]
             y == f[m]
  <2>3. s \in Sends /\ y = SentAgain(x, s, wrapped) BY <1>1, <1>3, <2>1
  <2>4. /\ WholeSound(x) /\ x.out.windingDown = w.out.windingDown /\ x.out.open = w.out.open
        /\ x.guard.held = w.guard.held /\ x.issued.next = w.issued.next
        /\ ~s.aside => x.issued.last < s.n
    BY <2>1, <2>2
  <2>5. ASSUME NEW j \in 1..n, m < j, ~sends[j].aside
        PROVE  x.issued.last < sends[j].n /\ (~s.aside => s.n < sends[j].n)
    BY <1>7, <2>5, <2>2, <2>1 DEF Fresh, n
  <2>6. ~s.aside => s.n < x.issued.next BY <2>1, <2>4 DEF Past, n
  <2>7. wrapped => x.out.buffer = <<>> BY <2>4 DEF WholeSound, BufferSound
  <2>8. ~wrapped => s.aside /\ ~x.guard.held BY <2>1, <2>4 DEF AllAside, n
  <2> HIDE DEF x, s, y
  <2>9. Follows(x, s)
    <3>1. CASE s.aside BY <3>1 DEF Follows
    <3>2. CASE ~s.aside BY <2>7, <2>8, <3>2, EmptySeq, <2>4, <2>6 DEF Follows
    <3> QED BY <3>1, <3>2
  <2>10. WholeSound(y) /\ SameBut(x, s, y)
    <3>1. CASE wrapped BY <2>3, <2>4, <2>9, <3>1, SendThroughSound DEF SentAgain
    <3>2. CASE ~wrapped BY <2>3, <2>4, <2>8, <2>9, <3>2, SendNowSound DEF SentAgain
    <3> QED BY <3>1, <3>2
  <2>12. J(m) BY <2>4, <2>10, <2>5 DEF SameBut, y
  <2> QED BY <1>7, <2>12
<1> QED BY <1>8, <1>9

-----------------------------------------------------------------------------
\* The inductive invariant: the three variables are sound together, and only
\* an open server turn winds down.
SendingSound == WholeSound(Whole) /\ (out.windingDown => out.open)

\* What the invariant says of the variables.
LEMMA SendingParts ==
  ASSUME SendingSound
  PROVE  /\ Whole \in Wholes /\ out \in Transports /\ guard \in Guards /\ issued \in Histories
         /\ Whole.out = out /\ Whole.guard = guard /\ Whole.issued = issued
         /\ \A s \in Slots : Counted(out.upstream[s])
         /\ out.buffer # <<>> => out.session /\ out.windingDown
         /\ issued.last < issued.next /\ issued.next \in Nat /\ issued.last \in Nat
<1> QED BY WholeParts DEF CountersSound, BufferSound, HistorySound, SendingSound, WholeSound, Whole

\* The three variables together become what an operator returned.
LEMMA SendsBecome ==
  ASSUME NEW y, WholeSound(y), y.out.windingDown => y.out.open, BecomesOut(y)
  PROVE  SendingSound'
<1>2. Whole' = y BY DEF Whole, BecomesOut, WholeSound, Wholes
<1>3. out' = y.out BY DEF BecomesOut
<1> QED BY <1>2, <1>3 DEF SendingSound, WholeSound, HistorySound, PutAside,
           CountersSound, BufferSound

\* The transport changes, and nothing else.
LEMMA OutChanges ==
  ASSUME NEW w, WholeSound(w), NEW t \in Transports, \A s \in Slots : Counted(t.upstream[s]),
         t.buffer = <<>> \/ t.buffer = w.out.buffer,
         t.buffer # <<>> => t.session /\ t.windingDown,
         NEW y, y = [w EXCEPT !.out = t]
  PROVE  WholeSound(y) /\ y.out = t /\ y.guard = w.guard /\ y.issued = w.issued
<1>1. w \in Wholes BY DEF WholeSound
<1>2. y \in Wholes /\ y.out = t /\ y.guard = w.guard /\ y.issued = w.issued BY <1>1 DEF Wholes
<1>4. BufferSound(y)
  <2>1. CASE t.buffer = <<>> BY <1>2, <2>1, EmptySeq DEF BufferSound, Fresh, Past
  <2>2. CASE t.buffer = w.out.buffer BY <1>2, <2>2 DEF WholeSound, BufferSound
  <2> QED BY <2>1, <2>2
<1> QED BY <1>2, <1>4 DEF WholeSound, HistorySound, PutAside, CountersSound

\* An action that changes the transport alone.
LEMMA OnlyOutChanges ==
  ASSUME SendingSound, NEW t \in Transports, \A s \in Slots : Counted(t.upstream[s]),
         t.buffer = <<>> \/ t.buffer = out.buffer,
         t.buffer # <<>> => t.session /\ t.windingDown, t.windingDown => t.open,
         out' = t, UNCHANGED <<guard, issued>>
  PROVE  SendingSound'
<1> DEFINE y == [Whole EXCEPT !.out = t]
<1>2. WholeSound(y) /\ y.out = t /\ y.guard = guard /\ y.issued = issued
  BY OutChanges, SendingParts DEF SendingSound
<1> HIDE DEF y
<1>3. BecomesOut(y) BY <1>2 DEF BecomesOut
<1> QED BY <1>2, <1>3, SendsBecome

\* The session numbers its next send.
LEMMA NumberedSound ==
  ASSUME SendingSound, issued.next <= MaxSends, NEW w, w = [Whole EXCEPT !.issued.next = @ + 1]
  PROVE  /\ WholeSound(w) /\ w.out = out /\ w.guard = guard /\ w.issued.last = issued.last
         /\ w.issued.next = issued.next + 1
<1> DEFINE n == issued.next + 1
           i == [issued EXCEPT !.next = n]
<1>1. Whole \in Wholes /\ Whole.out = out /\ Whole.guard = guard /\ Whole.issued = issued
      /\ issued \in Histories /\ issued.next \in Nat /\ issued.last \in Nat
      /\ issued.last < issued.next
  BY SendingParts
<1>2. n \in 1..(MaxSends + 1) /\ issued.last < n /\ issued.next < n /\ n \in Nat BY <1>1
<1>3. w = [Whole EXCEPT !.issued = i] BY <1>1 DEF Wholes
<1> HIDE DEF n
<1>4. i \in Histories /\ i.next = n /\ i.last = issued.last /\ i.late = issued.late
      /\ i.leaked = issued.leaked
  BY <1>1, <1>2 DEF Histories
<1> HIDE DEF i
<1>5. w \in Wholes /\ w.out = out /\ w.guard = guard /\ w.issued = i BY <1>1, <1>3, <1>4 DEF Wholes
<1>6. HistorySound(w) /\ PutAside(w) /\ CountersSound(w)
  BY <1>1, <1>2, <1>4, <1>5 DEF SendingSound, WholeSound, HistorySound, PutAside,
     CountersSound
<1>7. BufferSound(w)
  <2>1. BufferSound(Whole) /\ out.buffer \in Seq(Sends)
    BY <1>1, WholeParts DEF SendingSound, WholeSound
  <2>2. \A k \in 1..Len(out.buffer) : out.buffer[k].n \in Nat BY <2>1, ElementOfSeq, SendParts
  <2>3. Past(out.buffer, n)
    <3> SUFFICES ASSUME NEW k \in 1..Len(out.buffer), ~out.buffer[k].aside
                 PROVE  out.buffer[k].n < n
      BY DEF Past
    <3>1. out.buffer[k].n < issued.next /\ out.buffer[k].n \in Nat
      BY <1>1, <2>1, <2>2 DEF BufferSound, Past
    <3> DEFINE m == out.buffer[k].n
               r == issued.next
    <3>2. m < r /\ r < n /\ m \in Nat /\ r \in Nat /\ n \in Nat BY <1>1, <1>2, <3>1
    <3> HIDE DEF m, r
    <3>3. m < n BY <3>2
    <3> QED BY <3>3 DEF m
  <2> QED BY <1>1, <1>4, <1>5, <2>1, <2>3 DEF BufferSound
<1> QED BY <1>4, <1>5, <1>6, <1>7 DEF WholeSound, n

\* One lemma per action.  The session makes its next send.
LEMMA SessionSendsSound ==
  ASSUME SendingSound, NEW kind \in {"result", "silent", "content", "live", "inline",
         "utterance"},
         NEW bad \in BOOLEAN, SessionSends(kind, bad)
  PROVE  SendingSound'
<1> DEFINE w == [Whole EXCEPT !.issued.next = @ + 1]
           s == [n |-> issued.next, kind |-> kind, aside |-> FALSE, bad |-> bad]
           y == SendThrough(w, s)
<1>1. issued.next <= MaxSends /\ BecomesOut(y) BY DEF SessionSends
<1>2. /\ WholeSound(w) /\ w.out = out /\ w.guard = guard /\ w.issued.last = issued.last
      /\ w.issued.next = issued.next + 1
  BY <1>1, NumberedSound
<1>3. issued.next \in Nat /\ issued.last < issued.next /\ issued \in Histories
      /\ BufferSound(Whole) /\ Whole.out = out /\ Whole.issued = issued
  BY SendingParts DEF SendingSound, WholeSound
<1>4. s \in Sends /\ s.n = issued.next /\ ~s.aside BY <1>1, <1>3 DEF Sends, Histories
<1> HIDE DEF w, s
<1>5. Follows(w, s) BY <1>3, <1>2, <1>4 DEF BufferSound, Past, Follows
<1>6. WholeSound(y) /\ SameBut(w, s, y) BY <1>2, <1>4, <1>5, SendThroughSound
<1> HIDE DEF y
<1> QED BY <1>1, <1>6, SendsBecome, <1>2 DEF SameBut, SendingSound

\* An attempt that is counted disturbs nothing else.
LEMMA AccountWhole ==
  ASSUME NEW w, WholeSound(w), NEW slot \in Slots, NEW o \in Outcomes, NEW y,
         y = Account(w, slot, o)
  PROVE  WholeSound(y) /\ y.out.windingDown = w.out.windingDown /\ y.out.open = w.out.open
<1>1. w \in Wholes /\ CountersSound(w) BY DEF WholeSound
<1>2. /\ y \in Wholes /\ CountersSound(y) /\ y.guard = w.guard /\ y.issued = w.issued
      /\ y.out = [w.out EXCEPT !.upstream = y.out.upstream]
  BY <1>1, AccountSound
<1> QED BY <1>2, <1>1 DEF WholeSound, HistorySound, PutAside, BufferSound, Wholes, Transports

\* Realtime input is counted, and never waits.
LEMMA RealtimeSendSound ==
  ASSUME SendingSound, NEW kind, NEW slot \in Slots, NEW bad \in BOOLEAN,
         RealtimeSend(kind, slot, bad)
  PROVE  SendingSound'
<1> DEFINE w == [Whole EXCEPT !.issued.next = @ + 1]
           y == Account(w, slot, Outcome(Whole, kind, bad))
<1>1. issued.next <= MaxSends /\ BecomesOut(y) BY DEF RealtimeSend
<1>2. WholeSound(w) /\ w.out = out BY <1>1, NumberedSound
<1> HIDE DEF w
<1>3. WholeSound(y) /\ y.out.windingDown = out.windingDown /\ y.out.open = out.open
  BY <1>2, OutcomeIs, AccountWhole
<1> HIDE DEF y
<1> QED BY <1>1, <1>3, SendsBecome DEF SendingSound

\* The session takes the model.
LEMMA HoldSound ==
  ASSUME SendingSound, Hold PROVE SendingSound'
<1> DEFINE g == [guard EXCEPT !.held = TRUE]
           y == [Whole EXCEPT !.guard = g]
<1>1. Whole \in Wholes /\ guard \in Guards /\ Whole.out = out /\ Whole.guard = guard
      /\ Whole.issued = issued
  BY SendingParts
<1>2. g \in Guards /\ g.results = guard.results /\ g.contents = guard.contents BY <1>1 DEF Guards
<1>3. guard' = g /\ out' = out /\ issued' = issued BY DEF Hold
<1> HIDE DEF g
<1>4. y \in Wholes /\ y.out = out /\ y.guard = g /\ y.issued = issued BY <1>1, <1>2 DEF Wholes
<1> HIDE DEF y
<1>6. BecomesOut(y) BY <1>3, <1>4 DEF BecomesOut
<1> QED BY <1>4, <1>6, SendsBecome, <1>1, <1>2 DEF SendingSound, WholeSound, HistorySound, PutAside,
      CountersSound, BufferSound

\* The session gives the model back: what was put aside goes out.
LEMMA ReleaseGuardSound ==
  ASSUME SendingSound, ReleaseGuard PROVE SendingSound'
<1> DEFINE g == [held |-> FALSE, results |-> <<>>, contents |-> <<>>]
           w == [Whole EXCEPT !.guard = g]
           sends == guard.results \o guard.contents
           y == SendAgain(w, sends, FALSE)
<1>1. Whole \in Wholes /\ guard \in Guards /\ Whole.out = out /\ Whole.guard = guard
      /\ Whole.issued = issued /\ PutAside(Whole)
  BY SendingParts DEF SendingSound, WholeSound
<1>2. BecomesOut(y) BY DEF ReleaseGuard
<1>3. g \in Guards /\ ~g.held BY DEF Guards
<1>4. AllAside(g.results) /\ AllAside(g.contents)
  <2>1. Len(g.results) = 0 /\ Len(g.contents) = 0 BY EmptySeq
  <2> HIDE DEF g
  <2> QED BY <2>1 DEF AllAside
<1> HIDE DEF g
<1>5. w \in Wholes /\ w.out = out /\ w.guard = g /\ w.issued = issued BY <1>1, <1>3 DEF Wholes
<1> HIDE DEF w
<1>6. WholeSound(w)
  BY <1>1, <1>4, <1>5
     DEF SendingSound, WholeSound, HistorySound, PutAside, CountersSound, BufferSound
<1>7. sends \in Seq(Sends) /\ AllAside(sends)
  <2> DEFINE a == guard.results
             b == guard.contents
  <2>1. a \in Seq(Sends) /\ b \in Seq(Sends) /\ AllAside(a) /\ AllAside(b)
    BY <1>1, WholeParts DEF PutAside
  <2> HIDE DEF a, b
  <2>2. /\ a \o b \in Seq(Sends) /\ Len(a \o b) = Len(a) + Len(b)
        /\ \A k \in 1..(Len(a) + Len(b)) :
                (a \o b)[k] = IF k <= Len(a) THEN a[k] ELSE b[k - Len(a)]
    BY <2>1, ConcatProperties
  <2>3. Len(a) \in Nat /\ Len(b) \in Nat BY <2>1, LenProperties
  <2> DEFINE c == a \o b
  <2> HIDE DEF c
  <2>4. ASSUME NEW k \in 1..Len(c) PROVE c[k].aside
    <3>1. CASE k <= Len(a) BY <2>2, <2>3, <3>1, <2>1 DEF c, AllAside
    <3>2. CASE ~(k <= Len(a)) BY <2>2, <2>3, <3>2, <2>1 DEF c, AllAside
    <3> QED BY <3>1, <3>2
  <2> QED BY <2>2, <2>4 DEF a, b, c, AllAside
<1> HIDE DEF sends
<1>9. /\ WholeSound(y) /\ y.out.windingDown = w.out.windingDown
      /\ y.out.open = w.out.open
  BY <1>3, <1>5, <1>6, <1>7, SendAgainSound DEF Fresh, Past, AllAside
<1> HIDE DEF y
<1> QED BY <1>2, <1>5, <1>9, SendsBecome DEF SendingSound

\* A new generation has counted nothing.
LEMMA FreshCountersSound ==
  FreshCounters \in [Slots -> Counters] /\ \A s \in Slots : Counted(FreshCounters[s])
BY DEF FreshCounters, Counters, Counted, Outcomes

\* The transport when its connection is gone, and when one is set up.
LEMMA DetachedSound ==
  ASSUME NEW o \in Transports, NEW t, t = Detached(o)
  PROVE  /\ t \in Transports /\ t.upstream = o.upstream /\ t.buffer = <<>>
         /\ ~t.windingDown /\ t.made = o.made
<1>1. <<>> \in Seq(Sends) BY EmptySeq
<1> QED BY <1>1 DEF Detached, Transports

\* The connection of a dial that completed its setup.
LEMMA ConnectedSound ==
  ASSUME NEW o \in Transports, o.made < MaxSessions, NEW t, t = OnConnected(o)
  PROVE  /\ t \in Transports /\ (\A s \in Slots : Counted(t.upstream[s])) /\ t.buffer = o.buffer
         /\ t.windingDown = o.windingDown /\ t.open = o.open
<1> DEFINE m == o.made + 1
           u == FreshCounters
<1>1. m \in 0..MaxSessions BY DEF Transports
<1>2. t = [o EXCEPT !.session = TRUE, !.made = m, !.upstream = u, !.live = o.config]
  BY DEF OnConnected
<1>3. u \in [Slots -> Counters] /\ \A s \in Slots : Counted(u[s]) BY FreshCountersSound
<1> HIDE DEF m, u
<1>4. /\ t \in Transports /\ t.upstream = u /\ t.buffer = o.buffer
      /\ t.windingDown = o.windingDown /\ t.open = o.open
  BY <1>1, <1>2, <1>3, ZenonT(30) DEF Transports
<1> QED BY <1>3, <1>4

\* The owner connects.
LEMMA ConnectSessionSound ==
  ASSUME SendingSound, ConnectSession PROVE SendingSound'
<1> DEFINE t == OnConnected(out)
<1>1. out' = t /\ UNCHANGED <<guard, issued>> /\ out.made < MaxSessions /\ ~out.session
  BY DEF ConnectSession
<1>2. out \in Transports /\ (out.buffer # <<>> => out.session) BY SendingParts
<1>3. /\ t \in Transports /\ (\A s \in Slots : Counted(t.upstream[s])) /\ t.buffer = out.buffer
      /\ t.windingDown = out.windingDown /\ t.open = out.open
  BY <1>1, <1>2, ConnectedSound
<1> HIDE DEF t
<1> QED BY <1>1, <1>3, OnlyOutChanges, <1>2 DEF SendingSound

\* The connection is lost, with what waited for its turn to close.
LEMMA LoseSessionSound ==
  ASSUME SendingSound, LoseSession PROVE SendingSound'
<1> DEFINE t == Detached(out)
<1>1. out' = t /\ UNCHANGED <<guard, issued>> BY DEF LoseSession
<1>2. out \in Transports /\ \A s \in Slots : Counted(out.upstream[s]) BY SendingParts
<1>3. t \in Transports /\ t.upstream = out.upstream /\ t.buffer = <<>> /\ ~t.windingDown
  BY <1>2, DetachedSound
<1> HIDE DEF t
<1> QED BY <1>1, <1>2, <1>3, OnlyOutChanges

\* A transfer replaces the connection, and replays the history.
LEMMA TransferSessionSound ==
  ASSUME SendingSound, TransferSession PROVE SendingSound'
<1>1. out.made < MaxSessions /\ out \in Transports /\ Whole.out = out /\ Whole \in Wholes
      /\ WholeSound(Whole)
  BY SendingParts DEF TransferSession, SendingSound
<1>2. PICK staged \in BOOLEAN, history \in BOOLEAN :
        LET dialed == [Whole EXCEPT !.out = OnConnected([Detached(out) EXCEPT !.config = staged])]
        IN  BecomesOut(IF history /\ ~out.handle THEN ReplayHistory(dialed) ELSE dialed)
  BY DEF TransferSession
<1> DEFINE d == Detached(out)
           c == [d EXCEPT !.config = staged]
           t == OnConnected(c)
           w == [Whole EXCEPT !.out = t]
           y == IF history /\ ~out.handle THEN ReplayHistory(w) ELSE w
<1>3. BecomesOut(y) BY <1>2
<1>4. d \in Transports /\ d.buffer = <<>> /\ ~d.windingDown /\ d.made = out.made
  BY <1>1, DetachedSound
<1> HIDE DEF d
<1>5. c \in Transports /\ c.buffer = <<>> /\ ~c.windingDown /\ c.made = out.made
  BY <1>4, ZenonT(30) DEF Transports
<1> HIDE DEF c
<1>6. t \in Transports /\ (\A s \in Slots : Counted(t.upstream[s])) /\ t.buffer = <<>>
      /\ ~t.windingDown
  BY <1>1, <1>5, ConnectedSound
<1> HIDE DEF t
<1>7. WholeSound(w) /\ w.out = t BY <1>1, <1>6, OutChanges
<1> HIDE DEF w
<1>8. WholeSound(y) /\ ~y.out.windingDown
  <2>1. CASE history /\ ~out.handle
    <3> DEFINE slot == "text"
               o == Outcome(w, "history", FALSE)
    <3>1. slot \in Slots /\ o \in Outcomes BY OutcomeIs DEF Slots
    <3>2. y = Account(w, slot, o) BY <2>1 DEF ReplayHistory
    <3> HIDE DEF y, slot, o
    <3> QED BY <1>6, <1>7, <3>1, <3>2, AccountWhole
  <2>2. CASE ~(history /\ ~out.handle) BY <1>6, <1>7, <2>2
  <2> QED BY <2>1, <2>2
<1> HIDE DEF y
<1> QED BY <1>3, <1>8, SendsBecome

\* Tools are staged for the next dial.
LEMMA StageToolsSound ==
  ASSUME SendingSound, StageTools PROVE SendingSound'
<1> DEFINE t == [out EXCEPT !.config = ~@]
<1>1. out' = t /\ UNCHANGED <<guard, issued>> BY DEF StageTools
<1>2. out \in Transports /\ (\A s \in Slots : Counted(out.upstream[s]))
      /\ (out.buffer # <<>> => out.session /\ out.windingDown)
  BY SendingParts
<1>3. t \in Transports /\ t.upstream = out.upstream /\ t.buffer = out.buffer
      /\ t.windingDown = out.windingDown /\ t.open = out.open /\ t.session = out.session
  BY <1>2, ZenonT(30) DEF Transports
<1> HIDE DEF t
<1> QED BY <1>1, <1>2, <1>3, OnlyOutChanges DEF SendingSound

\* The server gives a resumption handle, or takes it back.
LEMMA ServerHandleSound ==
  ASSUME SendingSound, ServerHandle PROVE SendingSound'
<1> DEFINE t == [out EXCEPT !.handle = ~@]
<1>1. out' = t /\ UNCHANGED <<guard, issued>> BY DEF ServerHandle
<1>2. out \in Transports /\ (\A s \in Slots : Counted(out.upstream[s]))
      /\ (out.buffer # <<>> => out.session /\ out.windingDown)
  BY SendingParts
<1>3. t \in Transports /\ t.upstream = out.upstream /\ t.buffer = out.buffer
      /\ t.windingDown = out.windingDown /\ t.open = out.open /\ t.session = out.session
  BY <1>2, ZenonT(30) DEF Transports
<1> HIDE DEF t
<1> QED BY <1>1, <1>2, <1>3, OnlyOutChanges DEF SendingSound

\* The turn before this one has left nothing waiting.
LEMMA BeginServerTurnSound ==
  ASSUME SendingSound, BeginServerTurn PROVE SendingSound'
<1> DEFINE n == out.turns + 1
           t == [out EXCEPT !.open = TRUE, !.turns = n, !.windingDown = FALSE]
<1>1. out' = t /\ UNCHANGED <<guard, issued>> /\ ~out.open /\ out.turns < MaxServerTurns
  BY DEF BeginServerTurn
<1>2. out \in Transports /\ (\A s \in Slots : Counted(out.upstream[s]))
      /\ (out.buffer # <<>> => out.session /\ out.windingDown)
  BY SendingParts
<1>3. n \in 0..MaxServerTurns BY <1>1, <1>2 DEF Transports
<1> HIDE DEF n
<1>4. t \in Transports /\ t.upstream = out.upstream /\ t.buffer = out.buffer
      /\ ~t.windingDown /\ t.open
  BY <1>2, <1>3, ZenonT(30) DEF Transports
<1> HIDE DEF t
<1> QED BY <1>1, <1>2, <1>4, OnlyOutChanges DEF SendingSound

\* A server turn winds down.
LEMMA WindDownSound ==
  ASSUME SendingSound, WindDown PROVE SendingSound'
<1> DEFINE t == [out EXCEPT !.windingDown = TRUE]
<1>1. out' = t /\ UNCHANGED <<guard, issued>> /\ out.open /\ out.session BY DEF WindDown
<1>2. out \in Transports /\ (\A s \in Slots : Counted(out.upstream[s])) BY SendingParts
<1>3. t \in Transports /\ t.upstream = out.upstream /\ t.buffer = out.buffer
      /\ t.windingDown /\ t.open = out.open /\ t.session = out.session
  BY <1>2, ZenonT(30) DEF Transports
<1> HIDE DEF t
<1> QED BY <1>1, <1>2, <1>3, OnlyOutChanges

\* What waited for the turn to close goes out, in its order.
LEMMA CloseServerTurnSound ==
  ASSUME SendingSound, CloseServerTurn PROVE SendingSound'
<1> DEFINE x == [Whole EXCEPT !.out.open = FALSE, !.out.windingDown = FALSE]
           b == out.buffer
           t == [out EXCEPT !.open = FALSE, !.windingDown = FALSE, !.buffer = <<>>]
           w == [Whole EXCEPT !.out = t]
           y == SendAgain(w, b, TRUE)
<1>1. Whole \in Wholes /\ out \in Transports /\ Whole.out = out /\ Whole.issued = issued
      /\ WholeSound(Whole) /\ \A s \in Slots : Counted(out.upstream[s])
  BY SendingParts DEF SendingSound
<1>2. /\ t \in Transports /\ t.upstream = out.upstream /\ t.buffer = <<>> /\ ~t.windingDown
  BY EmptySeq, <1>1 DEF Transports
<1>3. x.out.buffer = b /\ [x EXCEPT !.out.buffer = <<>>] = w
  <2> DEFINE p == [out EXCEPT !.open = FALSE, !.windingDown = FALSE]
  <2>1. x = [Whole EXCEPT !.out = p] BY <1>1 DEF Wholes
  <2>2. x.out = p /\ p.buffer = b /\ t = [p EXCEPT !.buffer = <<>>]
    BY <1>1, <2>1 DEF Wholes, Transports
  <2> HIDE DEF p, t
  <2> QED BY <2>2, <1>1, <2>1 DEF Wholes
<1>4. BecomesOut(y)
  <2>1. BecomesOut(FlushBuffer(x)) BY DEF CloseServerTurn
  <2> HIDE DEF x, w, b
  <2> QED BY <1>3, <2>1 DEF FlushBuffer
<1> HIDE DEF t
<1>5. WholeSound(w) /\ w.out = t /\ w.issued = issued BY <1>1, <1>2, OutChanges
<1>6. b \in Seq(Sends) /\ Fresh(b, issued.last) /\ Past(b, issued.next)
  BY <1>1, WholeParts DEF WholeSound, BufferSound
<1> HIDE DEF w, b
<1>7. WholeSound(y) /\ y.out.windingDown = w.out.windingDown BY <1>2, <1>5, <1>6, SendAgainSound
<1> HIDE DEF y
<1> QED BY <1>2, <1>4, <1>5, <1>7, SendsBecome

\* A transport that was just made.
LEMMA SendingInitSound ==
  ASSUME GeminiSendingInit PROVE SendingSound
<1> DEFINE n == 0
           f == FALSE
           e == <<>>
           u == FreshCounters
<1>1. out = [session |-> f, made |-> n, upstream |-> u, turns |-> n, open |-> f,
             windingDown |-> f, buffer |-> e, config |-> f, live |-> f, handle |-> f]
      /\ guard = [held |-> f, results |-> e, contents |-> e]
  BY DEF GeminiSendingInit
<1>2. n \in 0..MaxSessions /\ n \in 0..MaxServerTurns /\ f \in BOOLEAN /\ ~f /\ e \in Seq(Sends)
      /\ Len(e) = 0 /\ e = <<>>
  BY EmptySeq
<1>3. u \in [Slots -> Counters] /\ \A s \in Slots : Counted(u[s]) BY FreshCountersSound
<1> HIDE DEF n, f, e, u
<1>4. out \in Transports BY <1>1, <1>2, <1>3 DEF Transports
<1>5. guard \in Guards BY <1>1, <1>2 DEF Guards
<1>6. issued \in Histories BY DEF GeminiSendingInit, Histories
<1>7. Whole \in Wholes BY <1>4, <1>5, <1>6 DEF Whole, Wholes
<1>8. HistorySound(Whole) BY DEF GeminiSendingInit, HistorySound, Whole
<1>9. PutAside(Whole) /\ CountersSound(Whole) /\ BufferSound(Whole)
  BY <1>1, <1>2, <1>3 DEF PutAside, AllAside, CountersSound, BufferSound, Fresh, Past, Whole
<1>10. ~out.windingDown BY <1>1, <1>2
<1> QED BY <1>7, <1>8, <1>9, <1>10 DEF SendingSound, WholeSound

\* The inductive invariant of the sends: what waits is in its order, newer than what
\* went out and older than what comes, only while an open server turn winds down; what
\* the guard keeps it has marked; and every attempt that was counted has ended.
THEOREM SendingInductive == SendingSpec => []SendingSound
<1>1. GeminiSendingInit => SendingSound BY SendingInitSound
<1>2. ASSUME SendingSound, [SendingNext]_sendingVars PROVE SendingSound'
  <2>1. CASE UNCHANGED sendingVars
    BY <1>2, <2>1 DEF sendingVars, SendingSound, WholeSound, Whole, HistorySound,
       PutAside, CountersSound,
                      BufferSound
  <2>2. CASE \/ SendFunctionResponse \/ SendContentTurns \/ SendLiveInput \/ SendInlineFile
             \/ ReplayUserTurn
    BY <1>2, <2>2, SessionSendsSound
       DEF SendFunctionResponse, SendContentTurns, SendLiveInput, SendInlineFile, ReplayUserTurn
  <2>3. CASE SendAudio \/ SendFile BY <1>2, <2>3, RealtimeSendSound DEF Slots, SendAudio, SendFile
  <2>4. CASE StageTools \/ Hold \/ ReleaseGuard
    BY <1>2, <2>4, StageToolsSound, HoldSound, ReleaseGuardSound
  <2>5. CASE ConnectSession \/ LoseSession \/ TransferSession
    BY <1>2, <2>5, ConnectSessionSound, LoseSessionSound, TransferSessionSound
  <2>6. CASE ServerHandle \/ BeginServerTurn \/ WindDown \/ CloseServerTurn
    BY <1>2, <2>6, ServerHandleSound, BeginServerTurnSound, WindDownSound,
       CloseServerTurnSound
  <2> QED BY <1>2, <2>1, <2>2, <2>3, <2>4, <2>5, <2>6 DEF SendingNext
<1> QED BY <1>1, <1>2, PTL DEF SendingSpec

\* Whatever is sent, held, released, dialed, transferred or flushed: the sends of the
\* session go out in its order, nothing waits once no server turn winds down, nothing
\* that starts a response goes out while the session holds the model, and every attempt
\* ends in exactly one counted outcome.
THEOREM SendsOrdered == SendingSpec => []SendsAreOrderly
<1>1. SendingSound => SendsAreOrderly
  <2> SUFFICES ASSUME SendingSound PROVE SendsAreOrderly OBVIOUS
  <2>1. /\ out \in Transports /\ guard \in Guards /\ issued \in Histories
        /\ Whole.issued = issued /\ \A s \in Slots : Counted(out.upstream[s])
        /\ out.buffer # <<>> => out.session /\ out.windingDown
    BY SendingParts
  <2>2. SendingTypeOK BY <2>1 DEF SendingTypeOK, Transports, Guards
  <2> QED BY <2>1, <2>2 DEF SendsAreOrderly, EveryAttemptEnds, Counted, SendingSound, WholeSound,
        HistorySound
<1> QED BY <1>1, SendingInductive, PTL
=============================================================================
