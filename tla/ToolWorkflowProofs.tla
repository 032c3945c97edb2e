------------------------- MODULE ToolWorkflowProofs -------------------------
(***************************************************************************)
(* ToolWorkflow for any set of calls: a call is in one place at a time on  *)
(* its way from the router to the transport, so the actors together hand   *)
(* the gate at most one result per call, and what ToolResultGateProofs     *)
(* shows of the gate holds of the whole.                                   *)
(***************************************************************************)
EXTENDS ToolWorkflow, ToolResultGateProofs

\* x is in the sequence s, and is there at most once.
In(x, s) == \E i \in 1..Len(s) : s[i] = x
AtMostOnce(x, s) == \A i, j \in 1..Len(s) : s[i] = x /\ s[j] = x => i = j

LEMMA AppendIn ==
  ASSUME NEW S, NEW s \in Seq(S), NEW e \in S, NEW x
  PROVE  /\ In(x, Append(s, e)) <=> In(x, s) \/ x = e
         /\ AtMostOnce(x, s) /\ (x # e \/ ~In(x, s)) => AtMostOnce(x, Append(s, e))
<1>1. /\ Len(Append(s, e)) = Len(s) + 1 /\ Append(s, e)[Len(s) + 1] = e
      /\ \A i \in 1..Len(s) : Append(s, e)[i] = s[i]
  OBVIOUS
<1>2. Len(s) \in Nat OBVIOUS
<1>3. In(x, Append(s, e)) <=> In(x, s) \/ x = e
  <2>1. ASSUME In(x, Append(s, e)), x # e PROVE In(x, s) BY <1>1, <1>2, <2>1 DEF In
  <2>2. ASSUME In(x, s) PROVE In(x, Append(s, e)) BY <1>1, <1>2, <2>2 DEF In
  <2>3. ASSUME x = e PROVE In(x, Append(s, e)) BY <1>1, <1>2, <2>3 DEF In
  <2> QED BY <2>1, <2>2, <2>3
<1>4. ASSUME AtMostOnce(x, s), x # e \/ ~In(x, s) PROVE AtMostOnce(x, Append(s, e))
  BY <1>1, <1>2, <1>4 DEF AtMostOnce, In
<1> QED BY <1>3, <1>4

LEMMA TailIn ==
  ASSUME NEW S, NEW s \in Seq(S), s # <<>>, NEW x
  PROVE  /\ Head(s) \in S /\ Tail(s) \in Seq(S)
         /\ In(Head(s), s)
         /\ In(x, Tail(s)) => In(x, s)
         /\ AtMostOnce(x, s) => AtMostOnce(x, Tail(s))
         /\ AtMostOnce(x, s) /\ x = Head(s) => ~In(x, Tail(s))
<1>1. /\ Len(s) \in Nat /\ Len(s) >= 1 /\ Head(s) = s[1] /\ Len(Tail(s)) = Len(s) - 1
      /\ \A i \in 1..Len(Tail(s)) : Tail(s)[i] = s[i + 1]
      /\ Head(s) \in S /\ Tail(s) \in Seq(S)
  OBVIOUS
<1>2. In(Head(s), s) BY <1>1 DEF In
<1>3. In(x, Tail(s)) => In(x, s)
  <2> SUFFICES ASSUME NEW i \in 1..Len(Tail(s)), Tail(s)[i] = x PROVE In(x, s) BY DEF In
  <2>1. i + 1 \in 1..Len(s) /\ s[i + 1] = x BY <1>1
  <2> QED BY <2>1 DEF In
<1>4. AtMostOnce(x, s) => AtMostOnce(x, Tail(s))
  <2> SUFFICES ASSUME AtMostOnce(x, s), NEW i \in 1..Len(Tail(s)), NEW j \in 1..Len(Tail(s)),
                      Tail(s)[i] = x, Tail(s)[j] = x
               PROVE  i = j
    BY DEF AtMostOnce
  <2>1. i + 1 \in 1..Len(s) /\ j + 1 \in 1..Len(s) /\ s[i + 1] = x /\ s[j + 1] = x BY <1>1
  <2>2. i + 1 = j + 1 BY <2>1 DEF AtMostOnce
  <2> QED BY <2>2
<1>5. AtMostOnce(x, s) /\ x = Head(s) => ~In(x, Tail(s))
  <2> SUFFICES ASSUME AtMostOnce(x, s), x = Head(s), NEW i \in 1..Len(Tail(s)), Tail(s)[i] = x
               PROVE  FALSE
    BY DEF In
  <2>1. 1 \in 1..Len(s) /\ i + 1 \in 1..Len(s) /\ s[1] = x /\ s[i + 1] = x BY <1>1
  <2>2. 1 = i + 1 BY <2>1 DEF AtMostOnce
  <2> QED BY <2>2
<1> QED BY <1>1, <1>2, <1>3, <1>4, <1>5

-----------------------------------------------------------------------------

CallOf(c) == [type |-> "call", id |-> c]
SpawnOf(c) == [type |-> "spawn", id |-> c]

\* A call without a result: none was sent and none is on its way.
NoResult(c) == sends[c] = 0 /\ ~In(c, transportMail)

InRouter(c) ==
  In(CallOf(c), routerMail) =>
    /\ issuedIn[c] # 0 /\ NoResult(c) /\ awaiting # c /\ ~In(SpawnOf(c), supervisorMail)
    /\ c \notin workflows /\ c \notin executing /\ c \notin aborted

InAwait(c) == awaiting = c => issuedIn[c] # 0 /\ NoResult(c) /\ c \notin Background

InSpawn(c) ==
  In(SpawnOf(c), supervisorMail) =>
    /\ issuedIn[c] # 0 /\ c \in Background /\ (c \notin Pending => NoResult(c))
    /\ c \notin workflows /\ c \notin executing /\ c \notin aborted

InWorkflow(c) ==
  c \in workflows =>
    /\ c \in Background /\ (c \notin Pending => NoResult(c))
    /\ c \in executing /\ c \notin aborted

InTransport(c) == In(c, transportMail) => issuedIn[c] # 0 /\ sends[c] = 0

Single(c) ==
  /\ AtMostOnce(CallOf(c), routerMail)
  /\ AtMostOnce(SpawnOf(c), supervisorMail)
  /\ AtMostOnce(c, transportMail)

Placed(c) ==
  /\ InRouter(c) /\ InAwait(c) /\ InSpawn(c) /\ InWorkflow(c) /\ InTransport(c)
  /\ c \in executing \/ c \in aborted => issuedIn[c] # 0
  /\ Single(c)

MailTypes ==
  /\ routerMail \in Seq(RouterMessage)
  /\ awaiting \in Calls \cup {NoCall}
  /\ supervisorMail \in Seq(SupervisorMessage)
  /\ workflows \subseteq Calls /\ executing \subseteq Calls /\ aborted \subseteq Calls
  /\ transportMail \in Seq(Calls)

IInv == GateIInv /\ MailTypes /\ \A c \in Calls : Placed(c)

LEMMA Start == ASSUME GateAssumption, WorkflowAssumption, Init PROVE IInv
<1>1. GateIInv BY GateStart DEF Init
<1>2. MailTypes BY DEF Init, MailTypes
<1>3. ASSUME NEW c \in Calls PROVE Placed(c)
  BY DEF In, AtMostOnce, Init, WorkflowAssumption, Placed, InRouter, InAwait, InSpawn, InWorkflow,
      InTransport, Single
<1> QED BY <1>1, <1>2, <1>3 DEF IInv
-----------------------------------------------------------------------------
(* What the steps of the gate do to a call's counters.                     *)

LEMMA IssueCounts ==
  ASSUME GateIInv, NEW c \in Calls, IssueCall(c)
  PROVE  /\ issuedIn[c] = 0 /\ sends' = sends
         /\ \A d \in Calls : issuedIn'[d] # 0 <=> issuedIn[d] # 0 \/ d = c
  BY DEF GateIInv, GateTypeOK, IssueCall, outcome

LEMMA CancelCounts ==
  ASSUME NEW c \in Calls, CancelCall(c) PROVE UNCHANGED <<issuedIn, sends>>
  BY DEF CancelCall, outcome

LEMMA OtherCounts ==
  ASSUME ConnectionStep \/ BeginFlip \/ EndFlip PROVE UNCHANGED <<issuedIn, sends>>
  BY DEF ConnectionStep, TurnCompleted, Disconnect, Dial, CrossBoundary, BeginFlip, EndFlip,
         EnterTranscription, ExitTranscription, WhisperStarts, WhisperFails, RolledBack,
         WhisperStops, Unquiesced, provider, outcome

LEMMA SendCounts ==
  ASSUME GateIInv, NEW c \in Calls, SendToolResult(c)
  PROVE  issuedIn' = issuedIn /\ \A d \in Calls : d # c => sends'[d] = sends[d]
  BY DEF GateIInv, GateTypeOK, SendToolResult, provider

\* A call that nothing of the step touches keeps its place.
LEMMA Untouched ==
  ASSUME NEW c \in Calls, Placed(c), UNCHANGED supervisor,
         In(CallOf(c), routerMail') => In(CallOf(c), routerMail),
         AtMostOnce(CallOf(c), routerMail) => AtMostOnce(CallOf(c), routerMail'),
         In(SpawnOf(c), supervisorMail') => In(SpawnOf(c), supervisorMail),
         AtMostOnce(SpawnOf(c), supervisorMail) => AtMostOnce(SpawnOf(c), supervisorMail'),
         In(c, transportMail') => In(c, transportMail),
         AtMostOnce(c, transportMail) => AtMostOnce(c, transportMail'),
         awaiting' = c => awaiting = c,
         issuedIn[c] # 0 => issuedIn'[c] # 0,
         In(c, transportMail') \/ sends[c] = 0 => sends'[c] = sends[c]
  PROVE  Placed(c)'
  BY DEF Placed, InRouter, InAwait, InSpawn, InWorkflow, InTransport, NoResult, Single, supervisor

-----------------------------------------------------------------------------
(* One lemma per action: every call keeps to one place.                    *)

LEMMA ReceiveCallKeeps ==
  ASSUME IInv, NEW c \in Calls, ReceiveCall(c), NEW d \in Calls
  PROVE  Placed(d)'
<1>1. /\ IssueCall(c) /\ routerMail' = Append(routerMail, CallOf(c))
      /\ UNCHANGED <<awaiting, supervisorMail, transportMail, supervisor>>
  BY DEF ReceiveCall, CallOf
<1>2. /\ issuedIn[c] = 0 /\ sends' = sends
      /\ issuedIn'[d] # 0 <=> issuedIn[d] # 0 \/ d = c
  BY <1>1, IssueCounts DEF IInv
<1>3. CallOf(c) \in RouterMessage /\ routerMail \in Seq(RouterMessage)
  BY DEF IInv, MailTypes, RouterMessage, CallOf
<1>4. CallOf(d) = CallOf(c) <=> d = c BY DEF CallOf
<1>5. /\ In(CallOf(d), routerMail') <=> In(CallOf(d), routerMail) \/ d = c
      /\ AtMostOnce(CallOf(d), routerMail) /\ (d # c \/ ~In(CallOf(d), routerMail))
            => AtMostOnce(CallOf(d), routerMail')
  BY <1>1, <1>3, <1>4, AppendIn
<1>6. Placed(d) BY DEF IInv
<1>7. CASE d = c
  BY <1>2, <1>6, <1>7, <1>1, <1>5 DEF Placed, InRouter, InAwait, InSpawn, InTransport, InWorkflow,
      IInv, GateIInv, Counted, NoResult, Single, supervisor
<1>8. CASE d # c BY <1>1, <1>2, <1>5, <1>6, <1>8, Untouched
<1> QED BY <1>7, <1>8

LEMMA RouterStepKeeps ==
  ASSUME IInv, RouterStep, WorkflowAssumption, NEW d \in Calls
  PROVE  Placed(d)'
<1> DEFINE m == Head(routerMail)
<1>1. /\ awaiting = NoCall /\ routerMail # <<>> /\ routerMail' = Tail(routerMail)
      /\ UNCHANGED <<supervisor, issuedIn, sends>>
  BY DEF RouterStep, DispatchAwaited, DispatchBackground, RouteCancel, TakeRouted, gateVars,
         provider, outcome
<1>2. routerMail \in Seq(RouterMessage) /\ supervisorMail \in Seq(SupervisorMessage)
      /\ transportMail \in Seq(Calls)
  BY DEF IInv, MailTypes
<1>3. /\ m \in RouterMessage /\ In(m, routerMail)
      /\ In(CallOf(d), routerMail') => In(CallOf(d), routerMail)
      /\ AtMostOnce(CallOf(d), routerMail) => AtMostOnce(CallOf(d), routerMail')
      /\ AtMostOnce(CallOf(d), routerMail) /\ CallOf(d) = m => ~In(CallOf(d), routerMail')
  BY <1>1, <1>2, TailIn
<1>4. m.id \in Calls /\ (m.type = "call" => m = CallOf(m.id)) BY <1>3 DEF RouterMessage, CallOf
<1>5. Placed(d) /\ Placed(m.id) BY <1>4 DEF IInv
<1>6. CASE DispatchAwaited
  <2>1. m.type = "call" /\ m.id \notin Background /\ awaiting' = m.id
        /\ UNCHANGED <<supervisorMail, transportMail>>
    BY <1>6 DEF DispatchAwaited, TakeRouted
  <2>2. CASE d = m.id
    BY <1>3, <1>4, <1>5, <2>1, <2>2, <1>1 DEF Placed, Single, InRouter, InAwait, InSpawn,
        InWorkflow, InTransport, NoResult, supervisor
  <2>3. CASE d # m.id BY <1>1, <1>3, <1>5, <2>1, <2>3, Untouched
  <2> QED BY <2>2, <2>3
<1>7. CASE DispatchBackground
  <2>1. /\ m.type = "call" /\ m.id \in Background /\ awaiting' = awaiting
        /\ supervisorMail' = Append(supervisorMail, SpawnOf(m.id))
        /\ transportMail' = IF m.id \in Pending THEN Append(transportMail, m.id) ELSE transportMail
    BY <1>7 DEF DispatchBackground, TakeRouted, SpawnOf
  <2>2. SpawnOf(m.id) \in SupervisorMessage /\ (SpawnOf(d) = SpawnOf(m.id) <=> d = m.id)
    BY <1>4 DEF SupervisorMessage, SpawnOf
  <2>3. /\ In(SpawnOf(d), supervisorMail') <=> In(SpawnOf(d), supervisorMail) \/ d = m.id
        /\ AtMostOnce(SpawnOf(d), supervisorMail) /\ (d # m.id \/ ~In(SpawnOf(d), supervisorMail))
             => AtMostOnce(SpawnOf(d), supervisorMail')
    BY <1>2, <2>1, <2>2, AppendIn
  <2>4. /\ In(d, transportMail') <=> In(d, transportMail) \/ (d = m.id /\ m.id \in Pending)
        /\ AtMostOnce(d, transportMail) /\ (d # m.id \/ ~In(d, transportMail))
             => AtMostOnce(d, transportMail')
    <3>1. CASE m.id \in Pending BY <1>2, <1>4, <2>1, <3>1, AppendIn
    <3>2. CASE m.id \notin Pending BY <2>1, <3>2
    <3> QED BY <3>1, <3>2
  <2>5. CASE d = m.id
    BY <1>3, <1>4, <1>5, <2>1, <2>5, <2>3, <2>4, <1>1 DEF Placed, Single, InRouter, NoResult,
        InAwait, InSpawn, InWorkflow, InTransport, supervisor
  <2>6. CASE d # m.id BY <1>1, <1>3, <1>5, <2>1, <2>3, <2>4, <2>6, Untouched
  <2> QED BY <2>5, <2>6
<1>8. CASE RouteCancel
  <2>1. /\ supervisorMail' = Append(supervisorMail, [type |-> "cancel", id |-> m.id])
        /\ UNCHANGED <<awaiting, transportMail>>
    BY <1>8 DEF RouteCancel
  <2>2. [type |-> "cancel", id |-> m.id] \in SupervisorMessage /\ SpawnOf(d) # [type |-> "cancel", id |-> m.id]
    BY <1>4 DEF SupervisorMessage, SpawnOf
  <2>3. /\ In(SpawnOf(d), supervisorMail') <=> In(SpawnOf(d), supervisorMail)
        /\ AtMostOnce(SpawnOf(d), supervisorMail) => AtMostOnce(SpawnOf(d), supervisorMail')
    BY <1>2, <2>1, <2>2, AppendIn
  <2> QED BY <1>1, <1>3, <1>5, <2>1, <2>3, Untouched
<1> QED BY <1>6, <1>7, <1>8 DEF RouterStep
LEMMA SupervisorStepKeeps ==
  ASSUME IInv, NEW c \in Calls, HandleSpawnRequest(c) \/ HandleCancelRequest(c), NEW d \in Calls
  PROVE  Placed(d)'
<1>1. /\ supervisorMail # <<>> /\ supervisorMail' = Tail(supervisorMail)
      /\ UNCHANGED <<routerMail, awaiting, transportMail, issuedIn, sends>>
  BY DEF HandleSpawnRequest, HandleCancelRequest, TakeSupervised, gateVars, provider, outcome
<1>2. supervisorMail \in Seq(SupervisorMessage) BY DEF IInv, MailTypes
<1>3. /\ In(Head(supervisorMail), supervisorMail)
      /\ In(SpawnOf(d), supervisorMail') => In(SpawnOf(d), supervisorMail)
      /\ AtMostOnce(SpawnOf(d), supervisorMail) => AtMostOnce(SpawnOf(d), supervisorMail')
      /\ AtMostOnce(SpawnOf(d), supervisorMail) /\ SpawnOf(d) = Head(supervisorMail)
           => ~In(SpawnOf(d), supervisorMail')
  BY <1>1, <1>2, TailIn
<1>4. Placed(d) BY DEF IInv
<1>5. Single(d)' BY <1>1, <1>3, <1>4 DEF Placed, Single
<1>6. CASE HandleSpawnRequest(c)
  <2>1. /\ Head(supervisorMail) = SpawnOf(c) /\ aborted' = aborted
        /\ workflows' = workflows \cup {c} /\ executing' = executing \cup {c}
    BY <1>6 DEF HandleSpawnRequest, TakeSupervised, SpawnOf
  <2>2. CASE d = c
    BY <1>3, <1>4, <2>1, <2>2, <1>1, <1>5 DEF Placed, Single, InRouter, InAwait, InSpawn,
        InWorkflow, InTransport, NoResult
  <2>3. CASE d # c
    BY <2>1, <2>3, <1>1, <1>3, <1>4, <1>5 DEF Placed, InRouter, InAwait, InSpawn, InWorkflow,
        InTransport, NoResult
  <2> QED BY <2>2, <2>3
<1>7. CASE HandleCancelRequest(c)
  <2>1. /\ executing' = executing /\ workflows' = workflows \ {c}
        /\ aborted' = IF c \in workflows THEN aborted \cup {c} ELSE aborted
    BY <1>7 DEF HandleCancelRequest
  <2>2. CASE d = c /\ c \in workflows
    BY <1>4, <2>1, <2>2, <1>1, <1>3, <1>5 DEF Placed, InRouter, InSpawn, InWorkflow, InAwait,
        InTransport, NoResult
  <2>3. CASE ~(d = c /\ c \in workflows)
    BY <2>1, <2>3, <1>1, <1>3, <1>4, <1>5 DEF Placed, InRouter, InAwait, InSpawn, InWorkflow,
        InTransport, NoResult
  <2> QED BY <2>2, <2>3
<1> QED BY <1>6, <1>7

\* A settled call has its result on its way, or had its pending result.
LEMMA SettleKeeps ==
  ASSUME IInv, WorkflowAssumption, NEW c \in Calls, AwaitedSettles(c) \/ ExecutionSettles(c),
         NEW d \in Calls
  PROVE  Placed(d)'
<1>1. UNCHANGED <<routerMail, supervisorMail, aborted, issuedIn, sends>>
  BY DEF AwaitedSettles, ExecutionSettles, supervisor, gateVars, provider, outcome
<1>2. transportMail \in Seq(Calls) BY DEF IInv, MailTypes
<1>3. Placed(d) /\ Placed(c) BY DEF IInv
<1>4. ASSUME transportMail' = Append(transportMail, c)
      PROVE  /\ In(d, transportMail') <=> In(d, transportMail) \/ d = c
             /\ AtMostOnce(d, transportMail) /\ (d # c \/ ~In(d, transportMail))
                   => AtMostOnce(d, transportMail')
  BY <1>2, <1>4, AppendIn
<1>5. CASE AwaitedSettles(c)
  <2>1. /\ awaiting = c /\ awaiting' = NoCall /\ transportMail' = Append(transportMail, c)
        /\ UNCHANGED supervisor /\ NoCall # d
    BY <1>5 DEF AwaitedSettles, WorkflowAssumption
  <2>2. CASE d = c
    BY <1>3, <2>1, <2>2, <1>1, <1>4 DEF Placed, InAwait, InRouter, Single, NoResult, InSpawn,
        InWorkflow, InTransport, supervisor
  <2>3. CASE d # c BY <1>1, <1>3, <1>4, <2>1, <2>3, Untouched
  <2> QED BY <2>2, <2>3
<1>6. CASE ExecutionSettles(c)
  <2>1. /\ c \in executing /\ executing' = executing \ {c} /\ awaiting' = awaiting
        /\ \/ /\ c \in workflows /\ workflows' = workflows \ {c}
              /\ transportMail' = IF c \in Pending THEN transportMail ELSE Append(transportMail, c)
           \/ c \notin workflows /\ UNCHANGED <<workflows, transportMail>>
    BY <1>3, <1>6 DEF ExecutionSettles, Finish, Placed, InWorkflow
  <2>2. CASE d = c
    <3>1. /\ ~In(CallOf(d), routerMail) /\ ~In(SpawnOf(d), supervisorMail)
          /\ d \notin executing' /\ d \notin workflows' /\ issuedIn[d] # 0
      BY <1>3, <2>1, <2>2 DEF Placed, InRouter, InSpawn, InWorkflow
    <3>2. /\ In(d, transportMail') => In(d, transportMail) \/ (NoResult(d) /\ d \in Background)
          /\ AtMostOnce(d, transportMail')
      <4>1. CASE c \in workflows /\ c \notin Pending
        BY <1>3, <1>4, <2>1, <2>2, <4>1 DEF Placed, InWorkflow, NoResult, Single
      <4>2. CASE transportMail' = transportMail BY <1>3, <4>2 DEF Placed, Single
      <4> QED BY <2>1, <4>1, <4>2
    <3> QED BY <1>1, <1>3, <2>1, <3>1, <3>2
            DEF Placed, InRouter, InAwait, InSpawn, InWorkflow, InTransport, NoResult, Single
  <2>3. CASE d # c
    BY <2>1, <2>3, <1>4, <1>1, <1>3 DEF Placed, InRouter, InAwait, InSpawn, InWorkflow,
        InTransport, NoResult, Single
  <2> QED BY <2>2, <2>3
<1> QED BY <1>5, <1>6

\* The result at the head of the transport's mailbox is its call's only one.
LEMMA WriteIsSend ==
  ASSUME IInv, WriteToolResult
  PROVE  Head(transportMail) \in Calls /\ SendResult(Head(transportMail))
<1>1. transportMail # <<>> /\ SendToolResult(Head(transportMail)) BY DEF WriteToolResult
<1>2. Head(transportMail) \in Calls /\ In(Head(transportMail), transportMail)
  BY <1>1, TailIn DEF IInv, MailTypes
<1> QED BY <1>1, <1>2 DEF IInv, Placed, InTransport, SendResult

LEMMA WriteKeeps ==
  ASSUME IInv, WriteToolResult, NEW d \in Calls
  PROVE  Placed(d)'
<1> DEFINE h == Head(transportMail)
<1>1. /\ transportMail # <<>> /\ transportMail' = Tail(transportMail) /\ SendToolResult(h)
      /\ UNCHANGED <<routerMail, awaiting, supervisorMail, supervisor>>
  BY DEF WriteToolResult
<1>2. h \in Calls /\ issuedIn' = issuedIn /\ (d # h => sends'[d] = sends[d])
  BY <1>1, WriteIsSend, SendCounts DEF IInv
<1>3. /\ In(h, transportMail)
      /\ In(d, transportMail') => In(d, transportMail)
      /\ AtMostOnce(d, transportMail) => AtMostOnce(d, transportMail')
      /\ AtMostOnce(d, transportMail) /\ d = h => ~In(d, transportMail')
  BY <1>1, TailIn DEF IInv, MailTypes
<1>4. Placed(d) BY DEF IInv
<1>5. CASE d = h
  BY <1>3, <1>4, <1>5, <1>1, <1>2 DEF NoResult, Placed, Single, InRouter, InAwait, InSpawn,
      InWorkflow, InTransport, supervisor
<1>6. CASE d # h BY <1>1, <1>2, <1>3, <1>4, <1>6, Untouched
<1> QED BY <1>5, <1>6
LEMMA MailTypesStep ==
  ASSUME IInv, WorkflowAssumption, [Next]_vars
  PROVE  MailTypes'
<1> USE DEF IInv, MailTypes
<1>1. CASE UNCHANGED vars BY <1>1 DEF vars, mailboxes, supervisor
<1>2. CASE ProviderStep
  <2>1. PICK c \in Calls : ReceiveCall(c) \/ ReceiveCancel(c) BY <1>2 DEF ProviderStep
  <2>2. PICK m \in RouterMessage : routerMail' = Append(routerMail, m)
    BY <2>1 DEF RouterMessage, ReceiveCall, ReceiveCancel
  <2>3. routerMail' \in Seq(RouterMessage) BY <2>2
  <2> QED BY <2>1, <2>3 DEF ReceiveCall, ReceiveCancel, supervisor
<1>3. CASE SessionStep \/ FlipSettles BY <1>3 DEF SessionStep, FlipSettles, mailboxes, supervisor
<1>4. CASE RouterStep
  <2>1. routerMail # <<>> /\ routerMail' = Tail(routerMail) /\ UNCHANGED supervisor
    BY <1>4 DEF RouterStep, DispatchAwaited, DispatchBackground, RouteCancel, TakeRouted
  <2>2. Head(routerMail) \in RouterMessage /\ Tail(routerMail) \in Seq(RouterMessage)
    BY <2>1, TailIn
  <2>3. Head(routerMail).id \in Calls BY <2>2 DEF RouterMessage
  <2>4. /\ [type |-> "spawn", id |-> Head(routerMail).id] \in SupervisorMessage
        /\ [type |-> "cancel", id |-> Head(routerMail).id] \in SupervisorMessage
    BY <2>3 DEF SupervisorMessage
  <2>5. supervisorMail' \in Seq(SupervisorMessage)
    <3>1. \A m \in SupervisorMessage : Append(supervisorMail, m) \in Seq(SupervisorMessage) OBVIOUS
    <3> QED BY <1>4, <2>4, <3>1 DEF RouterStep, DispatchAwaited, DispatchBackground, RouteCancel
  <2>6. transportMail' \in Seq(Calls)
    <3>1. Append(transportMail, Head(routerMail).id) \in Seq(Calls) BY <2>3
    <3> QED BY <1>4, <3>1 DEF RouterStep, DispatchAwaited, DispatchBackground, RouteCancel
  <2>7. awaiting' \in Calls \cup {NoCall}
    BY <1>4, <2>3 DEF RouterStep, DispatchAwaited, DispatchBackground, RouteCancel
  <2> QED BY <2>1, <2>2, <2>5, <2>6, <2>7 DEF supervisor
<1>5. CASE SupervisorStep
  BY <1>5, TailIn DEF SupervisorStep, HandleSpawnRequest, HandleCancelRequest, TakeSupervised
<1>6. CASE Settle
  <2>1. PICK c \in Calls : AwaitedSettles(c) \/ ExecutionSettles(c) BY <1>6 DEF Settle
  <2>2. UNCHANGED <<routerMail, supervisorMail, aborted>>
    BY <2>1 DEF AwaitedSettles, ExecutionSettles, supervisor
  <2>3. transportMail' \in Seq(Calls)
    <3>1. Append(transportMail, c) \in Seq(Calls) OBVIOUS
    <3> QED BY <2>1, <3>1 DEF AwaitedSettles, ExecutionSettles, Finish
  <2>4. /\ awaiting' \in Calls \cup {NoCall}
        /\ workflows' \in SUBSET workflows /\ executing' \in SUBSET executing
    BY <2>1 DEF AwaitedSettles, ExecutionSettles, Finish, supervisor
  <2> QED BY <2>2, <2>3, <2>4
<1>7. CASE WriteToolResult BY <1>7, TailIn DEF WriteToolResult, supervisor
<1> QED BY <1>1, <1>2, <1>3, <1>4, <1>5, <1>6, <1>7 DEF Next

LEMMA PlacedStep ==
  ASSUME IInv, GateAssumption, WorkflowAssumption, [Next]_vars, NEW d \in Calls
  PROVE  Placed(d)'
<1>1. Placed(d) BY DEF IInv
<1>2. ASSUME UNCHANGED <<mailboxes, supervisor, issuedIn, sends>> PROVE Placed(d)'
  BY <1>1, <1>2, Untouched DEF mailboxes
<1>3. CASE UNCHANGED vars BY <1>2, <1>3 DEF vars, gateVars, provider, outcome
<1>4. CASE SessionStep \/ FlipSettles BY <1>2, <1>4, OtherCounts DEF SessionStep, FlipSettles
<1>5. ASSUME NEW c \in Calls, ReceiveCancel(c) PROVE Placed(d)'
  <2>1. /\ routerMail' = Append(routerMail, [type |-> "cancel", id |-> c])
        /\ UNCHANGED <<awaiting, supervisorMail, transportMail, supervisor, issuedIn, sends>>
    BY <1>5, CancelCounts DEF ReceiveCancel
  <2>2. /\ [type |-> "cancel", id |-> c] \in RouterMessage
        /\ CallOf(d) # [type |-> "cancel", id |-> c]
    BY DEF RouterMessage, CallOf
  <2>3. /\ In(CallOf(d), routerMail') <=> In(CallOf(d), routerMail)
        /\ AtMostOnce(CallOf(d), routerMail) => AtMostOnce(CallOf(d), routerMail')
    BY <2>1, <2>2, AppendIn DEF IInv, MailTypes
  <2> QED BY <1>1, <2>1, <2>3, Untouched
<1> QED BY <1>3, <1>4, <1>5, ReceiveCallKeeps, RouterStepKeeps, SupervisorStepKeeps,
           SettleKeeps, WriteKeeps
        DEF Next, ProviderStep, SupervisorStep, Settle

\* What the gate sees of a step is one of its own steps.
LEMMA GateSees ==
  ASSUME IInv, [Next]_vars
  PROVE  [GateNext]_gateVars
<1>1. CASE UNCHANGED vars BY <1>1 DEF vars
<1>2. CASE ProviderStep BY <1>2 DEF ProviderStep, ReceiveCall, ReceiveCancel, GateNext
<1>3. CASE SessionStep \/ FlipSettles BY <1>3 DEF SessionStep, FlipSettles, GateNext
<1>4. CASE RouterStep BY <1>4 DEF RouterStep, DispatchAwaited, DispatchBackground, RouteCancel
<1>5. CASE SupervisorStep
  BY <1>5 DEF SupervisorStep, HandleSpawnRequest, HandleCancelRequest, TakeSupervised
<1>6. CASE Settle BY <1>6 DEF Settle, AwaitedSettles, ExecutionSettles
<1>7. CASE WriteToolResult BY <1>7, WriteIsSend DEF GateNext
<1> QED BY <1>1, <1>2, <1>3, <1>4, <1>5, <1>6, <1>7 DEF Next

LEMMA Step ==
  ASSUME IInv, GateAssumption, WorkflowAssumption, [Next]_vars
  PROVE  IInv'
<1>1. GateIInv' BY GateSees, GateStep DEF IInv
<1> QED BY <1>1, MailTypesStep, PlacedStep DEF IInv

-----------------------------------------------------------------------------

\* For any calls, the actors' fields and mailboxes keep their types.
THEOREM WorkflowTypes ==
  ASSUME GateAssumption, WorkflowAssumption PROVE Spec => []TypeOK
<1>1. Init => IInv BY Start
<1>2. IInv /\ [Next]_vars => IInv' BY Step
<1>3. IInv => TypeOK BY DEF IInv, MailTypes, GateIInv, TypeOK
<1> QED BY <1>1, <1>2, <1>3, PTL DEF Spec

\* No workflow outlives its execution in the supervisor's list, whatever order
\* spawns, cancels and settlements come in.
THEOREM WorkflowsAlwaysRun ==
  ASSUME GateAssumption, WorkflowAssumption PROVE Spec => []WorkflowsRun
<1>1. Init => IInv BY Start
<1>2. IInv /\ [Next]_vars => IInv' BY Step
<1>3. IInv => WorkflowsRun BY DEF IInv, MailTypes, Placed, InWorkflow, WorkflowsRun
<1> QED BY <1>1, <1>2, <1>3, PTL DEF Spec

\* Router, supervisor and transport are a correct caller of the gate: at most
\* one result per call, and only of calls the provider issued.
THEOREM WorkflowImplementsGate ==
  ASSUME GateAssumption, WorkflowAssumption PROVE Spec => ImplementsGate
<1>1. Init => IInv BY Start
<1>2. IInv /\ [Next]_vars => IInv' BY Step
<1>3. Init => GateInit BY DEF Init
<1>4. IInv /\ [Next]_vars => [GateNext]_gateVars BY GateSees
<1> QED BY <1>1, <1>2, <1>3, <1>4, PTL DEF Spec, ImplementsGate

\* So the provider gets what ToolCallContract promises from the whole.
THEOREM WorkflowKeepsContract ==
  ASSUME GateAssumption, WorkflowAssumption PROVE Spec => KeepsContract
<1>1. Init => IInv BY Start
<1>2. IInv /\ [Next]_vars => IInv' BY Step
<1>3. Init => Contract!ContractInit BY DEF Init, GateInit, Contract!ContractInit
<1>4. IInv /\ [Next]_vars => [Contract!ContractNext]_(Contract!contractVars)
  BY GateSees, ContractStep DEF IInv
<1> QED BY <1>1, <1>2, <1>3, <1>4, PTL DEF Spec, KeepsContract, Contract!ContractSpec
-----------------------------------------------------------------------------
(* A cancel stays behind its call, and then behind its spawn.              *)

CancelOf(c) == [type |-> "cancel", id |-> c]

\* Every x of the sequence s has a y behind it.
Follows(x, y, s) == \A i \in 1..Len(s) : s[i] = x => \E j \in 1..Len(s) : i < j /\ s[j] = y

LEMMA AppendFollows ==
  ASSUME NEW S, NEW s \in Seq(S), NEW e \in S, NEW x, NEW y, x # e
  PROVE  Follows(x, y, s) \/ y = e => Follows(x, y, Append(s, e))
<1>1. /\ Len(s) \in Nat /\ Len(Append(s, e)) = Len(s) + 1 /\ Append(s, e)[Len(s) + 1] = e
      /\ \A i \in 1..Len(s) : Append(s, e)[i] = s[i]
  OBVIOUS
<1> SUFFICES ASSUME Follows(x, y, s) \/ y = e, NEW i \in 1..Len(Append(s, e)), Append(s, e)[i] = x
             PROVE  \E j \in 1..Len(Append(s, e)) : i < j /\ Append(s, e)[j] = y
  BY DEF Follows
<1>2. i \in 1..Len(s) /\ s[i] = x BY <1>1
<1>3. CASE y = e BY <1>1, <1>2, <1>3
<1>4. CASE Follows(x, y, s)
  <2>1. PICK j \in 1..Len(s) : i < j /\ s[j] = y BY <1>2, <1>4 DEF Follows
  <2>2. j \in 1..Len(Append(s, e)) /\ Append(s, e)[j] = y BY <1>1, <2>1
  <2> QED BY <2>1, <2>2
<1> QED BY <1>3, <1>4

LEMMA TailFollows ==
  ASSUME NEW S, NEW s \in Seq(S), s # <<>>, NEW x, NEW y
  PROVE  /\ Follows(x, y, s) => Follows(x, y, Tail(s))
         /\ Follows(x, y, s) /\ Head(s) = x => In(y, Tail(s))
         /\ In(y, s) /\ Head(s) # y => In(y, Tail(s))
<1>1. /\ Len(s) \in Nat /\ Len(s) >= 1 /\ Head(s) = s[1] /\ Len(Tail(s)) = Len(s) - 1
      /\ \A i \in 1..Len(Tail(s)) : Tail(s)[i] = s[i + 1]
  OBVIOUS
<1>2. ASSUME NEW j \in 1..Len(s), j # 1 PROVE j - 1 \in 1..Len(Tail(s)) /\ Tail(s)[j - 1] = s[j]
  BY <1>1, <1>2
<1>3. ASSUME Follows(x, y, s) PROVE Follows(x, y, Tail(s))
  <2> SUFFICES ASSUME NEW i \in 1..Len(Tail(s)), Tail(s)[i] = x
               PROVE  \E j \in 1..Len(Tail(s)) : i < j /\ Tail(s)[j] = y
    BY DEF Follows
  <2>1. i + 1 \in 1..Len(s) /\ s[i + 1] = x BY <1>1
  <2>2. PICK j \in 1..Len(s) : i + 1 < j /\ s[j] = y BY <1>3, <2>1 DEF Follows
  <2>3. j - 1 \in 1..Len(Tail(s)) /\ i < j - 1 /\ Tail(s)[j - 1] = y BY <1>2, <2>2
  <2> QED BY <2>3
<1>4. ASSUME Follows(x, y, s), Head(s) = x PROVE In(y, Tail(s))
  <2>1. 1 \in 1..Len(s) /\ s[1] = x BY <1>1, <1>4
  <2>2. PICK j \in 1..Len(s) : 1 < j /\ s[j] = y BY <1>4, <2>1 DEF Follows
  <2> QED BY <1>2, <2>2 DEF In
<1>5. ASSUME In(y, s), Head(s) # y PROVE In(y, Tail(s))
  <2>1. PICK j \in 1..Len(s) : s[j] = y BY <1>5 DEF In
  <2>2. j # 1 BY <1>1, <1>5, <2>1
  <2> QED BY <1>2, <2>1, <2>2 DEF In
<1> QED BY <1>3, <1>4, <1>5

\* The cancel of a withdrawn call is still to come while the call may become,
\* or is, a workflow.
CancelComes(c) ==
  c \in cancelled =>
    /\ Follows(CallOf(c), CancelOf(c), routerMail)
    /\ \/ In(CancelOf(c), routerMail)
       \/ /\ Follows(SpawnOf(c), CancelOf(c), supervisorMail)
          /\ c \in workflows => In(CancelOf(c), supervisorMail)

CInv == IInv /\ \A c \in Calls : CancelComes(c)

LEMMA CancelComesStep ==
  ASSUME CInv, WorkflowAssumption, [Next]_vars, NEW d \in Calls
  PROVE  CancelComes(d)'
<1>1. CancelComes(d) /\ Placed(d) BY DEF CInv, IInv
<1>2. routerMail \in Seq(RouterMessage) /\ supervisorMail \in Seq(SupervisorMessage)
  BY DEF CInv, IInv, MailTypes
<1>3. CallOf(d) # CancelOf(d) /\ SpawnOf(d) # CancelOf(d) BY DEF CallOf, SpawnOf, CancelOf
<1>4. ASSUME UNCHANGED <<cancelled, routerMail, supervisorMail>>, workflows' \in SUBSET workflows
      PROVE  CancelComes(d)'
  BY <1>1, <1>4 DEF CancelComes
<1>5. CASE UNCHANGED vars BY <1>4, <1>5 DEF vars, gateVars, provider, mailboxes, supervisor
<1>6. CASE SessionStep \/ FlipSettles
  <2>1. cancelled' = cancelled
    BY <1>6 DEF SessionStep, FlipSettles, ConnectionStep, TurnCompleted, Disconnect, Dial,
         CrossBoundary, BeginFlip, EndFlip, EnterTranscription, ExitTranscription, WhisperStarts,
         WhisperFails, RolledBack, WhisperStops, Unquiesced, provider
  <2> QED BY <1>4, <1>6, <2>1 DEF SessionStep, FlipSettles, mailboxes, supervisor
<1>7. CASE Settle \/ WriteToolResult
  BY <1>7, <1>4 DEF Settle, AwaitedSettles, ExecutionSettles, Finish, WriteToolResult,
      SendToolResult, gateVars, provider, supervisor
<1>8. ASSUME NEW c \in Calls, ReceiveCall(c) PROVE CancelComes(d)'
  <2>1. /\ IssueCall(c) /\ routerMail' = Append(routerMail, CallOf(c))
        /\ UNCHANGED <<cancelled, supervisorMail, workflows>>
    BY <1>8 DEF ReceiveCall, IssueCall, CallOf, supervisor
  <2>2. CallOf(c) \in RouterMessage /\ CancelOf(d) # CallOf(c)
    BY DEF RouterMessage, CallOf, CancelOf
  <2>3. c \notin cancelled BY <2>1 DEF CInv, IInv, GateIInv, Counted, IssueCall
  <2>4. ASSUME d \in cancelled PROVE CallOf(d) # CallOf(c) BY <2>3, <2>4 DEF CallOf
  <2>5. d \in cancelled /\ Follows(CallOf(d), CancelOf(d), routerMail)
          => Follows(CallOf(d), CancelOf(d), routerMail')
    BY <1>2, <2>1, <2>2, <2>4, AppendFollows
  <2>6. In(CancelOf(d), routerMail) => In(CancelOf(d), routerMail') BY <1>2, <2>1, <2>2, AppendIn
  <2> QED BY <1>1, <2>1, <2>5, <2>6 DEF CancelComes
<1>9. ASSUME NEW c \in Calls, ReceiveCancel(c) PROVE CancelComes(d)'
  <2>1. /\ cancelled' = cancelled \cup {c} /\ routerMail' = Append(routerMail, CancelOf(c))
        /\ UNCHANGED <<supervisorMail, workflows>>
    BY <1>9 DEF ReceiveCancel, CancelCall, CancelOf, supervisor
  <2>2. CancelOf(c) \in RouterMessage /\ CallOf(d) # CancelOf(c)
    BY DEF RouterMessage, CallOf, CancelOf
  <2>3. Follows(CallOf(d), CancelOf(d), routerMail) \/ d = c
          => Follows(CallOf(d), CancelOf(d), routerMail')
    BY <1>2, <2>1, <2>2, AppendFollows
  <2>4. In(CancelOf(d), routerMail) \/ d = c => In(CancelOf(d), routerMail')
    BY <1>2, <2>1, <2>2, AppendIn
  <2> QED BY <1>1, <2>1, <2>3, <2>4 DEF CancelComes
<1>10. CASE RouterStep
  <2> DEFINE m == Head(routerMail)
  <2>1. /\ routerMail # <<>> /\ routerMail' = Tail(routerMail)
        /\ UNCHANGED <<workflows, cancelled>>
    BY <1>10 DEF RouterStep, DispatchAwaited, DispatchBackground, RouteCancel, TakeRouted,
                 gateVars, provider, supervisor
  <2>2. /\ Follows(CallOf(d), CancelOf(d), routerMail) => Follows(CallOf(d), CancelOf(d), routerMail')
        /\ Follows(CallOf(d), CancelOf(d), routerMail) /\ m = CallOf(d) => In(CancelOf(d), routerMail')
        /\ In(CancelOf(d), routerMail) /\ m # CancelOf(d) => In(CancelOf(d), routerMail')
    BY <1>2, <2>1, TailFollows
  <2>3. m \in RouterMessage /\ m.id \in Calls
    <3>1. m \in RouterMessage BY <1>2, <2>1, TailIn
    <3> QED BY <3>1 DEF RouterMessage
  <2>4. (m.type = "call" => m = CallOf(m.id)) /\ (m.type = "cancel" => m = CancelOf(m.id))
    BY <2>3 DEF RouterMessage, CallOf, CancelOf
  <2>5. CASE DispatchAwaited
    BY <2>5, <1>1, <2>1, <2>2 DEF DispatchAwaited, TakeRouted, CancelOf, CancelComes
  <2>6. CASE DispatchBackground
    <3>1. m.type = "call" /\ supervisorMail' = Append(supervisorMail, SpawnOf(m.id))
      BY <2>6 DEF DispatchBackground, TakeRouted, SpawnOf
    <3>2. m # CancelOf(d) /\ SpawnOf(m.id) \in SupervisorMessage /\ CancelOf(d) # SpawnOf(m.id)
      BY <2>3, <3>1 DEF CancelOf, SpawnOf, SupervisorMessage
    <3>3. CASE m.id = d BY <2>4, <3>1, <3>3, <1>1, <2>1, <2>2 DEF CancelComes
    <3>4. CASE m.id # d
      BY <3>4, <1>2, <3>1, <3>2, AppendFollows, AppendIn, <1>1, <2>1, <2>2 DEF SpawnOf, CancelComes
    <3> QED BY <3>3, <3>4
  <2>7. CASE RouteCancel
    <3>1. m.type = "cancel" /\ supervisorMail' = Append(supervisorMail, CancelOf(m.id))
      BY <2>7 DEF RouteCancel, TakeRouted, CancelOf
    <3>2. CancelOf(m.id) \in SupervisorMessage /\ SpawnOf(d) # CancelOf(m.id)
      BY <2>3 DEF CancelOf, SpawnOf, SupervisorMessage
    <3>3. /\ Follows(SpawnOf(d), CancelOf(d), supervisorMail) \/ CancelOf(d) = CancelOf(m.id)
                => Follows(SpawnOf(d), CancelOf(d), supervisorMail')
          /\ In(CancelOf(d), supervisorMail') <=> In(CancelOf(d), supervisorMail) \/ CancelOf(d) = CancelOf(m.id)
      BY <1>2, <3>1, <3>2, AppendFollows, AppendIn
    <3>4. m = CancelOf(d) <=> CancelOf(d) = CancelOf(m.id) BY <2>4, <3>1
    <3> QED BY <1>1, <2>1, <2>2, <3>3, <3>4 DEF CancelComes
  <2> QED BY <1>10, <2>5, <2>6, <2>7 DEF RouterStep
<1>11. ASSUME NEW c \in Calls, HandleSpawnRequest(c) \/ HandleCancelRequest(c) PROVE CancelComes(d)'
  <2>1. /\ supervisorMail # <<>> /\ supervisorMail' = Tail(supervisorMail)
        /\ UNCHANGED <<routerMail, cancelled>>
    BY <1>11 DEF HandleSpawnRequest, HandleCancelRequest, TakeSupervised, gateVars, provider
  <2>2. /\ Follows(SpawnOf(d), CancelOf(d), supervisorMail)
              => Follows(SpawnOf(d), CancelOf(d), supervisorMail')
        /\ Follows(SpawnOf(d), CancelOf(d), supervisorMail) /\ Head(supervisorMail) = SpawnOf(d)
              => In(CancelOf(d), supervisorMail')
        /\ In(CancelOf(d), supervisorMail) /\ Head(supervisorMail) # CancelOf(d)
              => In(CancelOf(d), supervisorMail')
    BY <1>2, <2>1, TailFollows
  <2>3. CASE HandleSpawnRequest(c)
    BY <2>3, <1>1, <2>1, <2>2 DEF HandleSpawnRequest, TakeSupervised, SpawnOf, CancelOf,
        CancelComes
  <2>4. CASE HandleCancelRequest(c)
    BY <2>4, <1>1, <2>1, <2>2 DEF HandleCancelRequest, TakeSupervised, CancelOf, CancelComes
  <2> QED BY <1>11, <2>3, <2>4
<1> QED BY <1>5, <1>6, <1>7, <1>8, <1>9, <1>10, <1>11 DEF Next, ProviderStep, SupervisorStep

\* A cancelled background task stops: once the router and the supervisor have
\* worked off their mailboxes no cancelled call is a workflow.
THEOREM CancelledTasksAreStopped ==
  ASSUME GateAssumption, WorkflowAssumption PROVE Spec => []CancelledTasksStop
<1>1. Init => CInv BY Start DEF Init, GateInit, CInv, CancelComes
<1>2. CInv /\ [Next]_vars => CInv' BY Step, CancelComesStep DEF CInv
<1>3. CInv => CancelledTasksStop
  <2> SUFFICES ASSUME CInv, routerMail = <<>>, supervisorMail = <<>>,
                      NEW c \in workflows, c \in cancelled
               PROVE  FALSE
    BY DEF CancelledTasksStop
  <2>1. c \in Calls BY DEF CInv, IInv, MailTypes
  <2>2. ~In(CancelOf(c), <<>>) BY DEF In
  <2> QED BY <2>1, <2>2 DEF CInv, CancelComes
<1> QED BY <1>1, <1>2, <1>3, PTL DEF Spec

\* What the supervisor lists runs, and what was cancelled is not listed.
THEOREM SupervisorKeepsBooks ==
  ASSUME GateAssumption, WorkflowAssumption PROVE Spec => []TasksAreInHand
<1>1. WorkflowsRun /\ CancelledTasksStop => TasksAreInHand BY DEF TasksAreInHand
<1> QED BY <1>1, WorkflowsAlwaysRun, CancelledTasksAreStopped, PTL
=============================================================================
