------------------------ MODULE ToolResultGateProofs ------------------------
(***************************************************************************)
(* ToolResultGate for any set of calls and any bounds: what the fence      *)
(* knows of a call (its stamp against the boundary) agrees with what is    *)
(* true of it (the session that issued it), so the gate keeps the          *)
(* ToolCallContract and hasOpenToolCalls is exact.                         *)
(***************************************************************************)
EXTENDS ToolResultGate, TLAPS

USE DEF PassesNow

Unsettled(c) == sends[c] = 0 \/ c \in held

\* The connection is newer than the boundary whenever one is open.
BoundaryBehind ==
  /\ boundaryGen <= dialGen
  /\ connected => boundaryGen < dialGen

\* A call's counters go up together, in order.
Counted ==
  \A c \in Calls :
    /\ issuedIn[c] <= era
    /\ issuedIn[c] = 0 => sends[c] = 0 /\ c \notin cancelled
    /\ sends[c] \in {0, 1} /\ written[c] <= sends[c]
    /\ c \in held => sends[c] = 1 /\ written[c] = 0

\* A stamp is kept for the calls that still need one, and tells their session.
StampsTell ==
  \A c \in Calls :
    /\ issuedIn[c] # 0 /\ c \notin cancelled /\ Unsettled(c) => stamps[c] # 0
    /\ stamps[c] # 0 =>
         /\ issuedIn[c] # 0 /\ c \notin cancelled /\ Unsettled(c)
         /\ stamps[c] <= dialGen
         /\ stamps[c] <= boundaryGen <=> issuedIn[c] < era

\* The awaited calls are those of the turn that still have a stamp.
AwaitedTell ==
  \A c \in Calls : c \in awaited <=> c \in thisTurn /\ stamps[c] # 0

UnquiescedIsAgent == flip = "unquiescing" => mode = "agent"

GateIInv ==
  /\ GateTypeOK /\ BoundaryBehind /\ Counted /\ StampsTell
  /\ AwaitedTell /\ UnquiescedIsAgent

LEMMA GateStart == ASSUME GateAssumption, GateInit PROVE GateIInv
  BY DEF GateAssumption, GateInit, GateIInv, GateTypeOK, BoundaryBehind, Counted,
         StampsTell, AwaitedTell, UnquiescedIsAgent

\* What one pass of the fence does to the calls it is given.
LEMMA PassFenceStep ==
  ASSUME GateIInv, GateAssumption, NEW R \in SUBSET Calls, PassFence(R)
  PROVE  /\ stamps' \in [Calls -> 0..MaxDials] /\ awaited' \subseteq Calls
         /\ written' \in [Calls -> Nat] /\ lost' \subseteq Calls
         /\ \A c \in Calls \ R : /\ stamps'[c] = stamps[c] /\ written'[c] = written[c]
                                 /\ c \in awaited' <=> c \in awaited
         /\ \A c \in R : /\ stamps'[c] = 0 /\ c \notin awaited'
                         /\ \/ written'[c] = written[c]
                            \/ connected /\ ~Stale(c) /\ written'[c] = written[c] + 1
<1> USE DEF GateIInv, GateTypeOK, GateAssumption
<1>1. stamps' \in [Calls -> 0..MaxDials] /\ awaited' \subseteq Calls BY DEF PassFence
<1>2. written' \in [Calls -> Nat] /\ lost' \subseteq Calls BY DEF PassFence
<1>3. \A c \in Calls \ R : /\ stamps'[c] = stamps[c] /\ written'[c] = written[c]
                           /\ c \in awaited' <=> c \in awaited
  BY DEF PassFence
<1>4. \A c \in R : /\ stamps'[c] = 0 /\ c \notin awaited'
                   /\ \/ written'[c] = written[c]
                      \/ connected /\ ~Stale(c) /\ written'[c] = written[c] + 1
  BY DEF PassFence
<1> QED BY <1>1, <1>2, <1>3, <1>4

\* A fresh result of an unsettled call belongs to the live session, or to a
\* call the provider withdrew.
LEMMA FreshIsLive ==
  ASSUME GateIInv, NEW c \in Calls, issuedIn[c] # 0, Unsettled(c), ~Stale(c)
  PROVE  issuedIn[c] = era \/ c \in cancelled
<1>1. CASE stamps[c] = 0 BY <1>1 DEF GateIInv, StampsTell
<1>2. CASE stamps[c] # 0
  <2>1. ~(stamps[c] <= boundaryGen) BY <1>2 DEF GateIInv, GateTypeOK, Stale
  <2> QED BY <1>2, <2>1 DEF GateIInv, GateTypeOK, Counted, StampsTell
<1> QED BY <1>1, <1>2

LEMMA GateTypeStep ==
  ASSUME GateAssumption, GateIInv, [GateNext]_gateVars
  PROVE  GateTypeOK'
<1> USE DEF GateIInv, GateTypeOK, GateAssumption, gateVars, dictation, fence, connection,
            provider, outcome
<1>1. CASE UNCHANGED gateVars BY <1>1
<1>2. ASSUME NEW c \in Calls, IssueCall(c) PROVE GateTypeOK' BY <1>2 DEF IssueCall, Stamp
<1>3. ASSUME NEW c \in Calls, CancelCall(c) PROVE GateTypeOK' BY <1>3 DEF CancelCall, Forget
<1>4. ASSUME NEW c \in Calls, SendResult(c) PROVE GateTypeOK'
  <2>1. CASE PassFence({c}) BY <1>4, <2>1, PassFenceStep DEF SendResult, SendToolResult
  <2>2. CASE UNCHANGED <<stamps, awaited, written, lost>> /\ held' = held \cup {c}
    BY <1>4, <2>2 DEF SendResult, SendToolResult
  <2> QED BY <1>4, <2>1, <2>2 DEF SendResult, SendToolResult
<1>5. CASE ConnectionStep
  <2>1. connected' \in BOOLEAN
    BY <1>5 DEF ConnectionStep, TurnCompleted, Disconnect, Dial, CrossBoundary
  <2>2. /\ dialGen' \in 1..MaxDials /\ boundaryGen' \in 0..MaxDials /\ era' \in Nat \ {0}
        /\ awaited' \in SUBSET awaited /\ thisTurn' \in SUBSET thisTurn
        /\ UNCHANGED <<stamps, issuedIn, cancelled, dictation, outcome>>
    BY <1>5 DEF ConnectionStep, TurnCompleted, Disconnect, Dial, CrossBoundary
  <2> QED BY <2>1, <2>2
<1>6. CASE BeginFlip BY <1>6 DEF BeginFlip, EnterTranscription, ExitTranscription
<1>7. CASE WhisperStarts \/ WhisperFails \/ RolledBack
  BY <1>7 DEF WhisperStarts, WhisperFails, RolledBack
<1>8. CASE WhisperStops
  <2>1. CASE Quiescible BY <1>8, <2>1 DEF WhisperStops
  <2>2. CASE ~Quiescible BY <1>8, <2>2, PassFenceStep DEF WhisperStops, FlushPendingToolResults
  <2> QED BY <2>1, <2>2
<1>9. CASE Unquiesced BY <1>9, PassFenceStep DEF Unquiesced, FlushPendingToolResults
<1> QED BY <1>1, <1>2, <1>3, <1>4, <1>5, <1>6, <1>7, <1>8, <1>9 DEF GateNext, EndFlip

\* Results that pass the fence settle their calls.
LEMMA PassKeeps ==
  ASSUME GateAssumption, GateIInv, NEW R \in SUBSET Calls, PassFence(R),
         \A c \in R : issuedIn[c] # 0 /\ Unsettled(c),
         held' = held \ R,
         sends' \in [Calls -> Nat],
         \A c \in Calls : sends'[c] = IF c \in R THEN 1 ELSE sends[c],
         UNCHANGED <<boundaryGen, dialGen, connected, era, issuedIn, thisTurn, cancelled>>
  PROVE  BoundaryBehind' /\ Counted' /\ StampsTell' /\ AwaitedTell'
<1> USE DEF GateIInv, GateTypeOK
<1>1. BoundaryBehind' BY DEF BoundaryBehind
<1>2. Counted'
  <2> SUFFICES ASSUME NEW c \in Calls
               PROVE  /\ issuedIn[c] <= era
                      /\ issuedIn[c] = 0 => sends'[c] = 0 /\ c \notin cancelled
                      /\ sends'[c] \in {0, 1} /\ written'[c] <= sends'[c]
                      /\ c \in held' => sends'[c] = 1 /\ written'[c] = 0
    BY DEF Counted
  <2>1. CASE c \in R
    <3>1. written[c] = 0 BY <2>1 DEF Counted, Unsettled
    <3>2. written'[c] \in {0, 1} BY <2>1, <3>1, PassFenceStep
    <3> QED BY <2>1, <3>2 DEF Counted
  <2>2. CASE c \notin R
    <3>1. written'[c] = written[c] BY <2>2, PassFenceStep
    <3>2. sends'[c] = sends[c] /\ (c \in held' => c \in held) BY <2>2
    <3>3. /\ issuedIn[c] <= era /\ (issuedIn[c] = 0 => sends[c] = 0 /\ c \notin cancelled)
          /\ sends[c] \in {0, 1} /\ written[c] <= sends[c]
          /\ c \in held => sends[c] = 1 /\ written[c] = 0
      BY DEF Counted
    <3> QED BY <3>1, <3>2, <3>3
  <2> QED BY <2>1, <2>2
<1>3. StampsTell'
  <2>1. \A c \in R : stamps'[c] = 0 /\ ~(sends'[c] = 0) /\ c \notin held' BY PassFenceStep
  <2>2. \A c \in Calls : c \notin R => stamps'[c] = stamps[c] BY PassFenceStep
  <2> SUFFICES ASSUME NEW c \in Calls
               PROVE  /\ issuedIn[c] # 0 /\ c \notin cancelled /\ Unsettled(c)' => stamps'[c] # 0
                      /\ stamps'[c] # 0 =>
                           /\ issuedIn[c] # 0 /\ c \notin cancelled /\ Unsettled(c)'
                           /\ stamps'[c] <= dialGen
                           /\ stamps'[c] <= boundaryGen <=> issuedIn[c] < era
    BY DEF StampsTell
  <2>3. CASE c \in R BY <2>1, <2>3 DEF Unsettled
  <2>4. CASE c \notin R
    <3>1. stamps'[c] = stamps[c] BY <2>2, <2>4
    <3>2. sends'[c] = sends[c] BY <2>4
    <3>3. c \in held' <=> c \in held BY <2>4
    <3>4. Unsettled(c)' <=> Unsettled(c) BY <3>2, <3>3 DEF Unsettled
    <3> QED BY <3>1, <3>4 DEF StampsTell
  <2> QED BY <2>3, <2>4
<1>4. AwaitedTell'
  <2>1. \A c \in R : stamps'[c] = 0 /\ c \notin awaited' BY PassFenceStep
  <2>2. \A c \in Calls : c \notin R => stamps'[c] = stamps[c] /\ (c \in awaited' <=> c \in awaited)
    BY PassFenceStep
  <2> QED BY <2>1, <2>2 DEF AwaitedTell
<1> QED BY <1>1, <1>2, <1>3, <1>4

\* A result that goes through answers calls of the live or withdrawn kind.
LEMMA PassAnswers ==
  ASSUME GateAssumption, GateIInv, NEW R \in SUBSET Calls, PassFence(R),
         \A c \in R : issuedIn[c] # 0 /\ Unsettled(c),
         UNCHANGED <<era, issuedIn, cancelled>>
  PROVE  Contract!Answer({c \in R : written'[c] # written[c]})
<1> DEFINE batch == {c \in R : written'[c] # written[c]}
<1>1. \A c \in batch : written[c] = 0 /\ written'[c] = 1
  <2> SUFFICES ASSUME NEW c \in batch PROVE written[c] = 0 /\ written'[c] = 1 OBVIOUS
  <2>1. written[c] = 0 BY DEF GateIInv, GateTypeOK, Counted, Unsettled
  <2> QED BY <2>1, PassFenceStep
<1>2. \A c \in batch : issuedIn[c] = era \/ c \in cancelled
  <2> SUFFICES ASSUME NEW c \in batch PROVE issuedIn[c] = era \/ c \in cancelled OBVIOUS
  <2>1. ~Stale(c) BY PassFenceStep
  <2> QED BY <2>1, FreshIsLive
<1>3. \A c \in Calls \ batch : written'[c] = written[c] BY PassFenceStep
<1>4. written' = [c \in Calls |-> IF c \in batch THEN 1 ELSE written[c]]
  BY <1>1, <1>3, PassFenceStep
<1> QED BY <1>1, <1>2, <1>4 DEF Contract!Answer

\* A result handed to the transport, as the fence or the queue takes it.
LEMMA SendCases ==
  ASSUME GateAssumption, GateIInv, NEW c \in Calls, SendResult(c)
  PROVE  /\ issuedIn[c] # 0 /\ sends[c] = 0 /\ c \notin held
         /\ sends' \in [Calls -> Nat]
         /\ \A d \in Calls : sends'[d] = IF d = c THEN 1 ELSE sends[d]
         /\ UNCHANGED <<mode, flip, boundaryGen, dialGen, connected, era, issuedIn,
                       thisTurn, cancelled>>
         /\ \/ PassesNow(c) /\ PassFence({c}) /\ held' = held
            \/ /\ ~PassesNow(c) /\ held' = held \cup {c}
               /\ UNCHANGED <<stamps, awaited, written>>
<1> USE DEF GateIInv, GateTypeOK
<1>1. issuedIn[c] # 0 /\ sends[c] = 0 /\ c \notin held BY DEF SendResult, Counted
<1>2. /\ sends' \in [Calls -> Nat]
      /\ \A d \in Calls : sends'[d] = IF d = c THEN 1 ELSE sends[d]
  BY <1>1 DEF SendResult, SendToolResult
<1>3. UNCHANGED <<mode, flip, boundaryGen, dialGen, connected, era, issuedIn, thisTurn, cancelled>>
  BY DEF SendResult, SendToolResult, connection, provider
<1>4. \/ PassesNow(c) /\ PassFence({c}) /\ held' = held
      \/ /\ ~PassesNow(c) /\ held' = held \cup {c}
         /\ UNCHANGED <<stamps, awaited, written>>
  BY DEF SendResult, SendToolResult
<1> QED BY <1>1, <1>2, <1>3, <1>4

\* What was held back is owed: it may be passed on.
LEMMA HeldIsUnsettled ==
  ASSUME GateIInv
  PROVE  held \in SUBSET Calls /\ \A c \in held : issuedIn[c] # 0 /\ Unsettled(c) /\ sends[c] = 1
  BY DEF GateIInv, GateTypeOK, Counted, Unsettled

LEMMA SendKeeps ==
  ASSUME GateAssumption, GateIInv, NEW c \in Calls, SendResult(c)
  PROVE  BoundaryBehind' /\ Counted' /\ StampsTell' /\ AwaitedTell'
<1>1. issuedIn[c] # 0 /\ sends[c] = 0 /\ c \notin held BY SendCases
<1>2. sends' \in [Calls -> Nat] /\ \A d \in Calls : sends'[d] = IF d = c THEN 1 ELSE sends[d]
  BY SendCases
<1>3. UNCHANGED <<boundaryGen, dialGen, connected, era, issuedIn, thisTurn, cancelled>>
  BY SendCases
<1>4. CASE PassesNow(c) /\ PassFence({c}) /\ held' = held
  <2>1. held' = held \ {c} BY <1>1, <1>4
  <2>2. \A d \in {c} : issuedIn[d] # 0 /\ Unsettled(d) BY <1>1 DEF Unsettled
  <2>3. \A d \in Calls : sends'[d] = IF d \in {c} THEN 1 ELSE sends[d] BY <1>2
  <2> QED BY <1>2, <1>3, <1>4, <2>1, <2>2, <2>3, PassKeeps
<1>5. CASE held' = held \cup {c} /\ UNCHANGED <<stamps, awaited, written>>
  <2>1. BoundaryBehind' /\ AwaitedTell' BY <1>3, <1>5 DEF GateIInv, BoundaryBehind, AwaitedTell
  <2>2. written[c] = 0 BY <1>1 DEF GateIInv, GateTypeOK, Counted
  <2>3. Counted'
    <3> SUFFICES ASSUME NEW d \in Calls
                 PROVE  /\ issuedIn[d] <= era
                        /\ issuedIn[d] = 0 => sends'[d] = 0 /\ d \notin cancelled
                        /\ sends'[d] \in {0, 1} /\ written[d] <= sends'[d]
                        /\ d \in held' => sends'[d] = 1 /\ written[d] = 0
      BY <1>3, <1>5 DEF Counted
    <3>1. CASE d = c BY <1>1, <1>2, <2>2, <3>1 DEF GateIInv, Counted
    <3>2. CASE d # c BY <1>2, <1>5, <3>2 DEF GateIInv, Counted
    <3> QED BY <3>1, <3>2
  <2>4. \A d \in Calls : Unsettled(d)' <=> Unsettled(d) BY <1>1, <1>2, <1>5 DEF Unsettled
  <2>5. StampsTell' BY <1>3, <1>5, <2>4 DEF GateIInv, StampsTell
  <2> QED BY <2>1, <2>3, <2>5
<1> QED BY <1>4, <1>5, SendCases

\* The flush passes on everything held back.
LEMMA FlushKeeps ==
  ASSUME GateAssumption, GateIInv, FlushPendingToolResults,
         UNCHANGED <<sends, boundaryGen, dialGen, connected, era, issuedIn, thisTurn, cancelled>>
  PROVE  BoundaryBehind' /\ Counted' /\ StampsTell' /\ AwaitedTell'
<1>1. PassFence(held) /\ held' = held \ held BY DEF FlushPendingToolResults
<1>2. /\ sends' \in [Calls -> Nat]
      /\ \A c \in Calls : sends'[c] = IF c \in held THEN 1 ELSE sends[c]
  BY HeldIsUnsettled DEF GateIInv, GateTypeOK
<1> QED BY <1>1, <1>2, HeldIsUnsettled, PassKeeps

LEMMA GateStep ==
  ASSUME GateAssumption, GateIInv, [GateNext]_gateVars
  PROVE  GateIInv'
<1> USE DEF GateIInv, gateVars, dictation, fence, connection, provider, outcome
<1> DEFINE Facts == BoundaryBehind /\ Counted /\ StampsTell /\ AwaitedTell
<1>1. CASE UNCHANGED gateVars
  BY <1>1, GateTypeStep DEF BoundaryBehind, Counted, StampsTell, Unsettled, AwaitedTell,
                           UnquiescedIsAgent
<1>2. ASSUME NEW c \in Calls, IssueCall(c) PROVE Facts' /\ UNCHANGED <<mode, flip>>
  <2> USE <1>2 DEF GateTypeOK
  <2>1. /\ connected /\ issuedIn[c] = 0
        /\ issuedIn' = [issuedIn EXCEPT ![c] = era]
        /\ thisTurn' = thisTurn \cup ({c} \cap Blocking)
        /\ stamps' = [stamps EXCEPT ![c] = dialGen]
        /\ awaited' = IF c \in Blocking THEN awaited \cup {c} ELSE awaited
        /\ UNCHANGED <<boundaryGen, cancelled, dialGen, era, mode, flip, held, sends, written>>
        /\ connected' = connected
    BY DEF IssueCall, Stamp
  <2>2. BoundaryBehind' BY <2>1 DEF BoundaryBehind
  <2>3. Counted' BY <2>1 DEF Counted
  <2>4. StampsTell'
    <3>1. boundaryGen < dialGen BY <2>1 DEF BoundaryBehind
    <3>2. c \notin cancelled /\ sends[c] = 0 BY <2>1 DEF Counted
    <3>3. \A d \in Calls : d # c => stamps'[d] = stamps[d] /\ issuedIn'[d] = issuedIn[d] BY <2>1
    <3>4. stamps'[c] = dialGen /\ issuedIn'[c] = era BY <2>1
    <3> QED BY <2>1, <3>1, <3>2, <3>3, <3>4 DEF StampsTell, Unsettled
  <2>5. AwaitedTell'
    <3>1. \A d \in Calls : d # c => stamps'[d] = stamps[d] BY <2>1
    <3>2. stamps'[c] = dialGen /\ dialGen # 0 BY <2>1
    <3>3. stamps[c] = 0 BY <2>1 DEF StampsTell
    <3> QED BY <2>1, <3>1, <3>2, <3>3 DEF AwaitedTell
  <2> QED BY <2>1, <2>2, <2>3, <2>4, <2>5
<1>3. ASSUME NEW c \in Calls, CancelCall(c) PROVE Facts' /\ UNCHANGED <<mode, flip>>
  <2> USE <1>3 DEF GateTypeOK
  <2>1. /\ issuedIn[c] = era /\ cancelled' = cancelled \cup {c}
        /\ stamps' = [stamps EXCEPT ![c] = 0] /\ awaited' = awaited \ {c}
        /\ UNCHANGED <<boundaryGen, issuedIn, thisTurn, dialGen, era, mode, flip, held, sends, written>>
        /\ connected' = connected
    BY DEF CancelCall, Forget
  <2>2. BoundaryBehind' BY <2>1 DEF BoundaryBehind
  <2>3. Counted' BY <2>1 DEF Counted
  <2>4. stamps'[c] = 0 /\ \A d \in Calls : d # c => stamps'[d] = stamps[d] BY <2>1
  <2>5. StampsTell' BY <2>1, <2>4 DEF StampsTell, Unsettled
  <2>6. AwaitedTell' BY <2>1, <2>4 DEF AwaitedTell
  <2> QED BY <2>1, <2>2, <2>3, <2>5, <2>6
<1>4. ASSUME NEW c \in Calls, SendResult(c) PROVE Facts' /\ UNCHANGED <<mode, flip>>
  BY <1>4, SendKeeps, SendCases
<1>5. CASE TurnCompleted
  BY <1>5 DEF TurnCompleted, GateTypeOK, BoundaryBehind, Counted, StampsTell, Unsettled,
              AwaitedTell, UnquiescedIsAgent
<1>6. CASE Disconnect \/ Dial
  <2>1. /\ dialGen' \in Nat /\ dialGen <= dialGen'
        /\ connected' => boundaryGen < dialGen'
        /\ UNCHANGED <<fence, provider, dictation, outcome, era>>
    <3>1. CASE Disconnect
      <4>1. ~connected' /\ dialGen' = dialGen BY <3>1 DEF Disconnect
      <4> QED BY <3>1, <4>1 DEF Disconnect, GateTypeOK
    <3>2. CASE Dial BY <3>2 DEF Dial, GateTypeOK, BoundaryBehind
    <3> QED BY <1>6, <3>1, <3>2
  <2>2. BoundaryBehind' BY <2>1 DEF BoundaryBehind, GateTypeOK
  <2>3. Counted' /\ AwaitedTell' /\ UnquiescedIsAgent'
    BY <2>1 DEF Counted, AwaitedTell, UnquiescedIsAgent
  <2>4. StampsTell' BY <2>1 DEF GateTypeOK, StampsTell, Unsettled
  <2> QED BY <2>2, <2>3, <2>4, GateTypeStep
<1>7. CASE CrossBoundary
  <2>1. /\ boundaryGen' = dialGen /\ dialGen' \in Nat /\ dialGen <= dialGen'
        /\ era' = era + 1
        /\ UNCHANGED <<stamps, awaited, provider, dictation, outcome>>
    BY <1>7 DEF CrossBoundary, GateTypeOK
  <2>2. ~connected' BY <1>7 DEF CrossBoundary
  <2>3. BoundaryBehind' BY <2>1, <2>2 DEF BoundaryBehind
  <2>4. Counted' /\ AwaitedTell' /\ UnquiescedIsAgent'
    BY <2>1 DEF GateTypeOK, Counted, AwaitedTell, UnquiescedIsAgent
  <2>5. StampsTell' BY <2>1 DEF GateTypeOK, Counted, StampsTell, Unsettled
  <2> QED BY <2>3, <2>4, <2>5, GateTypeStep
<1>8. CASE BeginFlip \/ WhisperStarts \/ WhisperFails \/ RolledBack
  <2>1. UNCHANGED <<held, fence, connection, provider, outcome>> /\ UnquiescedIsAgent'
    BY <1>8 DEF BeginFlip, EnterTranscription, ExitTranscription, WhisperStarts, WhisperFails,
                RolledBack, UnquiescedIsAgent
  <2> QED BY <2>1, GateTypeStep DEF BoundaryBehind, Counted, StampsTell, Unsettled, AwaitedTell
<1>9. CASE WhisperStops
  <2>1. UnquiescedIsAgent' BY <1>9 DEF WhisperStops, UnquiescedIsAgent
  <2>2. CASE Quiescible
    BY <1>9, <2>1, <2>2, GateTypeStep
       DEF WhisperStops, BoundaryBehind, Counted, StampsTell, Unsettled, AwaitedTell
  <2>3. CASE ~Quiescible BY <1>9, <2>1, <2>3, GateTypeStep, FlushKeeps DEF WhisperStops
  <2> QED BY <2>2, <2>3
<1>10. CASE Unquiesced
  <2>1. UnquiescedIsAgent' BY <1>10 DEF Unquiesced, UnquiescedIsAgent
  <2> QED BY <1>10, <2>1, GateTypeStep, FlushKeeps DEF Unquiesced
<1>11. UNCHANGED <<mode, flip>> => UnquiescedIsAgent' BY DEF UnquiescedIsAgent
<1> QED BY <1>1, <1>2, <1>3, <1>4, <1>5, <1>6, <1>7, <1>8, <1>9, <1>10, <1>11, GateTypeStep
        DEF GateNext, ConnectionStep, EndFlip

\* Each step of the gate is a step of the contract or changes nothing it sees.
LEMMA ContractStep ==
  ASSUME GateAssumption, GateIInv, [GateNext]_gateVars
  PROVE  [Contract!ContractNext]_(Contract!contractVars)
<1> USE DEF GateIInv, gateVars, dictation, fence, connection, provider, outcome,
            Contract!contractVars
<1>1. CASE UNCHANGED <<era, issuedIn, cancelled, written>> BY <1>1
<1>2. ASSUME NEW c \in Calls, IssueCall(c) PROVE Contract!Issue(c)
  BY <1>2 DEF IssueCall, Contract!Issue
<1>3. ASSUME NEW c \in Calls, CancelCall(c) PROVE Contract!Withdraw(c)
  BY <1>3 DEF CancelCall, Contract!Withdraw
<1>4. ASSUME NEW R \in SUBSET Calls, PassFence(R),
             \A c \in R : issuedIn[c] # 0 /\ Unsettled(c),
             UNCHANGED <<era, issuedIn, cancelled>>
      PROVE  Contract!ContractNext
  BY <1>4, PassAnswers DEF Contract!ContractNext
<1>5. ASSUME NEW c \in Calls, SendResult(c)
      PROVE  Contract!ContractNext \/ UNCHANGED <<era, issuedIn, cancelled, written>>
  <2>1. CASE PassFence({c})
    <3>1. \A d \in {c} : issuedIn[d] # 0 /\ Unsettled(d) BY <1>5, SendCases DEF Unsettled
    <3>2. UNCHANGED <<era, issuedIn, cancelled>> BY <1>5, SendCases
    <3> QED BY <1>4, <2>1, <3>1, <3>2
  <2> QED BY <1>5, <2>1, SendCases
<1>6. CASE CrossBoundary BY <1>6 DEF CrossBoundary, Contract!ContractNext, Contract!NewSession
<1>7. CASE TurnCompleted \/ Disconnect \/ Dial BY <1>1, <1>7 DEF TurnCompleted, Disconnect, Dial
<1>8. CASE BeginFlip \/ WhisperStarts \/ WhisperFails \/ RolledBack
  BY <1>1, <1>8 DEF BeginFlip, EnterTranscription, ExitTranscription, WhisperStarts,
                    WhisperFails, RolledBack
<1>9. CASE WhisperStops \/ Unquiesced
  <2>1. UNCHANGED <<era, issuedIn, cancelled>> BY <1>9 DEF WhisperStops, Unquiesced
  <2>2. FlushPendingToolResults \/ UNCHANGED <<written>> BY <1>9 DEF WhisperStops, Unquiesced
  <2>3. CASE FlushPendingToolResults
    BY <1>4, <2>1, <2>3, HeldIsUnsettled DEF FlushPendingToolResults
  <2> QED BY <1>1, <2>1, <2>2, <2>3
<1> QED BY <1>1, <1>2, <1>3, <1>5, <1>6, <1>7, <1>8, <1>9
        DEF GateNext, ConnectionStep, EndFlip, Contract!ContractNext

\* For any calls and bounds, the gate's fields keep their ranges.
THEOREM GateTypes == ASSUME GateAssumption PROVE GateSpec => []GateTypeOK
<1>1. GateInit => GateIInv BY GateStart
<1>2. GateIInv /\ [GateNext]_gateVars => GateIInv' BY GateStep
<1>3. GateIInv => GateTypeOK BY DEF GateIInv
<1> QED BY <1>1, <1>2, <1>3, PTL DEF GateSpec

\* The gate keeps ToolCallContract: every call gets at most one response, and
\* none reaches a server session that did not issue it unless the call was
\* withdrawn, through mode flips, reconnects and recovery boundaries.
THEOREM GateKeepsContract == ASSUME GateAssumption PROVE GateSpec => KeepsContract
<1>1. GateInit => GateIInv BY GateStart
<1>2. GateIInv /\ [GateNext]_gateVars => GateIInv' BY GateStep
<1>3. GateInit => Contract!ContractInit BY DEF GateInit, Contract!ContractInit
<1>4. GateIInv /\ [GateNext]_gateVars => [Contract!ContractNext]_(Contract!contractVars)
  BY ContractStep
<1> QED BY <1>1, <1>2, <1>3, <1>4, PTL DEF GateSpec, KeepsContract, Contract!ContractSpec

\* hasOpenToolCalls answers exactly whether a blocking call of the turn waits.
THEOREM OpenCallsAreExact == ASSUME GateAssumption PROVE GateSpec => []OpenCallsExact
<1>1. GateInit => GateIInv BY GateStart
<1>2. GateIInv /\ [GateNext]_gateVars => GateIInv' BY GateStep
<1>3. GateIInv => OpenCallsExact
  <2> SUFFICES ASSUME GateIInv PROVE OpenCallsExact OBVIOUS
  <2> USE DEF GateIInv, GateTypeOK, Unsettled
  <2>1. ASSUME NEW c \in awaited, stamps[c] # 0, boundaryGen = 0 \/ stamps[c] > boundaryGen
        PROVE  c \in thisTurn /\ issuedIn[c] = era /\ c \notin cancelled
               /\ (sends[c] = 0 \/ c \in held)
    <3>1. c \in Calls /\ ~(stamps[c] <= boundaryGen) BY <2>1
    <3> QED BY <2>1, <3>1 DEF AwaitedTell, StampsTell, Counted
  <2>2. ASSUME NEW c \in thisTurn, issuedIn[c] = era, c \notin cancelled,
               sends[c] = 0 \/ c \in held
        PROVE  c \in awaited /\ stamps[c] # 0 /\ stamps[c] > boundaryGen
    <3>1. c \in Calls /\ era # 0 BY <2>2, GateAssumption DEF GateAssumption
    <3>2. stamps[c] # 0 BY <2>2, <3>1 DEF StampsTell
    <3>3. stamps[c] \in Nat /\ boundaryGen \in Nat /\ ~(stamps[c] <= boundaryGen)
      BY <2>2, <3>1, <3>2, GateAssumption DEF StampsTell, GateAssumption
    <3> QED BY <2>2, <3>1, <3>2, <3>3 DEF AwaitedTell
  <2> QED BY <2>1, <2>2 DEF OpenCallsExact, HasOpenToolCalls
<1> QED BY <1>1, <1>2, <1>3, PTL DEF GateSpec

\* Outside agent mode only silent results are written.
THEOREM OutsideAgentModeIsQuiet == ASSUME GateAssumption PROVE GateSpec => QuietOutsideAgentMode
<1>1. GateInit => GateIInv BY GateStart
<1>2. GateIInv /\ [GateNext]_gateVars => GateIInv' BY GateStep
<1>3. GateIInv /\ [GateNext]_gateVars
        => [\A c \in Calls : written'[c] # written[c] => c \in Silent \/ mode' = "agent"]_gateVars
  <2> SUFFICES ASSUME GateIInv, [GateNext]_gateVars, NEW c \in Calls, written'[c] # written[c]
               PROVE  c \in Silent \/ mode' = "agent"
    OBVIOUS
  <2>1. ASSUME NEW d \in Calls, SendResult(d) PROVE c \in Silent \/ mode' = "agent"
    <3>1. PassesNow(d) /\ PassFence({d}) /\ mode' = mode BY <2>1, SendCases
    <3>2. c = d BY <3>1, PassFenceStep
    <3> QED BY <3>1, <3>2
  <2>2. CASE WhisperStops BY <2>2 DEF WhisperStops
  <2>3. CASE Unquiesced BY <2>3 DEF Unquiesced, GateIInv, UnquiescedIsAgent
  <2>4. UNCHANGED written => FALSE OBVIOUS
  <2>5. ASSUME NEW d \in Calls, IssueCall(d) \/ CancelCall(d) PROVE UNCHANGED written
    BY <2>5 DEF IssueCall, CancelCall, outcome
  <2>6. CASE ConnectionStep \/ BeginFlip \/ WhisperStarts \/ WhisperFails \/ RolledBack
    BY <2>6 DEF ConnectionStep, TurnCompleted, Disconnect, Dial, CrossBoundary, BeginFlip,
                EnterTranscription, ExitTranscription, WhisperStarts, WhisperFails, RolledBack, outcome
  <2>7. CASE UNCHANGED gateVars BY <2>7 DEF gateVars, outcome
  <2> QED BY <2>1, <2>2, <2>3, <2>4, <2>5, <2>6, <2>7 DEF GateNext, EndFlip
<1> QED BY <1>1, <1>2, <1>3, PTL DEF GateSpec, QuietOutsideAgentMode

\* The gate keeps silent outside agent mode and answers every call once, on its session.
THEOREM GateGatesResults == ASSUME GateAssumption PROVE GateSpec => ResultsAreGated
  BY OpenCallsAreExact, OutsideAgentModeIsQuiet, GateKeepsContract DEF ResultsAreGated
=============================================================================
