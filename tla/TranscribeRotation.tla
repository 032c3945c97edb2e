------------------------- MODULE TranscribeRotation -------------------------
(***************************************************************************)
(* GeminiLiveTranscribeSTTProvider: a streaming transcription that outlives *)
(* its ten-minute sessions.  A run keeps one fed connection (active), opens *)
(* a replacement (next) before the limit or the credential's expiry, hands  *)
(* over at a pause, and retries failures of either within budgets of their  *)
(* own over one shared retry timer.  The server, the credential provider    *)
(* and the owner's start(), stop() and feedAudio() are the environment.     *)
(***************************************************************************)
EXTENDS Integers, FiniteSets

CONSTANTS Credentialed,  \* which of FALSE (an apiKey), TRUE (a credentialProvider) to start with
          MaxRetries,    \* maxRetries
          MaxConns,      \* connections in a behaviour
          MaxSttCalls       \* start() and stop() calls

ASSUME TranscribeAssumption ==
  /\ Credentialed \subseteq BOOLEAN /\ MaxRetries \in Nat
  /\ MaxConns \in Nat /\ MaxSttCalls \in Nat

VARIABLES stt,      \* the provider, see SttInit
          sttCred,  \* whether it has a credentialProvider
          sttUsed   \* the owner's calls so far

sttVars == <<stt, sttCred, sttUsed>>

NoConn == 0
Conns == 1 .. MaxConns

\* Conn; "none" is a connection whose credential has not come.
NewConn(run) == [run |-> run, sock |-> IF sttCred THEN "none" ELSE "connecting",
                 ready |-> FALSE, failed |-> FALSE, ended |-> FALSE,
                 drain |-> FALSE, reported |-> 0]

SttInit ==
  /\ sttCred \in Credentialed
  /\ stt = [running |-> FALSE, run |-> 0, runSeq |-> 0, closing |-> 0,
            starting |-> NoConn,      \* the connection start() awaits
            active |-> NoConn, next |-> NoConn,
            conns |-> [c \in Conns |-> NewConn(0)], count |-> 0, over |-> FALSE,
            pending |-> FALSE,      \* audio waits for a session
            rotate |-> FALSE, retry |-> "none", aTries |-> 0, rTries |-> 0,
            ending |-> {},          \* runs whose shutdown() awaits its drains
            foreign |-> FALSE]      \* history: a final of another run came through
  /\ sttUsed = 0

\* Behaviours that would open more than MaxConns connections are cut off.
SttDoes(s) == ~s.over /\ stt' = s /\ UNCHANGED <<sttCred, sttUsed>>
SttCalls(s) ==
  /\ ~s.over /\ stt' = s /\ UNCHANGED sttCred
  /\ sttUsed < MaxSttCalls /\ sttUsed' = sttUsed + 1

Opened(s) == 1 .. s.count
Listed(s, c) == s.conns[c].run = s.run /\ s.conns[c].sock # "closed"
                /\ ~(s.conns[c].ended /\ s.conns[c].sock = "none")
Serving(s, c) == c # NoConn /\ s.conns[c].ready /\ s.conns[c].sock = "open"
UnderWay(s, c) == c # NoConn /\ s.conns[c].sock \in {"none", "connecting", "open"}

-----------------------------------------------------------------------------
(* Connections.                                                            *)

\* open(): the new connection is s.count of the result.
OpenConn(s) ==
  IF s.count = MaxConns THEN [s EXCEPT !.over = TRUE]
  ELSE [s EXCEPT !.count = @ + 1, !.conns[s.count + 1] = NewConn(s.run)]

CloseConn(s, c) ==
  IF c = NoConn \/ s.conns[c].ended THEN s
  ELSE LET k == s.conns[c]
       IN [s EXCEPT !.conns[c] =
             IF k.sock = "none" THEN [k EXCEPT !.ended = TRUE, !.reported = @ + 1]
             ELSE [k EXCEPT !.ended = TRUE,
                            !.sock = IF @ = "closed" THEN @ ELSE "closing"]]

FlushPendingTo(s, c) == IF Serving(s, c) THEN [s EXCEPT !.pending = FALSE] ELSE s

OnActiveReady(s, c) == [FlushPendingTo(s, c) EXCEPT !.aTries = 0, !.rotate = TRUE]

\* Mutant: a connection that was ready before it took over is not flushed to.
ActivateQuietly(s, c) ==
  [s EXCEPT !.active = c, !.next = IF @ = c THEN NoConn ELSE @]

Activate(s, c) ==
  LET a == [s EXCEPT !.active = c, !.next = IF @ = c THEN NoConn ELSE @]
  IN IF s.conns[c].ready THEN OnActiveReady(a, c) ELSE a

ActivateNew(s) == LET o == OpenConn(s) IN IF o.over THEN o ELSE Activate(o, o.count)

DrainAndClose(s, c) == [s EXCEPT !.conns[c].drain = TRUE]

SwitchTo(s, c) ==
  LET a == Activate(s, c)
  IN IF s.active \in {NoConn, c} THEN a ELSE DrainAndClose(a, s.active)

-----------------------------------------------------------------------------
(* Failure.                                                                *)

\* The parts of onFailed() and shutdown() for one connection: it is closed, and
\* a start() awaiting it rejects.
Reject(s, c) ==
  LET f == CloseConn([s EXCEPT !.conns[c].failed = TRUE], c)
  IN [f EXCEPT !.starting = IF @ = c THEN NoConn ELSE @]

\* shutdown(): the synchronous part.
Shutdown(s) ==
  LET mine == {c \in Opened(s) : Listed(s, c)}
      pre  == {c \in mine : ~s.conns[c].ready}
      retired == {c \in mine \ pre : c = s.active \/ s.conns[c].drain}
      After(c) ==
        LET k == s.conns[c]
        IN IF c \in retired THEN [k EXCEPT !.drain = TRUE]
           ELSE IF c \in mine /\ ~k.ended
           THEN [k EXCEPT !.failed = @ \/ c \in pre, !.ended = TRUE,
                          !.reported = IF k.sock = "none" THEN @ + 1 ELSE @,
                          !.sock = IF @ = "none" THEN @ ELSE "closing"]
           ELSE [k EXCEPT !.failed = @ \/ c \in pre]
  IN [s EXCEPT !.running = FALSE, !.closing = s.run, !.run = 0,
               !.ending = IF s.run = 0 THEN @ ELSE @ \cup {s.run},
               !.conns = [c \in Conns |-> After(c)],
               !.starting = IF @ \in pre THEN NoConn ELSE @,
               !.active = NoConn, !.next = NoConn, !.pending = FALSE,
               !.rotate = FALSE, !.retry = "none"]

\* retryLater() has one timer: the latest retry replaces the one before.
RetryReplacement(s) ==
  IF s.rTries >= MaxRetries THEN s
  ELSE [s EXCEPT !.rTries = @ + 1, !.retry = "replace"]

OnFailed(s, c, permanent) ==
  IF s.conns[c].ready \/ s.conns[c].failed THEN s
  ELSE LET f == Reject(s, c)
       IN IF s.starting = c THEN Shutdown(f)
          ELSE IF s.conns[c].run # s.run \/ ~s.running THEN f
          ELSE IF permanent THEN Shutdown(f)
          ELSE IF c = s.next THEN RetryReplacement([f EXCEPT !.next = NoConn])
          ELSE IF c # s.active THEN f
          ELSE IF s.aTries >= MaxRetries THEN Shutdown(f)
          ELSE [f EXCEPT !.aTries = @ + 1, !.retry = "active"]

Lost(s, c) ==
  IF s.conns[c].run # s.run \/ ~s.running THEN s
  ELSE IF c = s.next THEN RetryReplacement([s EXCEPT !.next = NoConn])
  ELSE IF c # s.active THEN s
  ELSE IF UnderWay(s, s.next) THEN Activate(s, s.next)
  ELSE ActivateNew([s EXCEPT !.next = NoConn])

-----------------------------------------------------------------------------
(* The owner.                                                              *)

NewRun(s) ==
  [s EXCEPT !.running = TRUE, !.runSeq = @ + 1, !.run = s.runSeq + 1,
            !.closing = 0, !.aTries = 0, !.rTries = 0]

SttStart ==
  /\ stt.starting = NoConn /\ ~stt.running
  /\ LET o == OpenConn(NewRun(stt))
     IN SttCalls([o EXCEPT !.active = o.count, !.starting = o.count])

SttStop ==
  /\ stt.running
  /\ SttCalls(Shutdown(FlushPendingTo(stt, stt.active)))

\* feedAudio(); the replacement takes over at a pause or at the deadline.
SttFeedAudio ==
  /\ stt.running
  /\ \E handover \in BOOLEAN :
       /\ handover => Serving(stt, stt.next)
       /\ LET s == IF handover THEN SwitchTo(stt, stt.next) ELSE stt
          IN SttDoes([s EXCEPT !.pending = ~Serving(s, s.active)])

-----------------------------------------------------------------------------
(* The credential provider and the server.                                 *)

SttCredentialReturns(c) ==
  LET k == stt.conns[c]
  IN /\ c <= stt.count /\ k.sock = "none" /\ ~k.ended
     /\ SttDoes([stt EXCEPT !.conns[c].sock = "connecting"])

SttCredentialFails(c) ==
  /\ c <= stt.count /\ stt.conns[c].sock = "none" /\ ~stt.conns[c].ended
  /\ \E permanent \in BOOLEAN : SttDoes(OnFailed(stt, c, permanent))

SttSocketOpens(c) ==
  /\ c <= stt.count /\ stt.conns[c].sock = "connecting"
  /\ SttDoes([stt EXCEPT !.conns[c].sock = "open"])

SetupCompletes(c) ==
  LET k == stt.conns[c]
      s == [stt EXCEPT !.conns[c].ready = TRUE,
                       !.starting = IF @ = c THEN NoConn ELSE @]
  IN /\ c <= stt.count /\ k.sock \in {"open", "closing"} /\ ~k.ready /\ ~k.failed
     /\ k.run \in {stt.run, stt.closing} \ {0}
     /\ SttDoes(IF c = stt.next /\ ~(stt.active # NoConn /\ stt.conns[stt.active].ready)
             THEN SwitchTo(s, c)
             ELSE IF c = stt.active THEN OnActiveReady(s, c) ELSE s)

\* A final transcript.
TranscriptArrives(c) ==
  LET k == stt.conns[c]
  IN /\ c <= stt.count /\ k.sock \in {"open", "closing"} /\ k.ready
     /\ k.run \in {stt.run, stt.closing} \ {0}
     /\ SttDoes([stt EXCEPT !.foreign = @ \/ (stt.running /\ k.run # stt.run)])

SocketErrors(c) ==
  /\ c <= stt.count /\ stt.conns[c].sock \in {"connecting", "open"} /\ ~stt.conns[c].ready
  /\ ~stt.conns[c].failed
  /\ SttDoes(OnFailed(stt, c, FALSE))

SttSocketCloses(c) ==
  LET k == stt.conns[c]
      s == [stt EXCEPT !.conns[c].sock = "closed"]
      f == OnFailed(s, c, FALSE)
      r == [f EXCEPT !.conns[c].reported = IF @ = 0 THEN 1 ELSE @]
  IN /\ c <= stt.count /\ k.sock \in {"connecting", "open", "closing"}
     /\ SttDoes(IF k.ready THEN Lost(r, c) ELSE r)

-----------------------------------------------------------------------------
(* Timers.                                                                 *)

\* connectTimeoutMs.
SetupTimesOut(c) ==
  /\ c <= stt.count /\ ~stt.conns[c].ready /\ ~stt.conns[c].failed
  /\ SttDoes(OnFailed(stt, c, FALSE))

SttCredentialExpires(c) ==
  /\ sttCred /\ c <= stt.count /\ stt.conns[c].ready /\ ~stt.conns[c].ended
  /\ stt.conns[c].sock = "open"
  /\ SttDoes(Lost(CloseConn(stt, c), c))

DrainEnds(c) ==
  /\ c <= stt.count /\ stt.conns[c].drain /\ ~stt.conns[c].ended
  /\ SttDoes(CloseConn(stt, c))

RotateTimerFires ==
  /\ stt.rotate
  /\ LET o == OpenConn([stt EXCEPT !.rotate = FALSE, !.rTries = 0])
     IN SttDoes([o EXCEPT !.next = o.count])

RetryTimerFires ==
  /\ stt.retry # "none"
  /\ LET s == [stt EXCEPT !.retry = "none"]
     IN IF stt.retry = "active" THEN SttDoes(ActivateNew(s))
        ELSE IF stt.next # NoConn THEN SttDoes(s)
        ELSE LET o == OpenConn(s) IN SttDoes([o EXCEPT !.next = o.count])

\* shutdown() after its drains: what is left closes.
ShutdownEnds(run) ==
  /\ run \in stt.ending
  /\ \A c \in Opened(stt) : stt.conns[c].run = run /\ stt.conns[c].drain => stt.conns[c].ended
  /\ SttDoes([stt EXCEPT !.ending = @ \ {run}, !.closing = IF @ = run THEN 0 ELSE @])

SttNext ==
  \/ SttStart \/ SttStop \/ SttFeedAudio \/ RotateTimerFires \/ RetryTimerFires
  \/ \E c \in Conns :
       \/ SttCredentialReturns(c) \/ SttCredentialFails(c) \/ SttSocketOpens(c)
       \/ SetupCompletes(c) \/ TranscriptArrives(c) \/ SocketErrors(c) \/ SttSocketCloses(c)
       \/ SetupTimesOut(c) \/ SttCredentialExpires(c) \/ DrainEnds(c)
  \/ \E run \in stt.ending : ShutdownEnds(run)

\* The setup deadline of a connection (connectTimeoutMs) passes.
SttFairness == \A c \in Conns : WF_sttVars(SetupTimesOut(c))

SttSpec == SttInit /\ [][SttNext]_sttVars /\ SttFairness

-----------------------------------------------------------------------------
(* Properties.                                                             *)

\* No audio is left waiting while a session can take it: every connection that
\* becomes the serving one, whether it is ready when it takes over or only
\* later, is given what feedAudio() kept (flushPendingTo).
AudioIsFlushed == Serving(stt, stt.active) => ~stt.pending

\* A final transcript that reaches onTranscript while a run is on is of that run,
\* however many connections of the one before it are still draining.
FinalsAreOfThisRun == ~stt.foreign

\* The rotation neither leaves audio behind nor brings a stopped run's words back.
RotationIsSeamless == AudioIsFlushed /\ FinalsAreOfThisRun

\* A start() is answered: its connection becomes ready, fails, times out or is
\* closed by a stop(), and each of these settles the promise.
StartsSettle == stt.starting # NoConn ~> stt.starting = NoConn
=============================================================================
