-------------------------- MODULE SpeechSynthesis ---------------------------
(***************************************************************************)
(* The TTS providers (Cartesia, ElevenLabs, Hume): text of numbered        *)
(* requests goes to a synthesis service over one socket, audio and done    *)
(* notices come back and are reported under a request's id, and cancel()   *)
(* drops what the user interrupted.  The providers keep the same promises  *)
(* with different means: a context per request, a replaced socket, an id   *)
(* the service echoes.  The session and the service are the environment.   *)
(***************************************************************************)
EXTENDS Integers, FiniteSets

CONSTANTS TtsProviders,    \* subset of {"cartesia", "elevenlabs", "hume"}
          MaxRequests,     \* requests in a behaviour
          MaxTtsSockets    \* sockets in a behaviour

ASSUME SynthesisAssumption ==
  /\ TtsProviders \subseteq {"cartesia", "elevenlabs", "hume"}
  /\ MaxRequests \in Nat /\ MaxTtsSockets \in Nat

VARIABLES tts,         \* the provider, its service and the gate's request id
          ttsProvider

ttsVars == <<tts, ttsProvider>>

TtsNone == 0
Dropped == -1
Requests == 1 .. MaxRequests
TtsSocks == 1 .. MaxTtsSockets

\* Text of request r at the service: sent on socket s under label l, which is a
\* context of Cartesia, a request id of Hume, and nothing for ElevenLabs.
Job(s, l, r) == [sock |-> s, label |-> l, req |-> r]

TtsInit ==
  /\ ttsProvider \in TtsProviders
  /\ \E e \in BOOLEAN :
       /\ ttsProvider # "hume" => e = (ttsProvider = "cartesia")
       /\ tts = [state |-> "idle", ws |-> TtsNone,
                 socks |-> [s \in TtsSocks |-> "unused"],
                 echo |-> e,           \* the service's messages carry the label
                 live |-> TtsNone,     \* the gate's requestId
                 cur |-> TtsNone,      \* _currentRequestId
                 text |-> {},          \* requests whose text the sentence buffer holds
                 final |-> FALSE,      \* _contextFinalized
                 ctx |-> 0,            \* _contextCounter
                 reqOf |-> [c \in Requests |-> Dropped],  \* _contextToRequest
                 pend |-> {},          \* _pendingRequestIds, _pendingDone
                 full |-> FALSE,       \* _pendingChars > MAX_PENDING_CHARS
                 jobs |-> {}, ended |-> {},  \* at the service: all, and those to end
                 given |-> {}, flushed |-> {}, done |-> {}, cancelled |-> {}]  \* history

TtsDoes(t) == tts' = t /\ UNCHANGED ttsProvider

Unused == {s \in TtsSocks : tts.socks[s] = "unused"}
TtsOpen(t) == t.ws # TtsNone /\ t.socks[t.ws] = "open"

TtsConnect(t, s) == [t EXCEPT !.state = "connecting", !.ws = s, !.socks[s] = "connecting"]

-----------------------------------------------------------------------------
(* Text in.                                                                *)

Label(t, r) == CASE ttsProvider = "cartesia"   -> t.ctx
                 [] ttsProvider = "elevenlabs" -> TtsNone
                 [] ttsProvider = "hume"       -> r

\* What the sentence buffer holds is sent for r, and emptied.
TtsSend(t, r) ==
  [t EXCEPT !.text = {},
            !.jobs = IF TtsOpen(t) THEN @ \cup {Job(t.ws, Label(t, r), q) : q \in t.text}
                     ELSE @]

\* The end of a request's text: Cartesia's final chunk and Hume's flush name the
\* request, ElevenLabs' flush ends whatever the socket was given.
Flush(t, r) ==
  LET s == [TtsSend(t, r) EXCEPT !.final = TRUE]
      end == IF ttsProvider = "elevenlabs" THEN {j \in s.jobs : j.sock = t.ws}
             ELSE {Job(t.ws, Label(t, r), r)}
  IN IF ~TtsOpen(t) THEN s
     ELSE [s EXCEPT !.jobs = @ \cup end, !.ended = @ \cup end, !.flushed = @ \cup {r}]

FinalizeCurrent(t) ==
  IF t.cur = TtsNone \/ (ttsProvider = "cartesia" /\ t.final) THEN t ELSE Flush(t, t.cur)

\* Mutant: the context changes before the one it replaces is finalized.
BeginThenFinalize(t, r) ==
  LET b == [t EXCEPT !.cur = r, !.pend = @ \cup {r}, !.given = @ \cup {r}, !.ctx = @ + 1,
                     !.reqOf[t.ctx + 1] = r]
  IN IF t.cur = TtsNone THEN b ELSE [Flush(b, r) EXCEPT !.final = FALSE]

\* A new request's text finalizes the request before it.
TtsBegin(t, r) ==
  LET o == FinalizeCurrent(t)
      b == [o EXCEPT !.cur = r, !.pend = @ \cup {r}, !.final = FALSE,
                     !.text = IF ttsProvider = "elevenlabs" THEN @ ELSE {},
                     !.given = @ \cup {r}]
  IN IF ttsProvider # "cartesia" THEN b
     ELSE [b EXCEPT !.ctx = @ + 1, !.reqOf[t.ctx + 1] = r]

\* onTextOutput and onTextDone hand on the gate's request id.
Synthesize(sentence, flush, full) ==
  /\ tts.state = "connected" /\ tts.live \in Requests
  /\ full => ttsProvider = "elevenlabs"
  /\ LET r == tts.live
         b == IF tts.cur = r THEN tts ELSE TtsBegin(tts, r)
         a == [b EXCEPT !.text = @ \cup {r}]
         s == IF sentence THEN TtsSend(a, r) ELSE a
         f == IF flush THEN Flush(s, r) ELSE s
     IN TtsDoes(IF b.full THEN b ELSE [f EXCEPT !.full = full])

-----------------------------------------------------------------------------
(* Interruption.                                                           *)

\* The gate takes no earlier request's callbacks: a new request, the hard cap.
NextRequest(t) == [t EXCEPT !.live = @ + 1]
GateMoves == tts.live \in 0 .. MaxRequests /\ TtsDoes(NextRequest(tts))

\* An interrupt moves the gate before it cancels.
CancelCartesia(t) ==
  CASE t.state # "connected" -> t
    [] t.cur = TtsNone       -> [t EXCEPT !.text = {}]
    [] OTHER -> [t EXCEPT !.text = {}, !.cancelled = @ \cup {t.cur}, !.cur = TtsNone,
                          !.reqOf[t.ctx] = Dropped, !.final = FALSE]

\* What is pending is reported done.
CancelPending(t) ==
  [t EXCEPT !.text = {}, !.cancelled = @ \cup t.pend, !.done = @ \cup t.pend, !.pend = {}]

\* The socket is replaced; its message listener stays, and so does the current id.
CancelElevenLabs(t) ==
  [CancelPending(t) EXCEPT !.full = FALSE, !.ws = TtsNone,
                           !.socks = [s \in TtsSocks |-> IF s = t.ws THEN "closing" ELSE @[s]]]

CancelHume(t) == [CancelPending(t) EXCEPT !.cur = TtsNone]

Interrupt ==
  /\ tts.state # "idle" /\ tts.live \in 0 .. MaxRequests
  /\ LET t == NextRequest(tts)
     IN \/ ttsProvider = "cartesia" /\ TtsDoes(CancelCartesia(t))
        \/ ttsProvider = "hume" /\ TtsDoes(CancelHume(t))
        \/ /\ ttsProvider = "elevenlabs"
           /\ IF t.state = "stopped" THEN TtsDoes(CancelElevenLabs(t))
              ELSE \E s \in Unused : TtsDoes(TtsConnect(CancelElevenLabs(t), s))

-----------------------------------------------------------------------------
(* Callbacks.                                                              *)

\* The id a message of job j is reported under, Dropped when it is not reported.
ReportedAs(j) ==
  CASE ttsProvider = "cartesia"   -> tts.reqOf[j.label]
    [] ttsProvider = "elevenlabs" -> IF tts.cur \in tts.pend THEN tts.cur ELSE Dropped
    [] ttsProvider = "hume"       -> IF tts.echo THEN j.label ELSE tts.cur

\* _handleMessage(): every socket that is not closed is still listened to.  An audio
\* chunk of a job changes nothing here.
Hears(j) == tts.socks[j.sock] \in {"open", "closing"}

DoneArrives(j) ==
  LET id == ReportedAs(j)
  IN /\ Hears(j) /\ j \in tts.ended
     /\ TtsDoes([tts EXCEPT
          !.jobs = @ \ {j}, !.ended = @ \ {j},
          !.done = IF id = Dropped THEN @ ELSE @ \cup {id},
          !.pend = @ \ {id},
          !.full = @ /\ id = Dropped,
          !.reqOf = IF ttsProvider = "cartesia" THEN [@ EXCEPT ![j.label] = Dropped] ELSE @])

-----------------------------------------------------------------------------
(* The connection.                                                         *)

TtsStart == tts.state = "idle" /\ \E s \in Unused : TtsDoes(TtsConnect(tts, s))

TtsSocketOpens(s) ==
  /\ tts.socks[s] = "connecting"
  /\ TtsDoes([tts EXCEPT !.socks[s] = "open",
                      !.state = IF @ = "connecting" \/ ttsProvider = "elevenlabs"
                                THEN "connected" ELSE @])

\* A lost connection is fatal; Hume reports it and keeps its state.
TtsSocketCloses(s) ==
  /\ tts.socks[s] \in {"connecting", "open", "closing"}
  /\ TtsDoes(IF ttsProvider = "elevenlabs" /\ tts.socks[s] = "closing"
          THEN [tts EXCEPT !.socks[s] = "closed"]
          ELSE [tts EXCEPT !.socks[s] = "closed", !.ws = TtsNone,
                           !.state = IF ttsProvider = "hume" THEN @ ELSE "stopped"])

\* ElevenLabs gives up a socket that still connects as well, and keeps its id.
TtsStop ==
  /\ tts.state # "stopped"
  /\ LET given_up == IF ttsProvider = "elevenlabs" THEN {"open", "connecting"} ELSE {"open"}
     IN TtsDoes([tts EXCEPT
          !.state = "stopped", !.ws = TtsNone, !.text = {}, !.pend = {}, !.full = FALSE,
          !.cur = IF ttsProvider = "elevenlabs" THEN @ ELSE TtsNone,
          !.reqOf = [c \in Requests |-> Dropped],
          !.socks = [s \in TtsSocks |->
            IF s = tts.ws /\ @[s] \in given_up THEN "closing" ELSE @[s]]])

TtsNext ==
  \/ \E sentence, flush, full \in BOOLEAN : Synthesize(sentence, flush, full)
  \/ GateMoves \/ Interrupt
  \/ \E j \in tts.jobs : DoneArrives(j)
  \/ \E s \in TtsSocks : TtsSocketOpens(s) \/ TtsSocketCloses(s)
  \/ TtsStart \/ TtsStop

\* The service finishes what was finalized, whatever else it is given.
TtsFairness ==
  \A r \in Requests : WF_ttsVars(\E j \in tts.jobs : j.req = r /\ DoneArrives(j))

TtsSpec == TtsInit /\ [][TtsNext]_ttsVars /\ TtsFairness

-----------------------------------------------------------------------------
(* "All onAudio/onDone callbacks for this text MUST carry the same requestId", and
   the gate takes those of its request only.  A message that can still arrive is
   named after the request whose text it speaks, or not reported, where it carries a
   label; where it does not, and the name is the provider's current request, it is
   never the name of one that cancel() dropped, and the socket of ElevenLabs in use
   speaks no text of a cancelled request.  So no context, buffer, socket or id
   of a request outlives what replaced it: overtaken, cancelled, ended or resumed. *)
CallbacksNameTheirRequest ==
  \A j \in tts.jobs : Hears(j) =>
    /\ tts.echo => ReportedAs(j) \in {Dropped, j.req}
    /\ ReportedAs(j) \in tts.cancelled => tts.echo /\ ReportedAs(j) < tts.live
    /\ ttsProvider = "elevenlabs" /\ j.sock = tts.ws => j.req \notin tts.cancelled

(* A request whose text ended is reported done, unless it is cancelled or the
   connection is gone, whatever requests overtake it; a service that echoes no id
   promises it for the current request only. *)
FlushedIsDone ==
  \A r \in Requests :
    (r \in tts.given /\ (r \in tts.flushed \/ r < tts.cur)) ~>
      \/ r \in tts.done \cup tts.cancelled \/ ~TtsOpen(tts)
      \/ ~tts.echo /\ tts.cur # r
=============================================================================
