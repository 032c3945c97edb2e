--------------------------- MODULE ProvidersProofs --------------------------
(***************************************************************************)
(* The providers for any number of sockets, timers, responses and calls:   *)
(* the streaming transcriptions, the one that rotates its sessions, and    *)
(* the OpenAI realtime transport.  Each has a record of what it is, which  *)
(* every handler keeps sound; one lemma per handler says so, and one per   *)
(* action.                                                                 *)
(***************************************************************************)
EXTENDS StreamingTranscription, TranscribeRotation, OpenAIRealtime, SequenceTheorems,
        TLAPS

(* OpenAI whisper and ElevenLabs Scribe.                                   *)

StrStates == {"idle", "connecting", "connected", "reconnecting", "stopped"}
StrPhases == {"unused", "connecting", "open", "closing", "closed"}

StrRecord ==
  [state : StrStates, ws : StrSocks \cup {NoSocket}, slot : StrSocks \cup {NoSocket},
   count : 0 .. MaxStrSockets, over : BOOLEAN,
   sock : [StrSocks -> StrPhases],
   purpose : [StrSocks -> {"none", "start", "reconnect"}],
   settled : [StrSocks -> BOOLEAN], deadline : [StrSocks -> BOOLEAN],
   timers : Nat, handle : BOOLEAN, audio : BOOLEAN, dialed : BOOLEAN]

\* The slot holds an attempt that was made and is not settled, an attempt that was
\* not made yet has left no trace, and the handle is of a pending timer.
StrSound(s) ==
  /\ s \in StrRecord
  /\ s.slot # NoSocket => ~s.settled[s.slot] /\ s.purpose[s.slot] \in {"start", "reconnect"}
  /\ s.slot <= s.count
  /\ \A n \in StrSocks :
       n > s.count => ~s.settled[n] /\ s.sock[n] = "unused" /\ ~s.deadline[n]
  /\ s.handle => s.timers > 0
  /\ ~s.dialed

Driven(s) ==
  s.state = "reconnecting" =>
    s.timers > 0 \/ \E n \in StrSocks : s.sock[n] \in {"connecting", "open", "closing"}

StrInv == StrSound(str) /\ Driven(str)

\* A dial made outside a stop leaves the provider sound, and driven by its socket.
LEMMA StrConnectSound ==
  ASSUME MaxStrSockets \in Nat, NEW s, StrSound(s), NEW p \in {"start", "reconnect"},
         s.state # "stopped",
         ~StrConnect(s, p).over
  PROVE  StrSound(StrConnect(s, p)) /\ Driven(StrConnect(s, p))
<1> DEFINE n == s.count + 1
<1> DEFINE c == [s EXCEPT !.count = n, !.ws = n, !.slot = n, !.sock[n] = "connecting",
                    !.purpose[n] = p, !.deadline[n] = TRUE,
                    !.dialed = @ \/ s.state = "stopped"]
<1>1. s.count # MaxStrSockets /\ StrConnect(s, p) = c
  <2>1. CASE s.count = MaxStrSockets BY <2>1 DEF StrConnect, StrSound, StrRecord
  <2>2. CASE s.count # MaxStrSockets BY <2>2 DEF StrConnect
  <2> QED BY <2>1, <2>2
<1>2. n \in StrSocks /\ ~s.settled[n] /\ n # NoSocket
  BY <1>1 DEF StrSound, StrRecord, StrSocks, NoSocket
<1>3. c \in StrRecord /\ ~c.dialed
  <2>2. c = [s EXCEPT !.count = n, !.ws = n, !.slot = n, !.sock[n] = "connecting",
                      !.purpose[n] = p, !.deadline[n] = TRUE, !.dialed = FALSE]
    BY DEF StrSound
  <2>3. s \in StrRecord /\ n \in StrSocks /\ n \in 0 .. MaxStrSockets
    BY <1>1, <1>2 DEF StrSound, StrSocks, StrRecord
  <2> HIDE DEF c, n
  <2> QED BY <2>2, <2>3 DEF StrRecord, StrPhases
<1>4. StrSound(c)
  <2>1. /\ c.slot = n /\ c.count = n /\ c.settled = s.settled /\ c.handle = s.handle
        /\ c.timers = s.timers
    OBVIOUS
  <2>2. /\ c.purpose[n] = p
        /\ \A m \in StrSocks : m # n => c.sock[m] = s.sock[m] /\ c.deadline[m] = s.deadline[m]
    BY <1>2 DEF StrSound, StrRecord
  <2>3. n = s.count + 1 /\ s.count \in Nat /\ \A m \in StrSocks : m \in Nat
    BY DEF StrSound, StrRecord, StrSocks
  <2> HIDE DEF c, n
  <2>8. c.handle => c.timers > 0 BY <2>1 DEF StrSound
  <2> QED BY <1>3, <2>8, <1>2, <2>1, <2>2, <2>3 DEF StrSound
<1> QED BY <1>1, <1>2, <1>4 DEF Driven, StrSound, StrRecord

\* scheduleReconnect leaves it sound, with a timer to drive it.
LEMMA StrScheduleSound ==
  ASSUME NEW s, StrSound(s)
  PROVE  StrSound(ScheduleReconnect(s)) /\ Driven(ScheduleReconnect(s))
<1> DEFINE r == [s EXCEPT !.timers = @ + 1, !.handle = TRUE]
<1>1. CASE s.state = "reconnecting"
  <2>1. s \in StrRecord /\ s.timers \in Nat /\ s.timers + 1 \in Nat BY DEF StrSound, StrRecord
  <2>2. r \in StrRecord BY <2>1, Zenon DEF StrRecord
  <2>3. /\ r.slot = s.slot /\ r.settled = s.settled /\ r.purpose = s.purpose
        /\ r.count = s.count /\ r.sock = s.sock /\ r.deadline = s.deadline
                /\ r.timers = s.timers + 1 /\ r.dialed = s.dialed
    BY <2>1 DEF StrRecord
  <2>4. ScheduleReconnect(s) = r BY <1>1 DEF ScheduleReconnect
  <2> HIDE DEF r
  <2> QED BY <2>4, <2>1, <2>2, <2>3 DEF StrSound, Driven
<1>2. CASE s.state # "reconnecting" BY <1>2 DEF ScheduleReconnect, Driven
<1> QED BY <1>1, <1>2

\* Closing a socket of an attempt that was made.
LEMMA StrCloseSound ==
  ASSUME NEW s, StrSound(s), NEW n \in StrSocks \cup {NoSocket}
  PROVE  StrSound(StrCloseSock(s, n))
BY DEF StrCloseSock, StrSound, StrRecord, StrPhases, NoSocket

\* What the rejection of a connect does, for the start and for a reconnect.
LEMMA StrRejectedSound ==
  ASSUME NEW s, StrSound(s), NEW n \in StrSocks \cup {NoSocket}, n # s.slot
         \/ n = NoSocket, n <= s.count
  PROVE  /\ StrSound(Rejected(s, n))
         /\ Driven(s) => Driven(Rejected(s, n))
         /\ n # NoSocket /\ ~s.settled[n] /\ Whisper /\ s.purpose[n] \in {"start", "reconnect"}
              => Driven(Rejected(s, n))
<1> DEFINE r == [s EXCEPT !.settled[n] = TRUE]
<1>1. CASE n = NoSocket \/ s.settled[n] BY <1>1 DEF Rejected
<1>2. CASE ~(n = NoSocket \/ s.settled[n])
  <2>1. StrSound(r) /\ (Driven(s) => Driven(r))
    <3>1. s \in StrRecord /\ n \in StrSocks BY <1>2 DEF StrSound
    <3>2. r \in StrRecord BY <3>1 DEF StrRecord
    <3>3. /\ r.slot = s.slot /\ r.settled = [s.settled EXCEPT ![n] = TRUE]
          /\ r.purpose = s.purpose /\ r.sock = s.sock /\ r.state = s.state
          /\ r.count = s.count /\ r.sock = s.sock /\ r.deadline = s.deadline
                  /\ r.timers = s.timers /\ r.dialed = s.dialed
          /\ r.handle = s.handle /\ r.deadline = s.deadline
      BY <3>1 DEF StrRecord
    <3>4. s.settled \in [StrSocks -> BOOLEAN] /\ s.count \in Int BY <3>1 DEF StrRecord
    <3>5. \A m \in StrSocks : m # n => r.settled[m] = s.settled[m] BY <3>3, <3>4
    <3>6. s.slot # NoSocket => s.slot # n /\ s.slot \in StrSocks BY <1>2, <3>1 DEF StrRecord
    <3>7. n <= s.count OBVIOUS
    <3> HIDE DEF r
    <3> QED BY <3>3, <3>1, <3>2, <3>4, <3>5, <3>6, <3>7 DEF Driven, StrSound, StrSocks
  <2>2. CASE s.purpose[n] = "reconnect" BY <1>2, <2>2, <2>1, StrScheduleSound DEF Rejected
  <2>3. CASE s.purpose[n] = "start" /\ Whisper
    <3>1. Rejected(s, n) = [StrCloseSock(r, r.ws) EXCEPT !.state = "idle", !.ws = NoSocket]
      BY <1>2, <2>3 DEF Rejected
    <3> HIDE DEF r
    <3> DEFINE w == StrCloseSock(r, r.ws)
    <3> DEFINE v == [w EXCEPT !.state = "idle", !.ws = NoSocket]
    <3>2. StrSound(w) BY <2>1, StrCloseSound DEF StrSound, StrRecord
    <3> HIDE DEF w
    <3>4. w \in StrRecord BY <3>2 DEF StrSound
    <3>5. v \in StrRecord BY <3>4 DEF StrRecord, StrStates
    <3>6. /\ v.slot = w.slot /\ v.settled = w.settled /\ v.purpose = w.purpose
          /\ v.count = w.count /\ v.timers = w.timers /\ v.dialed = w.dialed
          /\ v.handle = w.handle /\ v.state = "idle" /\ v.sock = w.sock
          /\ v.deadline = w.deadline
      BY <3>4 DEF StrRecord
    <3> HIDE DEF v
    <3> QED BY <3>1, <3>2, <3>5, <3>6 DEF Driven, v, w, StrSound
  <2>4. CASE ~(s.purpose[n] = "reconnect") /\ ~(s.purpose[n] = "start" /\ Whisper)
    BY <1>2, <2>4, <2>1 DEF Rejected
  <2> QED BY <2>2, <2>3, <2>4
<1> QED BY <1>1, <1>2

\* The same for whichever attempt an event belongs to.
LEMMA StrRejectBySound ==
  ASSUME NEW s, StrSound(s), NEW n \in StrSocks, n <= s.count
  PROVE  /\ StrSound(RejectBy(s, n))
         /\ Driven(s) => Driven(RejectBy(s, n))
         /\ Whisper /\ s.slot # NoSocket => Driven(RejectBy(s, n))
<1> DEFINE c == [s EXCEPT !.slot = NoSocket]
<1> DEFINE m == IF Whisper THEN s.slot ELSE n
<1>1. CASE s.slot = NoSocket BY <1>1 DEF RejectBy
<1>2. CASE s.slot # NoSocket
  <2>1. s \in StrRecord /\ s.slot \in StrSocks /\ s.slot <= s.count
    BY <1>2 DEF StrSound, StrRecord, StrSocks
  <2>2. c \in StrRecord BY <2>1 DEF StrRecord
  <2>3. /\ c.slot = NoSocket /\ c.settled = s.settled /\ c.purpose = s.purpose
        /\ c.count = s.count /\ c.timers = s.timers /\ c.dialed = s.dialed
        /\ c.handle = s.handle /\ c.state = s.state /\ c.sock = s.sock /\ c.deadline = s.deadline
    BY <2>1 DEF StrRecord
  <2>4. RejectBy(s, n) = Rejected(c, m) BY <1>2 DEF RejectBy
  <2> HIDE DEF c
  <2>5. StrSound(c) /\ (Driven(s) => Driven(c))
    BY <2>2, <2>1, <2>3 DEF StrRecord, NoSocket, StrSound, Driven
  <2>6. m \in StrSocks /\ m <= c.count /\ (Whisper => m = s.slot) /\ m # NoSocket
    BY <2>1, <2>3 DEF StrSocks, NoSocket
  <2>7. Whisper => ~c.settled[m] /\ c.purpose[m] \in {"start", "reconnect"}
    BY <2>3, <2>6, <1>2 DEF StrSound
  <2> HIDE DEF m
  <2> QED BY <2>4, <2>5, <2>3, <2>6, <2>7, StrRejectedSound
<1> QED BY <1>1, <1>2

\* The close handler, of the socket that serves and of an older one.
LEMMA StrHandleCloseSound ==
  ASSUME NEW s, StrSound(s), NEW n \in StrSocks, n <= s.count
  PROVE  StrSound(HandleClose(s, n)) /\ Driven(HandleClose(s, n))
<1> DEFINE c == [s EXCEPT !.sock[n] = "closed", !.ws = NoSocket]
<1> DEFINE r == [c EXCEPT !.state = "reconnecting"]
<1>1. s \in StrRecord BY DEF StrSound
<1>2. c \in StrRecord BY <1>1 DEF StrRecord, StrPhases
<1>3. /\ c.slot = s.slot /\ c.settled = s.settled /\ c.purpose = s.purpose
      /\ c.count = s.count /\ c.timers = s.timers /\ c.dialed = s.dialed
      /\ c.handle = s.handle /\ c.state = s.state
      /\ c.deadline = s.deadline /\ c.sock = [s.sock EXCEPT ![n] = "closed"]
  BY <1>1 DEF StrRecord
<1>4. StrSound(c)
  <2>1. \A m \in StrSocks : m # n => c.sock[m] = s.sock[m] BY <1>1, <1>3 DEF StrRecord
  <2>2. s.count \in Int /\ s.slot \in Int BY <1>1 DEF StrRecord, StrSocks, NoSocket
  <2> HIDE DEF c
  <2> QED BY <1>1, <1>2, <1>3, <2>1, <2>2 DEF StrSound, StrSocks
<1>5. CASE s.state = "stopped"
  <2>1. HandleClose(s, n) = c BY <1>5 DEF HandleClose
  <2> HIDE DEF c
  <2> QED BY <1>3, <1>4, <1>5, <2>1 DEF Driven
<1>6. CASE s.state # "stopped" /\ Whisper /\ s.slot # NoSocket
  <2>1. HandleClose(s, n) = RejectBy(c, n) BY <1>6 DEF HandleClose
  <2> HIDE DEF c
  <2> QED BY <1>3, <1>4, <1>6, <2>1, StrRejectBySound
<1>7. CASE s.state # "stopped" /\ ~(Whisper /\ s.slot # NoSocket)
  <2>1. HandleClose(s, n) = ScheduleReconnect(r) BY <1>7 DEF HandleClose
  <2> HIDE DEF c
  <2>2. r \in StrRecord BY <1>2 DEF StrRecord, StrStates
  <2>3. /\ r.slot = c.slot /\ r.settled = c.settled /\ r.purpose = c.purpose
        /\ r.count = c.count /\ r.timers = c.timers /\ r.dialed = c.dialed
        /\ r.handle = c.handle /\ r.deadline = c.deadline /\ r.sock = c.sock
    BY <1>2 DEF StrRecord
  <2> HIDE DEF r
  <2>4. StrSound(r) BY <2>2, <2>3, <1>4 DEF StrSound
  <2> QED BY <2>1, <2>4, StrScheduleSound
<1> QED BY <1>5, <1>6, <1>7

\* One lemma per action: each keeps the invariant.
LEMMA StrStartKeeps == StreamingAssumption /\ StrInv /\ StrStart => StrInv'
<1> SUFFICES ASSUME StreamingAssumption, StrInv, StrStart PROVE StrInv' OBVIOUS
<1> DEFINE c == [str EXCEPT !.state = "connecting"]
<1>1. str \in StrRecord /\ MaxStrSockets \in Nat BY DEF StrInv, StrSound, StreamingAssumption
<1>2. /\ c.slot = str.slot /\ c.settled = str.settled /\ c.purpose = str.purpose
      /\ c.count = str.count /\ c.timers = str.timers /\ c.dialed = str.dialed
      /\ c.handle = str.handle /\ c.state = "connecting" /\ c.sock = str.sock
      /\ c.deadline = str.deadline
  BY <1>1 DEF StrRecord
<1>3. c \in StrRecord BY <1>1 DEF StrRecord, StrStates
<1>4. CASE str' = str BY <1>4 DEF StrInv
<1>5. CASE str' = StrConnect(c, "start") /\ ~StrConnect(c, "start").over
  <2> HIDE DEF c
  <2> QED BY <1>1, <1>2, <1>5, StrConnectSound, <1>3 DEF StrInv, StrSound
<1> QED BY <1>4, <1>5 DEF StrStart, StrCalls

LEMMA StrStopKeeps == StreamingAssumption /\ StrInv /\ StrStop => StrInv'
<1> SUFFICES ASSUME StreamingAssumption, StrInv, StrStop PROVE StrInv' OBVIOUS
<1> DEFINE t == IF str.handle THEN str.timers - 1 ELSE str.timers
<1> DEFINE k == [s \in StrSocks |->
                   IF s = str.ws /\ str.sock[s] = "open" THEN "closing" ELSE str.sock[s]]
<1>1. str \in StrRecord BY DEF StrInv, StrSound
<1>2. t \in Nat /\ k \in [StrSocks -> StrPhases] BY <1>1 DEF StrInv, StrSound, StrRecord, StrPhases
<1>3. str' = [str EXCEPT !.state = "stopped", !.ws = NoSocket, !.audio = FALSE,
                         !.timers = t, !.handle = FALSE, !.sock = k]
  BY <1>1 DEF StrStop, StrCalls, StrRecord
<1>4. \A n \in StrSocks : str.sock[n] = "unused" => k[n] = "unused" OBVIOUS
<1> HIDE DEF t, k
<1>5. str' \in StrRecord BY <1>1, <1>2, <1>3, Zenon DEF StrRecord, StrStates
<1>6. /\ str'.slot = str.slot /\ str'.settled = str.settled /\ str'.purpose = str.purpose
      /\ str'.count = str.count /\ str'.dialed = str.dialed /\ str'.sock = k
      /\ ~str'.handle /\ str'.state = "stopped" /\ str'.deadline = str.deadline
  BY <1>1, <1>2, <1>3, Zenon DEF StrRecord
<1> QED BY <1>4, <1>5, <1>6 DEF StrInv, StrSound, Driven

LEMMA StrFeedKeeps == StrInv /\ StrFeedAudio => StrInv'
<1> SUFFICES ASSUME StrInv, StrFeedAudio PROVE StrInv' OBVIOUS
<1>2. str' = [str EXCEPT !.audio = TRUE] BY DEF StrFeedAudio, StrDoes
<1> QED BY <1>2 DEF StrInv, StrSound, Driven, StrRecord

LEMMA StrTimerKeeps == StreamingAssumption /\ StrInv /\ ReconnectTimerFires => StrInv'
<1> SUFFICES ASSUME StreamingAssumption, StrInv, ReconnectTimerFires PROVE StrInv' OBVIOUS
<1> DEFINE t == str.timers - 1
<1> DEFINE c == [str EXCEPT !.timers = t, !.handle = FALSE]
<1>1. str \in StrRecord /\ t \in Nat /\ MaxStrSockets \in Nat
  BY DEF StrInv, StrSound, StrRecord, ReconnectTimerFires, StreamingAssumption
<1>2. str' = Reconnect(c) /\ ~Reconnect(c).over BY DEF ReconnectTimerFires, StrDoes
<1> HIDE DEF t
<1>3. c \in StrRecord BY <1>1, Zenon DEF StrRecord
<1>4. /\ c.slot = str.slot /\ c.settled = str.settled /\ c.purpose = str.purpose
      /\ c.count = str.count /\ c.dialed = str.dialed
      /\ c.handle = FALSE /\ c.state = str.state /\ c.sock = str.sock
      /\ c.deadline = str.deadline
  BY <1>1, Zenon DEF StrRecord
<1> HIDE DEF c
<1>5. StrSound(c) BY <1>3, <1>4 DEF StrInv, StrSound
<1>6. CASE c.state = "reconnecting"
  BY <1>1, <1>2, <1>5, <1>6, StrConnectSound DEF Reconnect, StrInv
<1>7. CASE c.state # "reconnecting" BY <1>2, <1>5, <1>7 DEF Reconnect, StrInv, Driven
<1> QED BY <1>6, <1>7

LEMMA StrOpensKeeps == ASSUME NEW n \in StrSocks, StrInv, StrSocketOpens(n) PROVE StrInv'
<1>1. str \in StrRecord BY DEF StrInv, StrSound
<1>2. str' = [str EXCEPT !.sock[n] = "open"] /\ str.sock[n] = "connecting"
  BY DEF StrSocketOpens, StrDoes
<1>3. str' \in StrRecord BY <1>1, <1>2 DEF StrRecord, StrPhases
<1>4. /\ str'.slot = str.slot /\ str'.settled = str.settled /\ str'.purpose = str.purpose
      /\ str'.count = str.count /\ str'.timers = str.timers /\ str'.dialed = str.dialed
      /\ str'.handle = str.handle /\ str'.state = str.state
      /\ str'.sock = [str.sock EXCEPT ![n] = "open"]
      /\ str'.deadline = str.deadline
  BY <1>1, <1>2 DEF StrRecord
<1>5. str'.sock[n] = "open" /\ \A m \in StrSocks : m # n => str'.sock[m] = str.sock[m]
  BY <1>1, <1>4 DEF StrRecord
<1>6. StrSound(str)' BY <1>2, <1>3, <1>4, <1>5 DEF StrInv, StrSound
<1>7. Driven(str)' BY <1>5 DEF Driven
<1> QED BY <1>6, <1>7 DEF StrInv

LEMMA StrStartedKeeps == ASSUME NEW n \in StrSocks, StrInv, SessionStarted(n) PROVE StrInv'
<1> DEFINE up == str.state \in {"connecting", "reconnecting"}
<1> DEFINE st == IF up THEN "connected" ELSE str.state
<1> DEFINE au == IF up THEN FALSE ELSE str.audio
<1> DEFINE s == [str EXCEPT !.state = st, !.audio = au, !.slot = NoSocket]
<1> DEFINE r == [s EXCEPT !.settled[str.slot] = TRUE]
<1>1. str \in StrRecord BY DEF StrInv, StrSound
<1>2. str' = IF str.slot = NoSocket THEN s ELSE r BY <1>1 DEF SessionStarted, StrDoes, StrRecord
<1>3. st \in StrStates /\ au \in BOOLEAN /\ st # "reconnecting" BY <1>1 DEF StrRecord, StrStates
<1> HIDE DEF st, au
<1>4. s \in StrRecord BY <1>1, <1>3 DEF StrRecord
<1>5. /\ s.slot = NoSocket /\ s.settled = str.settled /\ s.purpose = str.purpose
      /\ s.count = str.count /\ s.timers = str.timers /\ s.dialed = str.dialed
      /\ s.handle = str.handle /\ s.state = st /\ s.sock = str.sock
      /\ s.deadline = str.deadline
  BY <1>1, Zenon DEF StrRecord
<1>0. NoSocket <= str.count /\ str.count \in Int BY <1>1 DEF StrRecord, NoSocket
<1>6. CASE str.slot = NoSocket
  <2> HIDE DEF s
  <2> QED BY <1>0, <1>2, <1>3, <1>4, <1>5, <1>6 DEF StrInv, StrSound, Driven
<1>7. CASE str.slot # NoSocket
  <2>1. str.slot \in StrSocks /\ str.slot <= str.count
    BY <1>1, <1>7 DEF StrInv, StrSound, StrRecord
  <2> HIDE DEF s
  <2>2. r \in StrRecord BY <1>4, <2>1 DEF StrRecord
  <2>3. /\ r.slot = s.slot /\ r.settled = [s.settled EXCEPT ![str.slot] = TRUE]
        /\ r.purpose = s.purpose
        /\ r.count = s.count /\ r.timers = s.timers /\ r.dialed = s.dialed
        /\ r.handle = s.handle /\ r.state = s.state /\ r.sock = s.sock
        /\ r.deadline = s.deadline
    BY <1>4, <2>1 DEF StrRecord
  <2>4. \A m \in StrSocks : m # str.slot => r.settled[m] = str.settled[m]
    BY <1>4, <1>5, <2>3 DEF StrRecord
  <2> HIDE DEF r
  <2>5. StrSound(r) BY <1>0, <1>5, <2>1, <2>2, <2>3, <2>4 DEF StrInv, StrSound, StrSocks
  <2> QED BY <1>2, <1>3, <1>5, <1>7, <2>3, <2>5 DEF StrInv, Driven
<1> QED BY <1>6, <1>7

LEMMA StrMadeBefore ==
  ASSUME NEW n \in StrSocks, StrInv, str.sock[n] # "unused" \/ str.deadline[n]
  PROVE  n <= str.count
BY DEF StrInv, StrSound, StrRecord, StrSocks

LEMMA StrErrorsKeeps == ASSUME NEW n \in StrSocks, StrInv, ServerErrors(n) PROVE StrInv'
<1>1. n <= str.count BY StrMadeBefore DEF ServerErrors
<1>2. str' = RejectBy(str, n) BY DEF ServerErrors, StrDoes
<1> QED BY <1>1, <1>2, StrRejectBySound DEF StrInv

LEMMA StrClosesKeeps == ASSUME NEW n \in StrSocks, StrInv, StrSocketCloses(n) PROVE StrInv'
<1> QED BY StrHandleCloseSound, StrMadeBefore DEF StrInv, StrSocketCloses, StrDoes

LEMMA StrTimesOutKeeps == ASSUME NEW n \in StrSocks, StrInv, StrConnectTimesOut(n) PROVE StrInv'
<1> DEFINE c == [str EXCEPT !.deadline[n] = FALSE]
<1>1. n <= str.count BY StrMadeBefore DEF StrConnectTimesOut
<1>2. str \in StrRecord BY DEF StrInv, StrSound
<1>3. c \in StrRecord BY <1>2 DEF StrRecord
<1>4. /\ c.slot = str.slot /\ c.settled = str.settled /\ c.purpose = str.purpose
      /\ c.count = str.count /\ c.timers = str.timers /\ c.dialed = str.dialed
      /\ c.handle = str.handle /\ c.state = str.state /\ c.sock = str.sock
      /\ c.deadline = [str.deadline EXCEPT ![n] = FALSE]
  BY <1>2 DEF StrRecord
<1>5. \A m \in StrSocks : c.deadline[m] => str.deadline[m] BY <1>2, <1>4 DEF StrRecord
<1>6. str' = RejectBy(c, n) BY DEF StrConnectTimesOut, StrDoes
<1> HIDE DEF c
<1>7. StrSound(c) /\ Driven(c) BY <1>3, <1>4, <1>5 DEF StrInv, StrSound, Driven
<1> QED BY <1>1, <1>4, <1>6, <1>7, StrRejectBySound DEF StrInv

LEMMA StrFailsKeeps == ASSUME NEW n \in StrSocks, StrInv, SocketFails(n) PROVE StrInv'
<1> DEFINE e == [str EXCEPT !.slot = NoSocket]
<1> DEFINE owner == IF Whisper THEN str.slot ELSE n
<1> DEFINE c == HandleClose(e, n)
<1>1. n <= str.count BY StrMadeBefore DEF SocketFails
<1>2. str \in StrRecord BY DEF StrInv, StrSound
<1>3. e \in StrRecord BY <1>2 DEF StrRecord
<1>4. /\ e.slot = NoSocket /\ e.settled = str.settled /\ e.purpose = str.purpose
      /\ e.count = str.count /\ e.timers = str.timers /\ e.dialed = str.dialed
      /\ e.handle = str.handle /\ e.state = str.state /\ e.sock = str.sock
      /\ e.deadline = str.deadline
  BY <1>2 DEF StrRecord
<1>5. str' = IF str.slot = NoSocket THEN c ELSE Rejected(c, owner) BY DEF SocketFails, StrDoes
<1>6. NoSocket <= e.count BY <1>3 DEF StrRecord, NoSocket
<1> HIDE DEF e
<1>7. StrSound(e) BY <1>3, <1>4, <1>6 DEF StrInv, StrSound
<1>8. StrSound(c) /\ Driven(c) BY <1>1, <1>4, <1>7, StrHandleCloseSound
<1>9. c.slot = NoSocket /\ c.count = str.count
  <2>1. c = IF e.state = "stopped" THEN [e EXCEPT !.sock[n] = "closed", !.ws = NoSocket]
            ELSE ScheduleReconnect([[e EXCEPT !.sock[n] = "closed", !.ws = NoSocket]
                                      EXCEPT !.state = "reconnecting"])
    BY <1>4 DEF HandleClose
  <2> HIDE DEF c
  <2> QED BY <1>3, <1>4, <2>1, Zenon DEF ScheduleReconnect, StrRecord
<1>10. CASE str.slot = NoSocket BY <1>5, <1>8, <1>10 DEF StrInv
<1>11. CASE str.slot # NoSocket
  <2>1. owner \in StrSocks \cup {NoSocket} /\ owner <= c.count /\ owner # NoSocket
    BY <1>1, <1>2, <1>9, <1>11 DEF StrInv, StrSound, StrRecord, StrSocks, NoSocket
  <2> HIDE DEF c, owner
  <2> QED BY <1>5, <1>8, <1>9, <1>11, <2>1, StrRejectedSound DEF StrInv
<1> QED BY <1>10, <1>11

\* The invariant of the streaming providers holds in every state, for any number of
\* sockets, timers and calls.
THEOREM StrInductive == StrSpec => []StrInv
<1>1. StrInit => StrInv
  <2> SUFFICES ASSUME StrInit PROVE StrInv OBVIOUS
  <2>1. str \in StrRecord
    <3>1. 0 \in 0 .. MaxStrSockets /\ 0 \in Nat BY StreamingAssumption DEF StreamingAssumption
    <3>2. /\ [s \in StrSocks |-> "unused"] \in [StrSocks -> StrPhases]
          /\ [s \in StrSocks |-> "none"] \in [StrSocks -> {"none", "start", "reconnect"}]
          /\ [s \in StrSocks |-> FALSE] \in [StrSocks -> BOOLEAN]
          /\ "idle" \in StrStates
      BY DEF StrPhases, StrStates
    <3> QED BY <3>1, <3>2, Zenon DEF StrInit, StrRecord, NoSocket
  <2> QED BY <2>1 DEF StrInv, StrSound, Driven, NoSocket, StrInit
<1>2. StrInv /\ [StrNext]_strVars => StrInv'
  <2> SUFFICES ASSUME StrInv, [StrNext]_strVars PROVE StrInv' OBVIOUS
  <2>1. CASE StrStart BY <2>1, StrStartKeeps, StreamingAssumption
  <2>2. CASE StrStop BY <2>2, StrStopKeeps, StreamingAssumption
  <2>3. CASE StrFeedAudio BY <2>3, StrFeedKeeps
  <2>4. CASE ReconnectTimerFires BY <2>4, StrTimerKeeps, StreamingAssumption
  <2>5. ASSUME NEW n \in StrSocks, StrSocketOpens(n) PROVE StrInv' BY <2>5, StrOpensKeeps
  <2>6. ASSUME NEW n \in StrSocks, SessionStarted(n) PROVE StrInv' BY <2>6, StrStartedKeeps
  <2>7. ASSUME NEW n \in StrSocks, ServerErrors(n) PROVE StrInv' BY <2>7, StrErrorsKeeps
  <2>8. ASSUME NEW n \in StrSocks, StrSocketCloses(n) PROVE StrInv' BY <2>8, StrClosesKeeps
  <2>9. ASSUME NEW n \in StrSocks, SocketFails(n) PROVE StrInv' BY <2>9, StrFailsKeeps
  <2>10. ASSUME NEW n \in StrSocks, StrConnectTimesOut(n) PROVE StrInv' BY <2>10, StrTimesOutKeeps
  <2>11. CASE UNCHANGED strVars BY <2>11 DEF strVars, StrInv, StrSound, Driven, Whisper
  <2> QED BY <2>1, <2>2, <2>3, <2>4, <2>5, <2>6, <2>7, <2>8, <2>9, <2>10, <2>11 DEF StrNext
<1> QED BY <1>1, <1>2, PTL DEF StrSpec

\* A reconnecting provider has a timer or a live socket to bring it on, and none is
\* dialed after stop(): ReconnectsAreOwned, for both providers and any bounds.
THEOREM ReconnectsOwned == StrSpec => []ReconnectsAreOwned
<1>1. StrInv => ReconnectsAreOwned
  BY DEF StrInv, StrSound, Driven, ReconnectsAreOwned, StoppedNeverDials, ReconnectIsDriven
<1> QED BY <1>1, StrInductive, PTL

-----------------------------------------------------------------------------
(* The rotating Gemini transcription.                                      *)

ConnRecord ==
  [run : Nat, sock : {"none", "connecting", "open", "closing", "closed"}, ready : BOOLEAN,
   failed : BOOLEAN, ended : BOOLEAN, drain : BOOLEAN, reported : Nat]

SttRecord ==
  [running : BOOLEAN, run : Nat, runSeq : Nat, closing : Nat,
   starting : Conns \cup {NoConn}, active : Conns \cup {NoConn}, next : Conns \cup {NoConn},
   conns : [Conns -> ConnRecord], count : 0 .. MaxConns, over : BOOLEAN,
   pending : BOOLEAN, rotate : BOOLEAN, retry : {"none", "active", "replace"},
   aTries : Nat, rTries : Nat, ending : SUBSET Nat, foreign : BOOLEAN]

\* A connection that is ready has had an open socket, and a running provider has
\* left the run it was shutting down.
SttSound(s) ==
  /\ s \in SttRecord
  /\ \A c \in Conns : s.conns[c].ready => s.conns[c].sock \notin {"none", "connecting"}
  /\ s.running => s.closing = 0
  /\ ~s.foreign

Flushed(s) == Serving(s, s.active) => ~s.pending

SttInv == SttSound(stt) /\ Flushed(stt)

\* NoConn is none of the connections.
LEMMA SttDomain == NoConn \notin Conns /\ \A c \in Conns : c # NoConn
BY DEF NoConn, Conns

\* What a change of one connection keeps: the new one is sound, and serves only
\* what it served before.
LEMMA SttConnChanges ==
  ASSUME NEW s, SttSound(s), NEW c \in Conns, NEW k \in ConnRecord,
         k.ready => k.sock \notin {"none", "connecting"},
         NEW t, t = [s EXCEPT !.conns[c] = k]
  PROVE  /\ SttSound(t) 
         /\ t.active = s.active /\ t.next = s.next /\ t.pending = s.pending
         /\ t.running = s.running /\ t.run = s.run /\ t.count = s.count /\ t.over = s.over
         /\ t.starting = s.starting
         /\ t.conns[c] = k /\ \A d \in Conns : d # c => t.conns[d] = s.conns[d]
         /\ Flushed(s) /\ (k.ready /\ k.sock = "open" =>
                              s.conns[c].ready /\ s.conns[c].sock = "open") => Flushed(t)
<1>1. s \in SttRecord BY DEF SttSound
<1>2. t \in SttRecord BY <1>1 DEF SttRecord
<1>3. /\ t.active = s.active /\ t.next = s.next /\ t.pending = s.pending
      /\ t.running = s.running /\ t.run = s.run /\ t.count = s.count /\ t.over = s.over
      /\ t.closing = s.closing /\ t.foreign = s.foreign /\ t.starting = s.starting
      /\ t.conns = [s.conns EXCEPT ![c] = k]
  BY <1>1 DEF SttRecord
<1>4. t.conns[c] = k /\ \A d \in Conns : d # c => t.conns[d] = s.conns[d]
  BY <1>1, <1>3 DEF SttRecord
<1>5. SttSound(t) BY <1>2, <1>3, <1>4 DEF SttSound
<1> QED BY <1>3, <1>4, <1>5, <1>1 DEF Flushed, Serving, SttRecord

\* A connection as it is made.
LEMMA SttNewConnSound ==
  ASSUME NEW r \in Nat
  PROVE  NewConn(r) \in ConnRecord /\ ~NewConn(r).ready
BY DEF NewConn, ConnRecord

\* A new connection: nothing serves that did not serve before.
LEMMA SttOpenSound ==
  ASSUME TranscribeAssumption, NEW s, SttSound(s), ~OpenConn(s).over
  PROVE  /\ SttSound(OpenConn(s)) /\ (Flushed(s) => Flushed(OpenConn(s)))
         /\ OpenConn(s).count \in Conns /\ ~OpenConn(s).conns[OpenConn(s).count].ready
         /\ OpenConn(s).active = s.active /\ OpenConn(s).next = s.next
<1> DEFINE n == s.count + 1
<1> DEFINE u == [s EXCEPT !.count = n]
<1> DEFINE t == [u EXCEPT !.conns[n] = NewConn(s.run)]
<1>1. s \in SttRecord BY DEF SttSound
<1>2. s.count # MaxConns BY <1>1 DEF OpenConn, SttRecord
<1>3. n \in Conns /\ n \in 0 .. MaxConns BY <1>1, <1>2 DEF SttRecord, Conns, TranscribeAssumption
<1>4. OpenConn(s) = t BY <1>1, <1>2 DEF OpenConn, SttRecord
<1> HIDE DEF n
<1>5. u \in SttRecord BY <1>1, <1>3 DEF SttRecord
<1>6. /\ u.active = s.active /\ u.next = s.next /\ u.pending = s.pending /\ u.count = n
      /\ u.running = s.running /\ u.run = s.run /\ u.closing = s.closing
      /\ u.foreign = s.foreign /\ u.conns = s.conns
  BY <1>1, Zenon DEF SttRecord
<1>7. NewConn(s.run) \in ConnRecord /\ ~NewConn(s.run).ready BY <1>1, SttNewConnSound DEF SttRecord
<1> HIDE DEF u
<1>8. SttSound(u) /\ (Flushed(s) => Flushed(u)) BY <1>5, <1>6 DEF SttSound, Flushed, Serving
<1> DEFINE k == NewConn(s.run)
<1> DEFINE v == [u EXCEPT !.conns[n] = k]
<1>10. /\ k \in ConnRecord /\ ~k.ready /\ t = v
       /\ k.ready => k.sock \notin {"none", "connecting"}
       /\ k.ready /\ k.sock = "open" => u.conns[n].ready /\ u.conns[n].sock = "open"
  BY <1>7
<1> HIDE DEF t, k
<1>9. /\ SttSound(t) /\ t.active = u.active /\ t.next = u.next /\ t.count = u.count
      /\ t.conns[n] = k /\ (Flushed(u) => Flushed(t))
  <2>1. /\ SttSound(v) /\ v.active = u.active /\ v.next = u.next /\ v.count = u.count
        /\ v.conns[n] = k /\ (Flushed(u) => Flushed(v))
    <3>1. v = [u EXCEPT !.conns[n] = k] OBVIOUS
    <3> HIDE DEF v
    <3>5. (Flushed(u) => Flushed(v)) BY <1>3, <1>8, <1>10, <3>1, SttConnChanges
    <3> QED BY <3>5, <1>3, <1>8, <1>10, <3>1, SttConnChanges, <1>5 DEF SttRecord
  <2> HIDE DEF v
  <2> QED BY <1>10, <2>1
<1> QED BY <1>3, <1>4, <1>6, <1>8, <1>9, <1>10

\* A connection is closed.
LEMMA SttCloseSound ==
  ASSUME NEW s, SttSound(s), NEW c \in Conns \cup {NoConn}
  PROVE  /\ SttSound(CloseConn(s, c)) /\ (Flushed(s) => Flushed(CloseConn(s, c)))
         /\ CloseConn(s, c).active = s.active /\ CloseConn(s, c).next = s.next
         /\ CloseConn(s, c).starting = s.starting
<1> DEFINE k == s.conns[c]
<1> DEFINE a == [k EXCEPT !.ended = TRUE, !.reported = @ + 1]
<1> DEFINE b == [k EXCEPT !.ended = TRUE, !.sock = IF @ = "closed" THEN @ ELSE "closing"]
<1> DEFINE m == IF k.sock = "none" THEN a ELSE b
<1>1. CASE c = NoConn \/ s.conns[c].ended BY <1>1 DEF CloseConn
<1>2. CASE ~(c = NoConn \/ s.conns[c].ended)
  <2>1. c \in Conns /\ k \in ConnRecord BY <1>2 DEF SttSound, SttRecord
  <2>2. k.reported + 1 \in Nat BY <2>1 DEF ConnRecord
  <2>3. a \in ConnRecord /\ a.ready = k.ready /\ a.sock = k.sock
    BY <2>1, <2>2, Zenon DEF ConnRecord
  <2>4. b \in ConnRecord /\ b.ready = k.ready /\ b.sock \in {"closing", "closed"}
    BY <2>1 DEF ConnRecord
  <2>5. k.ready => k.sock \notin {"none", "connecting"} BY <2>1 DEF SttSound
  <2>6. CloseConn(s, c) = [s EXCEPT !.conns[c] = m] BY <1>2 DEF CloseConn
  <2> HIDE DEF a, b
  <2>7. /\ m \in ConnRecord /\ m.ready = k.ready
        /\ m.ready => m.sock \notin {"none", "connecting"}
        /\ m.ready /\ m.sock = "open" => FALSE
    BY <2>3, <2>4, <2>5
  <2> HIDE DEF m
  <2> QED BY <2>1, <2>6, <2>7, SttConnChanges
<1> QED BY <1>1, <1>2

\* What was put aside is sent where it can be.
LEMMA SttFlushSound ==
  ASSUME NEW s, SttSound(s), NEW c \in Conns \cup {NoConn}
  PROVE  /\ SttSound(FlushPendingTo(s, c)) /\ (Flushed(s) => Flushed(FlushPendingTo(s, c)))
         /\ FlushPendingTo(s, c).active = s.active
         /\ FlushPendingTo(s, c).conns = s.conns
         /\ Serving(s, c) => ~FlushPendingTo(s, c).pending
<1> DEFINE t == [s EXCEPT !.pending = FALSE]
<1>1. CASE Serving(s, c)
  <2>1. s \in SttRecord BY DEF SttSound
  <2>2. t \in SttRecord BY <2>1 DEF SttRecord
  <2>3. /\ t.active = s.active /\ t.pending = FALSE /\ t.running = s.running
        /\ t.closing = s.closing /\ t.foreign = s.foreign /\ t.conns = s.conns
    BY <2>1, Zenon DEF SttRecord
  <2>4. FlushPendingTo(s, c) = t BY <1>1 DEF FlushPendingTo
  <2> HIDE DEF t
  <2> QED BY <2>2, <2>3, <2>4 DEF SttSound, Flushed
<1>2. CASE ~Serving(s, c) BY <1>2 DEF FlushPendingTo
<1> QED BY <1>1, <1>2

\* A connection whose setup completed.
LEMMA SttReadySound ==
  ASSUME NEW s, SttSound(s), NEW c \in Conns \cup {NoConn}
  PROVE  /\ SttSound(OnActiveReady(s, c)) /\ OnActiveReady(s, c).active = s.active
         /\ Flushed(s) \/ s.active = c => Flushed(OnActiveReady(s, c))
<1> DEFINE f == FlushPendingTo(s, c)
<1> DEFINE t == [f EXCEPT !.aTries = 0, !.rotate = TRUE]
<1>1. /\ SttSound(f) /\ (Flushed(s) => Flushed(f)) /\ f.active = s.active
      /\ f.conns = s.conns /\ (Serving(s, c) => ~f.pending)
  BY SttFlushSound
<1>2. OnActiveReady(s, c) = t BY DEF OnActiveReady
<1> HIDE DEF f
<1>3. f \in SttRecord BY <1>1 DEF SttSound
<1>4. t \in SttRecord BY <1>3, Zenon DEF SttRecord
<1>5. /\ t.active = f.active /\ t.pending = f.pending /\ t.running = f.running
      /\ t.closing = f.closing /\ t.foreign = f.foreign /\ t.conns = f.conns
  BY <1>3, Zenon DEF SttRecord
<1> HIDE DEF t
<1> QED BY <1>1, <1>2, <1>4, <1>5 DEF SttSound, Flushed, Serving

\* The connection that serves from now on takes what waits.
LEMMA SttActivateSound ==
  ASSUME NEW s, SttSound(s), NEW c \in Conns
  PROVE  SttSound(Activate(s, c)) /\ Flushed(Activate(s, c))
<1> DEFINE n == IF s.next = c THEN NoConn ELSE s.next
<1> DEFINE a == [s EXCEPT !.active = c, !.next = n]
<1>1. s \in SttRecord BY DEF SttSound
<1>2. n \in Conns \cup {NoConn} BY <1>1 DEF SttRecord
<1>3. Activate(s, c) = IF s.conns[c].ready THEN OnActiveReady(a, c) ELSE a
  BY <1>1 DEF Activate, SttRecord
<1> HIDE DEF n
<1>4. a \in SttRecord BY <1>1, <1>2 DEF SttRecord
<1>5. /\ a.active = c /\ a.running = s.running
      /\ a.closing = s.closing /\ a.foreign = s.foreign /\ a.conns = s.conns
  BY <1>1 DEF SttRecord
<1> HIDE DEF a
<1> QED BY <1>3, <1>5, SttReadySound, <1>4 DEF SttSound, Flushed, Serving

\* One that is not ready yet takes nothing.
LEMMA SttActivateNewSound ==
  ASSUME TranscribeAssumption, NEW s, SttSound(s), ~ActivateNew(s).over
  PROVE  SttSound(ActivateNew(s)) /\ Flushed(ActivateNew(s))
<1>1. CASE OpenConn(s).over BY <1>1 DEF ActivateNew
<1>2. CASE ~OpenConn(s).over BY <1>2, SttOpenSound, SttActivateSound DEF ActivateNew
<1> QED BY <1>1, <1>2

\* The hand-over to the replacement.
LEMMA SttSwitchSound ==
  ASSUME NEW s, SttSound(s), NEW c \in Conns
  PROVE  SttSound(SwitchTo(s, c)) /\ Flushed(SwitchTo(s, c))
<1> DEFINE a == Activate(s, c)
<1> DEFINE k == [a.conns[s.active] EXCEPT !.drain = TRUE]
<1>1. SttSound(a) /\ Flushed(a) BY SttActivateSound
<1>2. CASE s.active \in {NoConn, c} BY <1>1, <1>2 DEF SwitchTo
<1>3. CASE s.active \notin {NoConn, c}
  <2>1. s.active \in Conns BY <1>3 DEF SttSound, SttRecord
  <2> HIDE DEF a
  <2>2. a \in SttRecord /\ a.conns[s.active] \in ConnRecord BY <1>1, <2>1 DEF SttSound, SttRecord
  <2>3. k \in ConnRecord /\ k.ready = a.conns[s.active].ready /\ k.sock = a.conns[s.active].sock
    BY <2>2 DEF ConnRecord
  <2>4. SwitchTo(s, c) = [a EXCEPT !.conns[s.active] = k]
    BY <1>3, <2>2 DEF SwitchTo, DrainAndClose, a, SttRecord
  <2>5. k.ready => k.sock \notin {"none", "connecting"} BY <1>1, <2>1, <2>3 DEF SttSound
  <2> HIDE DEF k
  <2> QED BY <1>1, <2>1, <2>3, <2>4, <2>5, SttConnChanges
<1> QED BY <1>2, <1>3

\* A start that fails.
LEMMA SttRejectSound ==
  ASSUME NEW s, SttSound(s), NEW c \in Conns
  PROVE  /\ SttSound(Reject(s, c)) /\ (Flushed(s) => Flushed(Reject(s, c)))
         /\ Reject(s, c).active = s.active
<1> DEFINE k == [s.conns[c] EXCEPT !.failed = TRUE]
<1> DEFINE e == [s EXCEPT !.conns[c] = k]
<1> DEFINE f == CloseConn(e, c)
<1> DEFINE n == IF f.starting = c THEN NoConn ELSE f.starting
<1> DEFINE t == [f EXCEPT !.starting = n]
<1>1. s \in SttRecord /\ s.conns[c] \in ConnRecord BY DEF SttSound, SttRecord
<1>2. k \in ConnRecord /\ k.ready = s.conns[c].ready /\ k.sock = s.conns[c].sock
  BY <1>1 DEF ConnRecord
<1>3. k.ready => k.sock \notin {"none", "connecting"} BY <1>2 DEF SttSound
<1>4. Reject(s, c) = t BY <1>1 DEF Reject, SttRecord
<1> HIDE DEF k
<1>5. SttSound(e) /\ (Flushed(s) => Flushed(e)) /\ e.active = s.active
  BY <1>2, <1>3, SttConnChanges
<1> HIDE DEF e
<1>6. SttSound(f) /\ (Flushed(e) => Flushed(f)) /\ f.active = e.active BY <1>5, SttCloseSound
<1> HIDE DEF f
<1>7. f \in SttRecord BY <1>6 DEF SttSound
<1>8. n \in Conns \cup {NoConn} BY <1>7 DEF SttRecord
<1> HIDE DEF n
<1>9. t \in SttRecord BY <1>7, <1>8 DEF SttRecord
<1>10. /\ t.active = f.active /\ t.pending = f.pending /\ t.running = f.running
       /\ t.closing = f.closing /\ t.foreign = f.foreign /\ t.conns = f.conns
  BY <1>7, Zenon DEF SttRecord
<1> HIDE DEF t
<1> QED BY <1>4, <1>5, <1>6, <1>9, <1>10 DEF SttSound, Flushed, Serving

\* The end of a run.
LEMMA SttShutdownSound ==
  ASSUME NEW s, SttSound(s)
  PROVE  SttSound(Shutdown(s)) /\ Flushed(Shutdown(s))
<1> DEFINE t == Shutdown(s)
<1>1. s \in SttRecord BY DEF SttSound
<1> DEFINE mine == {c \in Opened(s) : Listed(s, c)}
<1> DEFINE pre == {c \in mine : ~s.conns[c].ready}
<1> DEFINE retired == {c \in mine \ pre : c = s.active \/ s.conns[c].drain}
<1> DEFINE ending == IF s.run = 0 THEN s.ending ELSE s.ending \cup {s.run}
<1> DEFINE starting == IF s.starting \in pre THEN NoConn ELSE s.starting
<1> DEFINE After(c) ==
             IF c \in retired THEN [s.conns[c] EXCEPT !.drain = TRUE]
             ELSE IF c \in mine /\ ~s.conns[c].ended
             THEN [s.conns[c] EXCEPT !.failed = @ \/ c \in pre, !.ended = TRUE,
                          !.reported = IF s.conns[c].sock = "none" THEN @ + 1 ELSE @,
                          !.sock = IF @ = "none" THEN @ ELSE "closing"]
             ELSE [s.conns[c] EXCEPT !.failed = @ \/ c \in pre]
<1> DEFINE conns == [c \in Conns |-> After(c)]
<1>2. t = [s EXCEPT !.running = FALSE, !.closing = s.run, !.run = 0,
               !.ending = ending, !.conns = conns, !.starting = starting,
               !.active = NoConn, !.next = NoConn, !.pending = FALSE,
               !.rotate = FALSE, !.retry = "none"]
  BY DEF Shutdown
<1> HIDE DEF mine, retired, pre
<1>3. ending \in SUBSET Nat /\ starting \in Conns \cup {NoConn} BY <1>1, <1>2 DEF SttRecord
<1>4. ASSUME NEW c \in Conns
      PROVE  /\ conns[c] \in ConnRecord
             /\ conns[c].ready => conns[c].sock \notin {"none", "connecting"}
  <2> DEFINE k == s.conns[c]
  <2> DEFINE w == k.failed \/ c \in pre
  <2> DEFINE p == IF k.sock = "none" THEN k.reported + 1 ELSE k.reported
  <2> DEFINE x == IF k.sock = "none" THEN k.sock ELSE "closing"
  <2>1. k \in ConnRecord /\ (k.ready => k.sock \notin {"none", "connecting"})
    BY <1>1 DEF SttSound, SttRecord
  <2>2. conns[c] \in {[k EXCEPT !.drain = TRUE],
                      [k EXCEPT !.failed = w, !.ended = TRUE, !.reported = p, !.sock = x],
                      [k EXCEPT !.failed = w]}
    OBVIOUS
  <2>3. w \in BOOLEAN OBVIOUS
  <2>4. p \in Nat /\ x \in {"none", "closing"} /\ (k.ready => x = "closing") BY <2>1 DEF ConnRecord
  <2> HIDE DEF k, w, p, x, conns, After
  <2>5. CASE conns[c] = [k EXCEPT !.drain = TRUE] BY <2>1, <2>5 DEF ConnRecord
  <2>6. CASE conns[c] = [k EXCEPT !.failed = w, !.ended = TRUE, !.reported = p, !.sock = x]
    <3>1. conns[c] \in ConnRecord BY <2>1, <2>3, <2>4, <2>6, Zenon DEF ConnRecord
    <3>2. conns[c].ready = k.ready /\ conns[c].sock = x BY <2>1, <2>6, Zenon DEF ConnRecord
    <3> QED BY <3>1, <3>2, <2>4
  <2>7. CASE conns[c] = [k EXCEPT !.failed = w] BY <2>1, <2>3, <2>7 DEF ConnRecord
  <2> QED BY <2>2, <2>5, <2>6, <2>7
<1>5. conns \in [Conns -> ConnRecord] BY <1>4
<1>8. \A c \in Conns : conns[c].ready => conns[c].sock \notin {"none", "connecting"} BY <1>4
<1> HIDE DEF t, conns, ending, starting
<1>6. t \in SttRecord BY <1>1, <1>2, <1>3, <1>5 DEF SttRecord
<1>7. /\ t.active = NoConn /\ t.running = FALSE
      /\ t.foreign = s.foreign /\ t.conns = conns
  BY <1>1, <1>2, Zenon DEF SttRecord
<1> QED BY <1>6, <1>7, <1>8 DEF SttSound, Flushed, Serving, t

\* A retry is scheduled.
LEMMA SttRetrySound ==
  ASSUME NEW s, SttSound(s)
  PROVE  SttSound(RetryReplacement(s)) /\ (Flushed(s) => Flushed(RetryReplacement(s)))
<1> DEFINE n == s.rTries + 1
<1> DEFINE t == [s EXCEPT !.rTries = n, !.retry = "replace"]
<1>1. s \in SttRecord /\ n \in Nat BY DEF SttSound, SttRecord
<1>2. RetryReplacement(s) = IF s.rTries >= MaxRetries THEN s ELSE t BY DEF RetryReplacement
<1> HIDE DEF n
<1>3. t \in SttRecord BY <1>1, Zenon DEF SttRecord
<1>4. /\ t.active = s.active /\ t.pending = s.pending /\ t.running = s.running
      /\ t.closing = s.closing /\ t.foreign = s.foreign /\ t.conns = s.conns
  BY <1>1, Zenon DEF SttRecord
<1> HIDE DEF t
<1> QED BY <1>2, <1>3, <1>4 DEF SttSound, Flushed, Serving

\* The replacement is given up.
LEMMA SttNextSound ==
  ASSUME NEW s, SttSound(s), NEW n \in Conns \cup {NoConn},
         NEW t, t = [s EXCEPT !.next = n]
  PROVE  SttSound(t) /\ (Flushed(s) => Flushed(t)) /\ t.active = s.active
<1>1. s \in SttRecord BY DEF SttSound
<1>2. t \in SttRecord BY <1>1 DEF SttRecord
<1>3. /\ t.active = s.active /\ t.pending = s.pending /\ t.running = s.running
      /\ t.closing = s.closing /\ t.foreign = s.foreign /\ t.conns = s.conns
  BY <1>1, Zenon DEF SttRecord
<1> QED BY <1>2, <1>3 DEF SttSound, Flushed, Serving

\* The failure of a connection.
LEMMA SttFailedSound ==
  ASSUME TranscribeAssumption, NEW s, SttSound(s), Flushed(s), NEW c \in Conns,
         NEW permanent \in BOOLEAN
  PROVE  SttSound(OnFailed(s, c, permanent)) /\ Flushed(OnFailed(s, c, permanent))
<1> DEFINE f == Reject(s, c)
<1> DEFINE g == [f EXCEPT !.next = NoConn]
<1> DEFINE n == f.aTries + 1
<1> DEFINE h == [f EXCEPT !.aTries = n, !.retry = "active"]
<1>1. SttSound(f) /\ Flushed(f) BY SttRejectSound
<1> HIDE DEF f
<1>2. f \in SttRecord /\ n \in Nat BY <1>1 DEF SttSound, SttRecord
<1> HIDE DEF n
<1>3. SttSound(Shutdown(f)) /\ Flushed(Shutdown(f)) BY <1>1, SttShutdownSound
<1>4. SttSound(RetryReplacement(g)) /\ Flushed(RetryReplacement(g))
  <2>1. SttSound(g) /\ Flushed(g) BY <1>1, SttNextSound
  <2> HIDE DEF g
  <2> QED BY <2>1, SttRetrySound
<1>5. h \in SttRecord BY <1>2, Zenon DEF SttRecord
<1>6. /\ h.active = f.active /\ h.pending = f.pending /\ h.running = f.running
      /\ h.closing = f.closing /\ h.foreign = f.foreign /\ h.conns = f.conns
  BY <1>2, Zenon DEF SttRecord
<1>7. SttSound(h) /\ Flushed(h)
  <2> HIDE DEF h
  <2> QED BY <1>1, <1>5, <1>6 DEF SttSound, Flushed, Serving
<1>8. OnFailed(s, c, permanent) \in {s, f, Shutdown(f), RetryReplacement(g), h}
  BY <1>2, Zenon DEF OnFailed, f, n, SttRecord
<1> HIDE DEF g, h
<1> QED BY <1>1, <1>3, <1>4, <1>7, <1>8

\* The loss of one that had served.
LEMMA SttLostSound ==
  ASSUME TranscribeAssumption, NEW s, SttSound(s), Flushed(s), NEW c \in Conns, ~Lost(s, c).over
  PROVE  SttSound(Lost(s, c)) /\ Flushed(Lost(s, c))
<1> DEFINE g == [s EXCEPT !.next = NoConn]
<1>1. SttSound(g) /\ Flushed(g) BY SttNextSound
<1> HIDE DEF g
<1>3. CASE Lost(s, c) \in {s, RetryReplacement(g)} BY <1>3, <1>1, SttRetrySound
<1>4. CASE Lost(s, c) = Activate(s, s.next) /\ UnderWay(s, s.next)
  BY <1>4, SttActivateSound DEF UnderWay, SttSound, SttRecord
<1>5. CASE Lost(s, c) = ActivateNew(g) BY <1>1, <1>5, SttActivateNewSound
<1> QED BY <1>3, <1>4, <1>5, Zenon DEF Lost, g

\* What an action that changes none of these fields keeps.
LEMMA SttSameSound ==
  ASSUME NEW s, SttSound(s), NEW t \in SttRecord,
         t.active = s.active, t.pending = s.pending, t.running = s.running,
         t.closing = s.closing, t.foreign = s.foreign, t.conns = s.conns
  PROVE  SttSound(t) /\ (Flushed(s) => Flushed(t))
BY DEF SttSound, Flushed, Serving

\* One lemma per action: each keeps the invariant.
LEMMA SttStartKeeps == ASSUME TranscribeAssumption, SttInv, SttStart PROVE SttInv'
<1> DEFINE r == stt.runSeq + 1
<1> DEFINE n == [stt EXCEPT !.running = TRUE, !.runSeq = r, !.run = r,
                            !.closing = 0, !.aTries = 0, !.rTries = 0]
<1> DEFINE o == OpenConn(n)
<1> DEFINE t == [o EXCEPT !.active = o.count, !.starting = o.count]
<1>1. stt \in SttRecord /\ r \in Nat BY DEF SttInv, SttSound, SttRecord
<1>2. NewRun(stt) = n BY <1>1 DEF NewRun, SttRecord
<1>3. stt' = t /\ ~t.over BY <1>2 DEF SttStart, SttCalls
<1> HIDE DEF r
<1>4. n \in SttRecord BY <1>1, Zenon DEF SttRecord
<1>5. n.closing = 0 /\ n.foreign = stt.foreign /\ n.conns = stt.conns BY <1>1, Zenon DEF SttRecord
<1> HIDE DEF n
<1>6. SttSound(n) BY <1>4, <1>5 DEF SttInv, SttSound
<1>7. ~o.over
  <2>1. CASE n.count = MaxConns
    <3>1. o = [n EXCEPT !.over = TRUE] BY <2>1 DEF OpenConn
    <3> HIDE DEF o
    <3>2. t.over BY <1>4, <3>1 DEF SttRecord
    <3> QED BY <1>3, <3>2
  <2>2. CASE n.count # MaxConns
    <3>1. o = [n EXCEPT !.count = @ + 1, !.conns[n.count + 1] = NewConn(n.run)]
      BY <2>2 DEF OpenConn
    <3> HIDE DEF o
    <3>2. o.over = n.over /\ t.over = o.over BY <1>4, <3>1, Zenon DEF SttRecord
    <3> QED BY <1>3, <3>2
  <2> QED BY <2>1, <2>2
<1>8. /\ SttSound(o) /\ o.count \in Conns /\ ~o.conns[o.count].ready BY <1>6, <1>7, SttOpenSound
<1> HIDE DEF o
<1>9. o \in SttRecord BY <1>8 DEF SttSound
<1>10. t \in SttRecord BY <1>8, <1>9 DEF SttRecord
<1>11. /\ t.active = o.count /\ t.running = o.running
       /\ t.closing = o.closing /\ t.foreign = o.foreign /\ t.conns = o.conns
  BY <1>9, Zenon DEF SttRecord
<1> HIDE DEF t
<1> QED BY <1>3, <1>8, <1>10, <1>11 DEF SttInv, SttSound, Flushed, Serving

LEMMA SttStopKeeps == ASSUME SttInv, SttStop PROVE SttInv'
<1> DEFINE f == FlushPendingTo(stt, stt.active)
<1>2. SttSound(f) BY SttFlushSound DEF SttInv, SttSound, SttRecord
<1>3. stt' = Shutdown(f) BY DEF SttStop, SttCalls
<1> HIDE DEF f
<1> QED BY <1>2, <1>3, SttShutdownSound DEF SttInv

LEMMA SttFeedKeeps == ASSUME SttInv, SttFeedAudio PROVE SttInv'
<1>1. PICK handover \in BOOLEAN :
        /\ handover => Serving(stt, stt.next)
        /\ LET s == IF handover THEN SwitchTo(stt, stt.next) ELSE stt
           IN SttDoes([s EXCEPT !.pending = ~Serving(s, s.active)])
  BY DEF SttFeedAudio
<1> DEFINE s == IF handover THEN SwitchTo(stt, stt.next) ELSE stt
<1> DEFINE p == ~Serving(s, s.active)
<1> DEFINE t == [s EXCEPT !.pending = p]
<1>2. SttSound(s)
  <2> QED BY SttSwitchSound, <1>1 DEF SttInv, Serving, SttSound, SttRecord
<1>3. stt' = t BY <1>1 DEF SttDoes
<1> HIDE DEF s
<1>4. s \in SttRecord /\ p \in BOOLEAN BY <1>2 DEF SttSound
<1>5. p = TRUE \/ p = FALSE OBVIOUS
<1>6. p => ~Serving(s, s.active) OBVIOUS
<1>7. ~p => Serving(s, s.active) OBVIOUS
<1> HIDE DEF p
<1>8. t \in SttRecord BY <1>4 DEF SttRecord
<1>9. /\ t.active = s.active /\ t.running = s.running /\ t.pending = p
      /\ t.closing = s.closing /\ t.foreign = s.foreign /\ t.conns = s.conns
  BY <1>4 DEF SttRecord
<1> HIDE DEF t
<1> QED BY <1>2, <1>3, <1>6, <1>8, <1>9 DEF SttInv, SttSound, Flushed, Serving

LEMMA SttCredentialKeeps ==
  ASSUME NEW c \in Conns, SttInv, SttCredentialReturns(c) PROVE SttInv'
<1> DEFINE k == [stt.conns[c] EXCEPT !.sock = "connecting"]
<1>1. stt \in SttRecord /\ stt.conns[c] \in ConnRecord BY DEF SttInv, SttSound, SttRecord
<1>2. k \in ConnRecord /\ k.ready = stt.conns[c].ready /\ k.sock = "connecting"
  BY <1>1 DEF ConnRecord
<1>3. ~stt.conns[c].ready BY DEF SttCredentialReturns, SttInv, SttSound
<1>4. stt' = [stt EXCEPT !.conns[c] = k] BY <1>1 DEF SttCredentialReturns, SttDoes, SttRecord
<1>5. /\ k.ready => k.sock \notin {"none", "connecting"}
      /\ k.ready /\ k.sock = "open" => stt.conns[c].ready /\ stt.conns[c].sock = "open"
  BY <1>2, <1>3
<1> HIDE DEF k
<1> QED BY <1>2, <1>4, <1>5, SttConnChanges DEF SttInv

LEMMA SttOpensKeeps ==
  ASSUME NEW c \in Conns, SttInv, SttSocketOpens(c) PROVE SttInv'
<1> DEFINE k == [stt.conns[c] EXCEPT !.sock = "open"]
<1>1. stt \in SttRecord /\ stt.conns[c] \in ConnRecord BY DEF SttInv, SttSound, SttRecord
<1>2. k \in ConnRecord /\ k.ready = stt.conns[c].ready /\ k.sock = "open" BY <1>1 DEF ConnRecord
<1>3. ~stt.conns[c].ready BY DEF SttSocketOpens, SttInv, SttSound
<1>4. stt' = [stt EXCEPT !.conns[c] = k] BY <1>1 DEF SttSocketOpens, SttDoes, SttRecord
<1>5. /\ k.ready => k.sock \notin {"none", "connecting"}
      /\ k.ready /\ k.sock = "open" => stt.conns[c].ready /\ stt.conns[c].sock = "open"
  BY <1>2, <1>3
<1> HIDE DEF k
<1> QED BY <1>2, <1>4, <1>5, SttConnChanges DEF SttInv

LEMMA SttSetupKeeps ==
  ASSUME NEW c \in Conns, SttInv, SetupCompletes(c) PROVE SttInv'
<1> DEFINE k == [stt.conns[c] EXCEPT !.ready = TRUE]
<1> DEFINE e == [stt EXCEPT !.conns[c] = k]
<1> DEFINE n == IF stt.starting = c THEN NoConn ELSE stt.starting
<1> DEFINE s == [e EXCEPT !.starting = n]
<1>1. stt \in SttRecord /\ stt.conns[c] \in ConnRecord BY DEF SttInv, SttSound, SttRecord
<1>2. k \in ConnRecord /\ k.ready /\ k.sock = stt.conns[c].sock BY <1>1 DEF ConnRecord
<1>4. stt' = IF c = stt.next /\ ~(stt.active # NoConn /\ stt.conns[stt.active].ready)
             THEN SwitchTo(s, c)
             ELSE IF c = stt.active THEN OnActiveReady(s, c) ELSE s
  BY <1>1 DEF SetupCompletes, SttDoes, SttRecord
<1>5. n \in Conns \cup {NoConn} BY <1>1 DEF SttRecord
<1>6. k.ready => k.sock \notin {"none", "connecting"} BY <1>2 DEF SetupCompletes
<1> HIDE DEF k, n
<1>7. /\ SttSound(e) /\ e.active = stt.active /\ e.pending = stt.pending
      /\ \A d \in Conns : d # c => e.conns[d] = stt.conns[d]
  BY <1>2, <1>6, SttConnChanges DEF SttInv
<1> HIDE DEF e
<1>8. e \in SttRecord BY <1>7 DEF SttSound
<1>9. s \in SttRecord BY <1>5, <1>8 DEF SttRecord
<1>10. /\ s.active = e.active /\ s.pending = e.pending /\ s.running = e.running
       /\ s.closing = e.closing /\ s.foreign = e.foreign /\ s.conns = e.conns
  BY <1>8 DEF SttRecord
<1> HIDE DEF s
<1>11. SttSound(s) BY <1>7, <1>9, <1>10, SttSameSound
<1>12. c # stt.active => Flushed(s) BY <1>1, <1>7, <1>10 DEF SttRecord, SttInv, Flushed, Serving
<1> QED BY <1>4, <1>7, <1>10, <1>11, <1>12, SttSwitchSound, SttReadySound DEF SttInv

LEMMA SttTranscriptKeeps ==
  ASSUME NEW c \in Conns, SttInv, TranscriptArrives(c) PROVE SttInv'
<1> DEFINE p == stt.foreign \/ (stt.running /\ stt.conns[c].run # stt.run)
<1>1. stt \in SttRecord BY DEF SttInv, SttSound
<1>2. p = FALSE BY DEF TranscriptArrives, SttInv, SttSound
<1>3. stt' = [stt EXCEPT !.foreign = p] BY <1>1 DEF TranscriptArrives, SttDoes, SttRecord
<1> HIDE DEF p
<1>5. stt' = stt BY <1>1, <1>2, <1>3 DEF SttInv, SttSound, SttRecord
<1> QED BY <1>5 DEF SttInv

LEMMA SttFailsKeeps ==
  ASSUME TranscribeAssumption, NEW c \in Conns, SttInv,
         SttCredentialFails(c) \/ SocketErrors(c) \/ SetupTimesOut(c)
  PROVE  SttInv'
<1>1. PICK permanent \in BOOLEAN : stt' = OnFailed(stt, c, permanent)
  BY DEF SttCredentialFails, SocketErrors, SetupTimesOut, SttDoes
<1> QED BY <1>1, SttFailedSound DEF SttInv

LEMMA SttClosesKeeps ==
  ASSUME TranscribeAssumption, NEW c \in Conns, SttInv, SttSocketCloses(c) PROVE SttInv'
<1> DEFINE k == [stt.conns[c] EXCEPT !.sock = "closed"]
<1> DEFINE s == [stt EXCEPT !.conns[c] = k]
<1> DEFINE f == OnFailed(s, c, FALSE)
<1> DEFINE m == IF f.conns[c].reported = 0 THEN 1 ELSE f.conns[c].reported
<1> DEFINE h == [f.conns[c] EXCEPT !.reported = m]
<1> DEFINE r == [f EXCEPT !.conns[c] = h]
<1>1. stt \in SttRecord /\ stt.conns[c] \in ConnRecord BY DEF SttInv, SttSound, SttRecord
<1>2. k \in ConnRecord /\ k.ready = stt.conns[c].ready /\ k.sock = "closed" BY <1>1 DEF ConnRecord
<1>3. /\ k.ready => k.sock \notin {"none", "connecting"}
      /\ k.ready /\ k.sock = "open" => stt.conns[c].ready /\ stt.conns[c].sock = "open"
  BY <1>2
<1>5. SttDoes(IF stt.conns[c].ready THEN Lost([f EXCEPT !.conns[c].reported = IF @ = 0 THEN 1 ELSE @], c)
              ELSE [f EXCEPT !.conns[c].reported = IF @ = 0 THEN 1 ELSE @])
  BY <1>1 DEF SttSocketCloses, SttRecord
<1> HIDE DEF k
<1>6. SttSound(s) /\ Flushed(s) BY <1>2, <1>3, SttConnChanges DEF SttInv
<1> HIDE DEF s
<1>7. SttSound(f) /\ Flushed(f) BY <1>6, SttFailedSound
<1> HIDE DEF f
<1>8. f \in SttRecord /\ f.conns[c] \in ConnRecord BY <1>7 DEF SttSound, SttRecord
<1>9. r = [f EXCEPT !.conns[c].reported = IF @ = 0 THEN 1 ELSE @] /\ m \in Nat
  BY <1>8 DEF SttRecord, ConnRecord
<1> HIDE DEF m
<1>10. h \in ConnRecord /\ h.ready = f.conns[c].ready /\ h.sock = f.conns[c].sock
  BY <1>8, <1>9 DEF ConnRecord
<1>11. /\ h.ready => h.sock \notin {"none", "connecting"}
       /\ h.ready /\ h.sock = "open" => f.conns[c].ready /\ f.conns[c].sock = "open"
  BY <1>7, <1>10 DEF SttSound
<1> HIDE DEF h
<1>12. SttSound(r) /\ Flushed(r) BY <1>7, <1>10, <1>11, SttConnChanges
<1>13. stt' = (IF stt.conns[c].ready THEN Lost(r, c) ELSE r) /\ ~stt'.over
  BY <1>5, <1>9 DEF SttDoes
<1> HIDE DEF r
<1> QED BY <1>12, <1>13, SttLostSound DEF SttInv

LEMMA SttExpiresKeeps ==
  ASSUME TranscribeAssumption, NEW c \in Conns, SttInv, SttCredentialExpires(c) PROVE SttInv'
<1> DEFINE s == CloseConn(stt, c)
<1>1. SttSound(s) /\ Flushed(s) BY SttCloseSound DEF SttInv
<1>2. stt' = Lost(s, c) /\ ~stt'.over BY DEF SttCredentialExpires, SttDoes
<1> HIDE DEF s
<1> QED BY <1>1, <1>2, SttLostSound DEF SttInv

LEMMA SttDrainKeeps == ASSUME NEW c \in Conns, SttInv, DrainEnds(c) PROVE SttInv'
<1> QED BY SttCloseSound DEF SttInv, DrainEnds, SttDoes

\* The new connection of an open() is the one that is to come next.
LEMMA SttOpenNextSound ==
  ASSUME TranscribeAssumption, NEW s, SttSound(s), Flushed(s),
         NEW t, t = [OpenConn(s) EXCEPT !.next = OpenConn(s).count], ~t.over
  PROVE  SttSound(t) /\ Flushed(t)
<1> DEFINE o == OpenConn(s)
<1>1. s \in SttRecord BY DEF SttSound
<1>2. ~o.over
  <2>1. CASE s.count = MaxConns
    <3>1. o = [s EXCEPT !.over = TRUE] BY <2>1 DEF OpenConn
    <3>3. t = [o EXCEPT !.next = o.count] OBVIOUS
    <3> HIDE DEF o
    <3>2. t.over BY <1>1, <3>1, <3>3 DEF SttRecord
    <3> QED BY <3>2
  <2>2. CASE s.count # MaxConns
    <3>1. o = [s EXCEPT !.count = @ + 1, !.conns[s.count + 1] = NewConn(s.run)]
      BY <2>2 DEF OpenConn
    <3>3. t = [o EXCEPT !.next = o.count] OBVIOUS
    <3> HIDE DEF o
    <3>2. o.over = s.over /\ t.over = o.over BY <1>1, <3>1, <3>3, Zenon DEF SttRecord
    <3> QED BY <3>2
  <2> QED BY <2>1, <2>2
<1>3. t = [o EXCEPT !.next = o.count] OBVIOUS
<1>4. SttSound(o) /\ Flushed(o) /\ o.count \in Conns BY <1>2, SttOpenSound
<1> HIDE DEF o
<1> QED BY <1>3, <1>4, SttNextSound

LEMMA SttRotateKeeps == ASSUME TranscribeAssumption, SttInv, RotateTimerFires PROVE SttInv'
<1> DEFINE s == [stt EXCEPT !.rotate = FALSE, !.rTries = 0]
<1> DEFINE t == [OpenConn(s) EXCEPT !.next = OpenConn(s).count]
<1>1. stt \in SttRecord BY DEF SttInv, SttSound
<1>2. s \in SttRecord BY <1>1, Zenon DEF SttRecord
<1>3. /\ s.active = stt.active /\ s.pending = stt.pending /\ s.running = stt.running
      /\ s.closing = stt.closing /\ s.foreign = stt.foreign /\ s.conns = stt.conns
  BY <1>1, Zenon DEF SttRecord
<1>4. stt' = t /\ ~t.over BY DEF RotateTimerFires, SttDoes
<1> HIDE DEF s
<1> QED BY <1>4, SttOpenNextSound, <1>2, <1>3, SttSameSound DEF SttInv

LEMMA SttRetryKeeps == ASSUME TranscribeAssumption, SttInv, RetryTimerFires PROVE SttInv'
<1> DEFINE s == [stt EXCEPT !.retry = "none"]
<1> DEFINE t == [OpenConn(s) EXCEPT !.next = OpenConn(s).count]
<1>1. stt \in SttRecord BY DEF SttInv, SttSound
<1>2. s \in SttRecord BY <1>1, Zenon DEF SttRecord
<1>3. /\ s.active = stt.active /\ s.pending = stt.pending /\ s.running = stt.running
      /\ s.closing = stt.closing /\ s.foreign = stt.foreign /\ s.conns = stt.conns
  BY <1>1, Zenon DEF SttRecord
<1>4. stt' \in {ActivateNew(s), s, t} /\ ~stt'.over BY DEF RetryTimerFires, SttDoes
<1> HIDE DEF s
<1>5. SttSound(s) /\ Flushed(s) BY <1>2, <1>3, SttSameSound DEF SttInv
<1>6. CASE stt' = ActivateNew(s) BY <1>4, <1>5, <1>6, SttActivateNewSound DEF SttInv
<1>7. CASE stt' = t BY <1>4, <1>5, <1>7, SttOpenNextSound DEF SttInv
<1> QED BY <1>4, <1>5, <1>6, <1>7 DEF SttInv

LEMMA SttEndsKeeps == ASSUME NEW run, SttInv, ShutdownEnds(run) PROVE SttInv'
<1> DEFINE e == stt.ending \ {run}
<1> DEFINE c == IF stt.closing = run THEN 0 ELSE stt.closing
<1>1. stt \in SttRecord BY DEF SttInv, SttSound
<1>2. e \in SUBSET Nat /\ c \in Nat /\ c \in {0, stt.closing} BY <1>1 DEF SttRecord
<1>3. stt' = [stt EXCEPT !.ending = e, !.closing = c] BY <1>1 DEF ShutdownEnds, SttDoes, SttRecord
<1> HIDE DEF e, c
<1>4. stt' \in SttRecord BY <1>1, <1>2, <1>3, Zenon DEF SttRecord
<1>5. /\ stt'.active = stt.active /\ stt'.pending = stt.pending /\ stt'.running = stt.running
      /\ stt'.closing = c /\ stt'.foreign = stt.foreign /\ stt'.conns = stt.conns
  BY <1>1, <1>3, Zenon DEF SttRecord
<1> QED BY <1>2, <1>4, <1>5 DEF SttInv, SttSound, Flushed, Serving

\* The invariant of the rotating provider holds in every state.
THEOREM SttInductive == SttSpec => []SttInv
<1>1. SttInit => SttInv
  <2> SUFFICES ASSUME SttInit PROVE SttInv OBVIOUS
  <2>1. /\ 0 \in 0 .. MaxConns /\ 0 \in Nat /\ NewConn(0) \in ConnRecord /\ ~NewConn(0).ready
        /\ NoConn \in Conns \cup {NoConn}
    BY TranscribeAssumption, SttNewConnSound DEF TranscribeAssumption
  <2>2. [c \in Conns |-> NewConn(0)] \in [Conns -> ConnRecord] BY <2>1
  <2>3. stt \in SttRecord BY <2>1, <2>2, Zenon DEF SttInit, SttRecord
  <2> QED BY <2>1, <2>3 DEF SttInv, SttSound, Flushed, Serving, SttInit
<1>2. SttInv /\ [SttNext]_sttVars => SttInv'
  <2> SUFFICES ASSUME SttInv, [SttNext]_sttVars PROVE SttInv' OBVIOUS
  <2> USE TranscribeAssumption
  <2>1. CASE SttStart BY <2>1, SttStartKeeps
  <2>2. CASE SttStop BY <2>2, SttStopKeeps
  <2>3. CASE SttFeedAudio BY <2>3, SttFeedKeeps
  <2>4. CASE RotateTimerFires BY <2>4, SttRotateKeeps
  <2>5. CASE RetryTimerFires BY <2>5, SttRetryKeeps
  <2>6. ASSUME NEW c \in Conns, SttCredentialReturns(c) PROVE SttInv' BY <2>6, SttCredentialKeeps
  <2>7. ASSUME NEW c \in Conns, SttSocketOpens(c) PROVE SttInv' BY <2>7, SttOpensKeeps
  <2>8. ASSUME NEW c \in Conns, SetupCompletes(c) PROVE SttInv' BY <2>8, SttSetupKeeps
  <2>9. ASSUME NEW c \in Conns, TranscriptArrives(c) PROVE SttInv' BY <2>9, SttTranscriptKeeps
  <2>10. ASSUME NEW c \in Conns, SttCredentialFails(c) \/ SocketErrors(c) \/ SetupTimesOut(c)
         PROVE  SttInv'
    BY <2>10, SttFailsKeeps
  <2>11. ASSUME NEW c \in Conns, SttSocketCloses(c) PROVE SttInv' BY <2>11, SttClosesKeeps
  <2>12. ASSUME NEW c \in Conns, SttCredentialExpires(c) PROVE SttInv' BY <2>12, SttExpiresKeeps
  <2>13. ASSUME NEW c \in Conns, DrainEnds(c) PROVE SttInv' BY <2>13, SttDrainKeeps
  <2>14. ASSUME NEW run, ShutdownEnds(run) PROVE SttInv' BY <2>14, SttEndsKeeps
  <2>15. CASE UNCHANGED sttVars BY <2>15 DEF sttVars, SttInv, SttSound, Flushed, Serving
  <2> QED BY <2>1, <2>2, <2>3, <2>4, <2>5, <2>6, <2>7, <2>8, <2>9, <2>10, <2>11, <2>12,
            <2>13, <2>14, <2>15 DEF SttNext
<1> QED BY <1>1, <1>2, PTL DEF SttSpec

\* No audio is left waiting while a connection can take it, and none of it crosses from
\* one run into the next: RotationIsSeamless for any number of connections and retries.
THEOREM RotationSeamless == SttSpec => []RotationIsSeamless
<1>1. SttInv => RotationIsSeamless
  BY DEF SttInv, SttSound, Flushed, RotationIsSeamless, AudioIsFlushed, FinalsAreOfThisRun
<1> QED BY <1>1, SttInductive, PTL

-----------------------------------------------------------------------------
(* The OpenAI realtime transport.  Events on a wire are of the response       *)
(* created last before them, and a response that is not done has its end on   *)
(* the wire, or goes on at the provider.                                      *)

EventKinds ==
  {"session", "updated", "created", "call", "completed", "cancelled", "speech", "refused",
   "error", "close"}

Events == [kind : EventKinds, id : Nat]

Ends == {"completed", "cancelled"}

\* No response is created among the events from i to j.
NoneCreated(d, i, j) == \A m \in i..j : d[m].kind # "created"

\* The response of the event at i is the last one created before it: on the wire,
\* or the transport's own.
Current(d, i, id, response) ==
  \/ id = response /\ NoneCreated(d, 1, i - 1)
  \/ \E j \in 1..(i - 1) : d[j].kind = "created" /\ d[j].id = id /\ NoneCreated(d, j + 1, i - 1)

\* The response that was created at j, or earlier than the wire reaches, goes on or
\* has its end on the wire, before another is created.
Lasts(d, j, id, active, open) ==
  \/ (active = id \/ ~open) /\ NoneCreated(d, j + 1, Len(d))
  \/ \E i \in (j + 1)..Len(d) :
       d[i].kind \in Ends /\ d[i].id = id /\ NoneCreated(d, j + 1, i - 1)

\* What is on its way to the transport, and the response that goes on.
Wire(d, active, open, response, max) ==
  /\ d \in Seq(Events) /\ active \in 0..max
  /\ open \in BOOLEAN /\ (~open => active = 0)
  /\ \A i \in 1..Len(d) : d[i].kind \in {"created", "call"} \cup Ends => d[i].id \in 1..max
  /\ \A i \in 1..Len(d) : d[i].kind \in {"call"} \cup Ends => Current(d, i, d[i].id, response)
  /\ active # 0 => Current(d, Len(d) + 1, active, response)
  /\ \A j \in 1..Len(d) : d[j].kind = "created" => Lasts(d, j, d[j].id, active, open)
  /\ \A i \in 1..Len(d) : d[i].kind \in Ends => d[i].id # active

WireOf(o, max) ==
  Wire(o.net[o.rt].down, o.net[o.rt].active, o.net[o.rt].open, o.response, max)

\* The transport's response goes on, or its end is on the wire.
Undone(o) == Lasts(o.net[o.rt].down, 0, o.response, o.net[o.rt].active, o.net[o.rt].open)

Waits == [over : BOOLEAN, excused : BOOLEAN, of : Nat \cup {-1}]

Names(wait) == wait.of \notin {-1, 0}

OaiFields ==
  {"providerOwned", "rt", "connected", "dial", "generating", "suppressAudio", "quiesced",
   "waiter", "calls", "whenIdle", "interrupts", "direct", "updates", "net", "response", "mixed",
   "stale", "cut", "overlap"}

\* Calls that were collected are of the transport's response.
Collected(o) ==
  /\ ~o.mixed /\ o.calls \in Seq(Nat)
  /\ \A i \in 1..Len(o.calls) : o.calls[i] = o.response

\* A wait that is not over is for the transport's response, which is not done; one
\* that a response's end was the end of is for a response that does not go on.
Awaited(o) ==
  \A i \in 1..Len(o.interrupts) :
    LET wait == o.interrupts[i].wait IN
    Names(wait) =>
      /\ ~wait.over => o.rt # 0 /\ wait.of = o.response /\ Undone(o)
      /\ o.rt # 0 /\ wait.over /\ ~wait.excused => o.net[o.rt].active # wait.of

Sock(n) ==
  /\ DOMAIN n = {"open", "up", "down", "active"}
  /\ n.open \in BOOLEAN /\ n.down \in Seq(Events) /\ n.active \in Nat

Queued == [result : [id : Results, scheduling : Schedulings], wait : Waits]

OaiFramed(o) ==
  /\ DOMAIN o = OaiFields /\ DOMAIN o.net = Sockets /\ DOMAIN o.dial = {"sock", "phase"}
  /\ o.rt \in {0} \cup Sockets /\ \A k \in Sockets : Sock(o.net[k])
  /\ o.interrupts \in Seq(Queued) /\ o.response \in Nat
  /\ o.stale \in BOOLEAN /\ o.generating \in BOOLEAN /\ o.waiter \in BOOLEAN

\* The sockets that were never dialed.
Pristine(o, sockets) ==
  /\ sockets \in Nat /\ o.rt <= sockets
  /\ \A k \in Sockets : k > sockets =>
       ~o.net[k].open /\ o.net[k].active = 0 /\ o.net[k].down = <<>> /\ o.dial.sock # k

\* Unless a replaced socket has spoken.
Sequenced(o, responses) ==
  /\ o.response \in 0..responses
  /\ \A i \in 1..Len(o.interrupts) : o.interrupts[i].wait.of <= responses
  /\ o.generating => o.rt # 0 /\ o.response # 0 /\ Undone(o)
  /\ o.rt # 0 => WireOf(o, responses)
  /\ Collected(o) /\ Awaited(o)

\* A result that waits for idle waits for somebody.
IdleSound(o) ==
  o.whenIdle # <<>> => o.rt # 0 /\ (o.generating \/ o.cut \/ o.quiesced)

\* The bounds that have been used.
Books == [sockets : Nat, responses : Nat, updates : Nat, host : Nat, faults : Nat]

OaiSound ==
  /\ OaiFramed(openai) /\ Pristine(openai, used.sockets) /\ used \in Books
  /\ ~openai.stale => Sequenced(openai, used.responses)
  /\ ~openai.overlap /\ IdleSound(openai)

(* The wire of one socket. *)

\* A socket that was just opened.
LEMMA WireEmpty ==
  ASSUME NEW response, NEW max \in Nat, NEW open \in BOOLEAN
  PROVE  Wire(<<>>, 0, open, response, max)
<1> QED BY EmptySeq DEF Wire

\* A sequence that another one begins.
Longer(d, e) == /\ Len(e) \in Nat /\ Len(d) \in Nat /\ Len(d) <= Len(e)
                /\ \A i \in 1..Len(d) : e[i] = d[i]

\* What is current stays so, whatever comes after it.
LEMMA CurrentLonger ==
  ASSUME NEW d, NEW e, Longer(d, e), NEW i \in 1..(Len(d) + 1), NEW id, NEW response,
         Current(d, i, id, response)
  PROVE  Current(e, i, id, response)
<1>1. \A m \in 1..(i - 1) : m \in 1..Len(d) /\ e[m] = d[m] BY DEF Longer
<1>2. CASE id = response /\ NoneCreated(d, 1, i - 1) BY <1>1, <1>2 DEF Current, NoneCreated
<1>3. CASE \E j \in 1..(i - 1) :
             d[j].kind = "created" /\ d[j].id = id /\ NoneCreated(d, j + 1, i - 1)
  <2>1. PICK j \in 1..(i - 1) :
          d[j].kind = "created" /\ d[j].id = id /\ NoneCreated(d, j + 1, i - 1)
    BY <1>3
  <2>2. NoneCreated(e, j + 1, i - 1)
    <3> SUFFICES ASSUME NEW m \in (j + 1)..(i - 1) PROVE e[m].kind # "created" BY DEF NoneCreated
    <3> QED BY <1>1, <2>1 DEF NoneCreated, Longer
  <2> QED BY <1>1, <2>1, <2>2 DEF Current
<1> QED BY <1>2, <1>3 DEF Current

\* The last event was no creation: what was current still is.
LEMMA CurrentOn ==
  ASSUME NEW d, NEW e, Longer(d, e), Len(e) = Len(d) + 1, e[Len(e)].kind # "created",
         NEW id, NEW response, Current(d, Len(d) + 1, id, response)
  PROVE  Current(e, Len(e) + 1, id, response)
<1>1. \A m \in 1..Len(e) : (m \in 1..Len(d) /\ e[m] = d[m]) \/ m = Len(e) BY DEF Longer
<1>2. CASE id = response /\ NoneCreated(d, 1, Len(d))
  BY <1>1, <1>2 DEF Current, NoneCreated, Longer
<1>3. CASE \E j \in 1..Len(d) :
             d[j].kind = "created" /\ d[j].id = id /\ NoneCreated(d, j + 1, Len(d))
  <2>1. PICK j \in 1..Len(d) :
          d[j].kind = "created" /\ d[j].id = id /\ NoneCreated(d, j + 1, Len(d))
    BY <1>3
  <2>2. NoneCreated(e, j + 1, Len(e))
    <3> SUFFICES ASSUME NEW m \in (j + 1)..Len(e) PROVE e[m].kind # "created" BY DEF NoneCreated
    <3> QED BY <1>1, <2>1 DEF NoneCreated, Longer
  <2> QED BY <2>1, <2>2 DEF Current, Longer
<1> QED BY <1>2, <1>3 DEF Longer, Current

\* A response that goes on goes on while nothing is created, or ends.
LEMMA LastsLonger ==
  ASSUME NEW d, NEW e, Longer(d, e), Len(e) = Len(d) + 1, NEW j \in 0..Len(d), NEW id,
         NEW active, NEW open, Lasts(d, j, id, active, open), NEW active2, NEW open2,
         \/ e[Len(e)].kind # "created" /\ (active = id \/ ~open => active2 = id \/ ~open2)
         \/ e[Len(e)].kind \in Ends /\ (active = id \/ ~open => e[Len(e)].id = id)
         \/ ~(active = id \/ ~open)
  PROVE  Lasts(e, j, id, active2, open2)
<1>1. /\ \A m \in 1..Len(e) : (m \in 1..Len(d) /\ e[m] = d[m]) \/ m = Len(e)
      /\ Len(d) \in Nat /\ Len(e) \in Nat /\ j \in Nat
  BY DEF Longer
<1>2. CASE (active = id \/ ~open) /\ NoneCreated(d, j + 1, Len(d))
  <2>2. NoneCreated(e, j + 1, Len(e) - 1) BY <1>2, <1>1 DEF NoneCreated
  <2>3. CASE e[Len(e)].kind \in Ends /\ e[Len(e)].id = id BY <1>1, <2>2, <2>3 DEF Lasts
  <2>4. CASE e[Len(e)].kind # "created" /\ (active2 = id \/ ~open2)
    <3>1. NoneCreated(e, j + 1, Len(e))
      <4> SUFFICES ASSUME NEW m \in (j + 1)..Len(e) PROVE e[m].kind # "created" BY DEF NoneCreated
      <4> QED BY <2>2, <2>4, <1>1 DEF NoneCreated
    <3> QED BY <2>4, <3>1 DEF Lasts
  <2> QED BY <1>2, <2>3, <2>4
<1>3. CASE \E i \in (j + 1)..Len(d) :
             d[i].kind \in Ends /\ d[i].id = id /\ NoneCreated(d, j + 1, i - 1)
  <2>1. PICK i \in (j + 1)..Len(d) :
          d[i].kind \in Ends /\ d[i].id = id /\ NoneCreated(d, j + 1, i - 1)
    BY <1>3
  <2>2. i \in (j + 1)..Len(e) /\ i \in 1..Len(d) /\ e[i] = d[i] BY <1>1 DEF Longer
  <2>3. NoneCreated(e, j + 1, i - 1)
    <3> SUFFICES ASSUME NEW m \in (j + 1)..(i - 1) PROVE e[m].kind # "created" BY DEF NoneCreated
    <3> QED BY <2>1, <1>1 DEF NoneCreated, Longer
  <2> QED BY <2>1, <2>2, <2>3 DEF Lasts
<1> QED BY <1>2, <1>3 DEF Lasts

\* One more event.
LEMMA OneMore ==
  ASSUME NEW d \in Seq(Events), NEW x \in Events
  PROVE  LET e == Append(d, x) IN
         /\ e \in Seq(Events) /\ Longer(d, e) /\ Len(e) = Len(d) + 1 /\ e[Len(e)] = x
         /\ \A i \in 1..Len(e) : (i \in 1..Len(d) /\ e[i] = d[i]) \/ (i = Len(d) + 1 /\ e[i] = x)
<1> DEFINE e == Append(d, x)
<1>1. /\ e \in Seq(Events) /\ Len(e) = Len(d) + 1 /\ Len(d) \in Nat
      /\ \A i \in 1..Len(d) : e[i] = d[i]
      /\ e[Len(d) + 1] = x
  BY AppendProperties, LenProperties
<1> HIDE DEF e
<1>3. Longer(d, e) BY <1>1 DEF Longer
<1> QED BY <1>1, <1>3 DEF e

\* What is no creation, no call and no end disturbs nothing; so may a socket close.
LEMMA WireQuiet ==
  ASSUME NEW d, NEW active, NEW open, NEW response, NEW max \in Nat,
         Wire(d, active, open, response, max), NEW x \in Events,
         x.kind \notin {"created", "call"} \cup Ends,
         NEW active2, NEW open2, (active2 = active /\ open2 = open)
           \/ (active2 = 0 /\ open2 = FALSE)
  PROVE  /\ Wire(Append(d, x), active2, open2, response, max)
         /\ \A id : Lasts(d, 0, id, active, open) => Lasts(Append(d, x), 0, id, active2, open2)
<1> DEFINE e == Append(d, x)
<1>1. d \in Seq(Events) /\ active \in 0..max /\ open \in BOOLEAN BY DEF Wire
<1>2. /\ e \in Seq(Events) /\ Longer(d, e) /\ Len(e) = Len(d) + 1 /\ e[Len(e)] = x
      /\ \A i \in 1..Len(e) : (i \in 1..Len(d) /\ e[i] = d[i]) \/ (i = Len(d) + 1 /\ e[i] = x)
      /\ Len(d) \in Nat
  BY <1>1, OneMore, LenProperties
<1> HIDE DEF e
<1>3. x.kind # "created" OBVIOUS
<1>4. \A j \in 0..Len(d) : \A id :
        Lasts(d, j, id, active, open) => Lasts(e, j, id, active2, open2)
  <2> SUFFICES ASSUME NEW j \in 0..Len(d), NEW id, Lasts(d, j, id, active, open)
               PROVE  Lasts(e, j, id, active2, open2)
    OBVIOUS
  <2> QED BY <1>2, <1>3, LastsLonger
<1>5. active2 \in 0..max /\ open2 \in BOOLEAN /\ (~open2 => active2 = 0)
  <2>1. CASE active2 = active /\ open2 = open BY <1>1, <2>1 DEF Wire
  <2>2. CASE active2 = 0 /\ open2 = FALSE
    <3>1. 0 \in 0..max OBVIOUS
    <3> QED BY <2>2, <3>1
  <2> QED BY <2>1, <2>2
<1>6. \A i \in 1..Len(e) : e[i].kind \in {"created", "call"} \cup Ends => e[i].id \in 1..max
  BY <1>2 DEF Wire
<1>7. \A i \in 1..Len(e) : e[i].kind \in {"call"} \cup Ends => Current(e, i, e[i].id, response)
  <2> SUFFICES ASSUME NEW i \in 1..Len(d), d[i].kind \in {"call"} \cup Ends, e[i] = d[i]
               PROVE  Current(e, i, d[i].id, response)
    BY <1>2
  <2> QED BY <1>2, CurrentLonger DEF Wire
<1>8. active2 # 0 => Current(e, Len(e) + 1, active2, response)
  <2> SUFFICES ASSUME active2 # 0, active2 = active PROVE Current(e, Len(e) + 1, active, response)
    OBVIOUS
  <2> QED BY <1>2, <1>3, CurrentOn DEF Wire
<1>9. \A j \in 1..Len(e) : e[j].kind = "created" => Lasts(e, j, e[j].id, active2, open2)
  <2> SUFFICES ASSUME NEW j \in 1..Len(d), d[j].kind = "created", e[j] = d[j]
               PROVE  Lasts(e, j, d[j].id, active2, open2)
    BY <1>2, <1>3
  <2> QED BY <1>4, <1>2 DEF Wire
<1>10. \A i \in 1..Len(e) : e[i].kind \in Ends => e[i].id # active2
  <2> SUFFICES ASSUME NEW i \in 1..Len(d), d[i].kind \in Ends, e[i] = d[i]
               PROVE  d[i].id # active2
    BY <1>2
  <2> QED BY DEF Wire
<1>11. Wire(e, active2, open2, response, max) BY <1>2, <1>5, <1>6, <1>7, <1>8, <1>9, <1>10 DEF Wire
<1>12. 0 \in 0..Len(d) BY <1>2
<1> QED BY <1>4, <1>11, <1>12 DEF e

\* A call of the response that goes on.
LEMMA WireCall ==
  ASSUME NEW d, NEW active, NEW open, NEW response, NEW max \in Nat,
         Wire(d, active, open, response, max), active # 0, NEW x \in Events, x.kind = "call",
         x.id = active
  PROVE  /\ Wire(Append(d, x), active, open, response, max)
         /\ \A id : Lasts(d, 0, id, active, open) => Lasts(Append(d, x), 0, id, active, open)
<1> DEFINE e == Append(d, x)
<1>1. d \in Seq(Events) /\ active \in 0..max /\ open \in BOOLEAN /\ (~open => active = 0)
  BY DEF Wire
<1>2. /\ e \in Seq(Events) /\ Longer(d, e) /\ Len(e) = Len(d) + 1 /\ e[Len(e)] = x
      /\ \A i \in 1..Len(e) : (i \in 1..Len(d) /\ e[i] = d[i]) \/ (i = Len(d) + 1 /\ e[i] = x)
      /\ Len(d) \in Nat
  BY <1>1, OneMore, LenProperties
<1> HIDE DEF e
<1>3. x.kind # "created" /\ x.kind \notin Ends BY DEF Ends
<1>4. \A j \in 0..Len(d) : \A id :
        Lasts(d, j, id, active, open) => Lasts(e, j, id, active, open)
  BY <1>2, <1>3, LastsLonger
<1>5. \A i \in 1..Len(e) : e[i].kind \in {"created", "call"} \cup Ends => e[i].id \in 1..max
  BY <1>1, <1>2 DEF Wire
<1>6. Current(d, Len(d) + 1, active, response) BY DEF Wire
<1>7. \A i \in 1..Len(e) : e[i].kind \in {"call"} \cup Ends => Current(e, i, e[i].id, response)
  <2> SUFFICES ASSUME NEW i \in 1..Len(e), e[i].kind \in {"call"} \cup Ends
               PROVE  Current(e, i, e[i].id, response)
    OBVIOUS
  <2>1. CASE i \in 1..Len(d) /\ e[i] = d[i] BY <1>2, <2>1, CurrentLonger DEF Wire
  <2>2. CASE i = Len(d) + 1 /\ e[i] = x BY <1>2, <2>2, <1>6, CurrentLonger
  <2> QED BY <1>2, <2>1, <2>2
<1>8. Current(e, Len(e) + 1, active, response) BY <1>2, <1>3, <1>6, CurrentOn
<1>9. \A j \in 1..Len(e) : e[j].kind = "created" => Lasts(e, j, e[j].id, active, open)
  <2> SUFFICES ASSUME NEW j \in 1..Len(d), d[j].kind = "created", e[j] = d[j]
               PROVE  Lasts(e, j, d[j].id, active, open)
    BY <1>2, <1>3
  <2> QED BY <1>4, <1>2 DEF Wire
<1>11. Wire(e, active, open, response, max) BY <1>1, <1>2, <1>5, <1>7, <1>8, <1>9, <1>3 DEF Wire
<1>12. 0 \in 0..Len(d) BY <1>2
<1> QED BY <1>4, <1>11, <1>12 DEF e

\* The response that goes on ends.
LEMMA WireDone ==
  ASSUME NEW d, NEW active, NEW open, NEW response, NEW max \in Nat,
         Wire(d, active, open, response, max), active # 0, NEW x \in Events, x.kind \in Ends,
         x.id = active
  PROVE  /\ Wire(Append(d, x), 0, open, response, max)
         /\ \A id : Lasts(d, 0, id, active, open) => Lasts(Append(d, x), 0, id, 0, open)
<1> DEFINE e == Append(d, x)
<1>1. d \in Seq(Events) /\ active \in 0..max /\ open \in BOOLEAN /\ (~open => active = 0)
  BY DEF Wire
<1>2. /\ e \in Seq(Events) /\ Longer(d, e) /\ Len(e) = Len(d) + 1 /\ e[Len(e)] = x
      /\ \A i \in 1..Len(e) : (i \in 1..Len(d) /\ e[i] = d[i]) \/ (i = Len(d) + 1 /\ e[i] = x)
      /\ Len(d) \in Nat
  BY <1>1, OneMore, LenProperties
<1> HIDE DEF e
<1>3. x.kind # "created" /\ open = TRUE BY <1>1 DEF Ends
<1>4. \A j \in 0..Len(d) : \A id :
        Lasts(d, j, id, active, open) => Lasts(e, j, id, 0, open)
  <2> SUFFICES ASSUME NEW j \in 0..Len(d), NEW id, Lasts(d, j, id, active, open)
               PROVE  Lasts(e, j, id, 0, open)
    OBVIOUS
  <2>1. active = id \/ ~open => e[Len(e)].id = id BY <1>2, <1>3
  <2> QED BY <1>2, <2>1, LastsLonger
<1>5. \A i \in 1..Len(e) : e[i].kind \in {"created", "call"} \cup Ends => e[i].id \in 1..max
  BY <1>1, <1>2 DEF Wire
<1>6. Current(d, Len(d) + 1, active, response) BY DEF Wire
<1>7. \A i \in 1..Len(e) : e[i].kind \in {"call"} \cup Ends => Current(e, i, e[i].id, response)
  <2> SUFFICES ASSUME NEW i \in 1..Len(e), e[i].kind \in {"call"} \cup Ends
               PROVE  Current(e, i, e[i].id, response)
    OBVIOUS
  <2>1. CASE i \in 1..Len(d) /\ e[i] = d[i] BY <1>2, <2>1, CurrentLonger DEF Wire
  <2>2. CASE i = Len(d) + 1 /\ e[i] = x BY <1>2, <2>2, <1>6, CurrentLonger
  <2> QED BY <1>2, <2>1, <2>2
<1>8. \A j \in 1..Len(e) : e[j].kind = "created" => Lasts(e, j, e[j].id, 0, open)
  <2> SUFFICES ASSUME NEW j \in 1..Len(d), d[j].kind = "created", e[j] = d[j]
               PROVE  Lasts(e, j, d[j].id, 0, open)
    BY <1>2, <1>3
  <2> QED BY <1>4, <1>2 DEF Wire
<1>9. \A i \in 1..Len(e) : e[i].kind \in Ends => e[i].id # 0
  <2> SUFFICES ASSUME NEW i \in 1..Len(e), e[i].kind \in Ends PROVE e[i].id # 0 OBVIOUS
  <2>1. e[i].id \in 1..max BY <1>5
  <2> QED BY <2>1
<1>10. Wire(e, 0, open, response, max)
  <2>1. 0 \in 0..max OBVIOUS
  <2> QED BY <1>1, <1>2, <1>3, <1>5, <1>7, <1>8, <1>9, <2>1 DEF Wire
<1>11. 0 \in 0..Len(d) BY <1>2
<1> QED BY <1>4, <1>10, <1>11 DEF e

\* The provider begins another response.
LEMMA WireBegin ==
  ASSUME NEW d, NEW open, NEW response, NEW max \in Nat,
         Wire(d, 0, open, response, max), open, NEW x \in Events, x.kind = "created",
         x.id = max + 1
  PROVE  /\ Wire(Append(d, x), max + 1, open, response, max + 1)
         /\ \A id : id # 0 /\ Lasts(d, 0, id, 0, open)
                 => Lasts(Append(d, x), 0, id, max + 1, open)
<1> DEFINE e == Append(d, x)
<1>1. d \in Seq(Events) /\ open = TRUE BY DEF Wire
<1>2. /\ e \in Seq(Events) /\ Longer(d, e) /\ Len(e) = Len(d) + 1 /\ e[Len(e)] = x
      /\ \A i \in 1..Len(e) : (i \in 1..Len(d) /\ e[i] = d[i]) \/ (i = Len(d) + 1 /\ e[i] = x)
      /\ Len(d) \in Nat
  BY <1>1, OneMore, LenProperties
<1> HIDE DEF e
<1>3. x.kind \notin {"call"} \cup Ends BY DEF Ends
<1>4. \A j \in 0..Len(d) : \A id :
        id # 0 /\ Lasts(d, j, id, 0, open) => Lasts(e, j, id, max + 1, open)
  <2> SUFFICES ASSUME NEW j \in 0..Len(d), NEW id, id # 0, Lasts(d, j, id, 0, open)
               PROVE  Lasts(e, j, id, max + 1, open)
    OBVIOUS
  <2> DEFINE active == 0
  <2>1. ~(active = id \/ ~open) /\ Lasts(d, j, id, active, open) BY <1>1
  <2> HIDE DEF active
  <2> QED BY <1>2, <2>1, LastsLonger
<1>5. /\ \A i \in 1..Len(d) : d[i].kind \in {"created", "call"} \cup Ends
           => d[i].id \in 1..(max + 1)
      /\ max + 1 \in 1..(max + 1) /\ max + 1 \in 0..(max + 1)
      /\ \A i \in 1..Len(d) : d[i].kind \in {"created", "call"} \cup Ends => d[i].id # max + 1
              /\ d[i].id # 0
  BY DEF Wire
<1>6. \A i \in 1..Len(e) : e[i].kind \in {"created", "call"} \cup Ends => e[i].id \in 1..(max + 1)
  BY <1>2, <1>5
<1>7. \A i \in 1..Len(e) : e[i].kind \in {"call"} \cup Ends => Current(e, i, e[i].id, response)
  <2> SUFFICES ASSUME NEW i \in 1..Len(d), d[i].kind \in {"call"} \cup Ends, e[i] = d[i]
               PROVE  Current(e, i, d[i].id, response)
    BY <1>2, <1>3
  <2> QED BY <1>2, CurrentLonger DEF Wire
<1>8. Current(e, Len(e) + 1, max + 1, response) BY <1>2 DEF NoneCreated, Current
<1>9. \A j \in 1..Len(e) : e[j].kind = "created" => Lasts(e, j, e[j].id, max + 1, open)
  <2> SUFFICES ASSUME NEW j \in 1..Len(e), e[j].kind = "created"
               PROVE  Lasts(e, j, e[j].id, max + 1, open)
    OBVIOUS
  <2>1. CASE j \in 1..Len(d) /\ e[j] = d[j]
    <3>1. d[j].id # 0 BY <1>5, <2>1
    <3>2. j \in 0..Len(d) BY <1>2, <2>1
    <3> QED BY <1>4, <2>1, <3>1, <3>2 DEF Wire
  <2>2. CASE j = Len(d) + 1 /\ e[j] = x BY <1>2, <2>2 DEF NoneCreated, Lasts
  <2> QED BY <1>2, <2>1, <2>2
<1>11. Wire(e, max + 1, open, response, max + 1)
  BY <1>1, <1>2, <1>5, <1>6, <1>7, <1>8, <1>9, <1>3 DEF Wire
<1>12. 0 \in 0..Len(d) BY <1>2
<1> QED BY <1>4, <1>11, <1>12 DEF e

\* The head of the wire is delivered.
Shorter(d, t) == /\ Len(d) \in Nat /\ Len(d) >= 1 /\ Len(t) \in Nat /\ Len(t) = Len(d) - 1
                 /\ \A i \in 1..Len(t) : t[i] = d[i + 1]

\* The events of the rest of the wire, counted from its new head.
LEMMA NoneShifted ==
  ASSUME NEW d, NEW t, Shorter(d, t), NEW i \in Nat, NEW j \in Nat, i >= 1, j <= Len(t)
  PROVE  NoneCreated(t, i, j) <=> NoneCreated(d, i + 1, j + 1)
<1>1. ASSUME NoneCreated(t, i, j), NEW m \in (i + 1)..(j + 1) PROVE d[m].kind # "created"
  <2>1. m - 1 \in i..j /\ m - 1 \in 1..Len(t) /\ (m - 1) + 1 = m BY <1>1 DEF Shorter
  <2> QED BY <1>1, <2>1 DEF Shorter, NoneCreated
<1>2. ASSUME NoneCreated(d, i + 1, j + 1), NEW m \in i..j PROVE t[m].kind # "created"
  <2>1. /\ Len(t) \in Nat /\ Len(d) = Len(t) + 1 /\ \A p \in 1..Len(t) : t[p] = d[p + 1]
    BY DEF Shorter
  <2>2. m + 1 \in (i + 1)..(j + 1) /\ m \in 1..Len(t) BY <2>1
  <2>3. t[m] = d[m + 1] BY <2>1, <2>2
  <2> QED BY <1>2, <2>2, <2>3 DEF NoneCreated
<1> QED BY <1>1, <1>2 DEF NoneCreated

\* The response created at an event that is left.
LEMMA LastsShifted ==
  ASSUME NEW d, NEW t, Shorter(d, t), NEW j \in 0..Len(t), NEW id, NEW active, NEW open,
         Lasts(d, j + 1, id, active, open)
  PROVE  Lasts(t, j, id, active, open)
<1>1. CASE (active = id \/ ~open) /\ NoneCreated(d, j + 2, Len(d))
  <2>1. NoneCreated(t, j + 1, Len(t))
    <3> DEFINE i == j + 1
               m == Len(t)
    <3>1. i \in Nat /\ i >= 1 /\ i + 1 = j + 2 /\ m + 1 = Len(d) /\ m \in Nat /\ m <= Len(t)
      BY DEF Shorter
    <3> HIDE DEF i, m
    <3>2. NoneCreated(d, i + 1, m + 1) BY <1>1, <3>1
    <3> QED BY <3>1, <3>2, NoneShifted DEF i, m
  <2> QED BY <1>1, <2>1 DEF Lasts
<1>2. CASE \E i \in (j + 2)..Len(d) :
             d[i].kind \in Ends /\ d[i].id = id /\ NoneCreated(d, j + 2, i - 1)
  <2>1. PICK i \in (j + 2)..Len(d) :
          d[i].kind \in Ends /\ d[i].id = id /\ NoneCreated(d, j + 2, i - 1)
    BY <1>2
  <2> DEFINE n == i - 1
  <2>2. /\ n \in (j + 1)..Len(t) /\ n \in 1..Len(t) /\ n + 1 = i /\ j + 1 \in Nat /\ j + 1 >= 1
        /\ (j + 1) + 1 = j + 2 /\ n - 1 \in Nat /\ n - 1 <= Len(t) /\ (n - 1) + 1 = i - 1
    BY <2>1 DEF Shorter
  <2> HIDE DEF n
  <2>4. t[n] = d[i] BY <2>2 DEF Shorter
  <2> QED BY <2>1, <2>2, <2>4, NoneShifted DEF Lasts
<1> QED BY <1>1, <1>2 DEF Shorter, Lasts

\* The response of an event that is left: a creation that was delivered made it current.
LEMMA CurrentShifted ==
  ASSUME NEW d, NEW t, Shorter(d, t), NEW i \in 1..(Len(t) + 1), NEW id, NEW response,
         Current(d, i + 1, id, response)
  PROVE  Current(t, i, id, IF d[1].kind = "created" THEN d[1].id ELSE response)
<1>1. i \in Nat /\ i >= 1 /\ (i + 1) - 1 = i /\ i - 1 \in Nat /\ i - 1 <= Len(t)
      /\ (i - 1) + 1 = i
  BY DEF Shorter
<1>2. CASE id = response /\ NoneCreated(d, 1, i)
  <2>3. NoneCreated(t, 1, i - 1)
    <3> DEFINE n == i - 1
    <3>1. n \in Nat /\ n <= Len(t) /\ n + 1 = i /\ 1 \in Nat /\ 1 >= 1 /\ 1 + 1 = 2 BY <1>1
    <3>2. NoneCreated(d, 2, i) BY <1>1, <1>2 DEF NoneCreated
    <3> HIDE DEF n
    <3>3. NoneCreated(t, 1, n) <=> NoneCreated(d, 1 + 1, n + 1) BY <3>1, NoneShifted
    <3> QED BY <3>1, <3>2, <3>3 DEF n
  <2> QED BY <1>2, <2>3, <1>1 DEF Current, NoneCreated
<1>3. CASE \E j \in 1..i : d[j].kind = "created" /\ d[j].id = id /\ NoneCreated(d, j + 1, i)
  <2>1. PICK j \in 1..i : d[j].kind = "created" /\ d[j].id = id /\ NoneCreated(d, j + 1, i) BY <1>3
  <2>2. j \in Nat /\ j >= 1 /\ j <= i BY <1>1, <2>1
  <2>3. NoneCreated(t, j, i - 1) BY <1>1, <2>1, <2>2, NoneShifted
  <2>4. CASE j = 1 BY <2>1, <2>3, <2>4 DEF Current
  <2>5. CASE j # 1
    <3>1. j - 1 \in 1..(i - 1) /\ j - 1 \in 1..Len(t) /\ (j - 1) + 1 = j BY <1>1, <2>2, <2>5
    <3> QED BY <2>1, <2>3, <3>1 DEF Current, Shorter
  <2> QED BY <2>4, <2>5
<1> QED BY <1>1, <1>2, <1>3 DEF Current

\* The head of the wire leaves: what was current, whose end it may be, and that nothing is
\* created before the response of the transport has ended.
LEMMA WireTail ==
  ASSUME NEW d, NEW active, NEW open, NEW response, NEW max \in Nat,
         Wire(d, active, open, response, max), d # <<>>
  PROVE  /\ Head(d) \in Events
         /\ Wire(Tail(d), active, open,
                 IF Head(d).kind = "created" THEN Head(d).id ELSE response, max)
         /\ Head(d).kind \in {"created", "call"} \cup Ends => Head(d).id \in 1..max
         /\ Head(d).kind \in {"call"} \cup Ends => Head(d).id = response
         /\ Head(d).kind \in Ends => Head(d).id # active
         /\ Head(d).kind = "created" =>
              /\ Lasts(Tail(d), 0, Head(d).id, active, open)
              /\ \A id : ~Lasts(d, 0, id, active, open)
         /\ Head(d).kind \notin {"created"} \cup Ends =>
              \A id : Lasts(d, 0, id, active, open) => Lasts(Tail(d), 0, id, active, open)
<1> DEFINE t == Tail(d)
           h == Head(d)
           next == IF h.kind = "created" THEN h.id ELSE response
<1>1. d \in Seq(Events) /\ Len(d) \in Nat BY LenProperties DEF Wire
<1>2. Shorter(d, t) /\ h = d[1] /\ t \in Seq(Events) /\ h \in Events /\ 1 \in 1..Len(d)
  BY <1>1, HeadTailProperties, EmptySeq DEF Shorter
<1> HIDE DEF t, h
<1>3. \A i \in 1..Len(t) : i + 1 \in 1..Len(d) /\ t[i] = d[i + 1] /\ i \in 1..(Len(t) + 1)
                           /\ i \in 0..Len(t)
  BY <1>2 DEF Shorter
<1>4. \A i \in 1..Len(t) : t[i].kind \in {"created", "call"} \cup Ends => t[i].id \in 1..max
  BY <1>3 DEF Wire
<1>5. \A i \in 1..Len(t) : t[i].kind \in {"call"} \cup Ends => Current(t, i, t[i].id, next)
  <2> SUFFICES ASSUME NEW i \in 1..Len(t), t[i].kind \in {"call"} \cup Ends
               PROVE  Current(t, i, t[i].id, next)
    OBVIOUS
  <2> QED BY <1>2, <1>3, CurrentShifted DEF Wire
<1>6. active # 0 => Current(t, Len(t) + 1, active, next)
  <2> SUFFICES ASSUME active # 0 PROVE Current(t, Len(t) + 1, active, next) OBVIOUS
  <2>2. Len(d) + 1 = (Len(t) + 1) + 1 /\ Len(t) + 1 \in 1..(Len(t) + 1) BY <1>2 DEF Shorter
  <2> QED BY <1>2, <2>2, CurrentShifted DEF Wire
<1>7. \A j \in 1..Len(t) : t[j].kind = "created" => Lasts(t, j, t[j].id, active, open)
  <2> SUFFICES ASSUME NEW j \in 1..Len(t), t[j].kind = "created"
               PROVE  Lasts(t, j, t[j].id, active, open)
    OBVIOUS
  <2> QED BY <1>2, <1>3, LastsShifted DEF Wire
<1>9. Wire(t, active, open, next, max) BY <1>2, <1>4, <1>5, <1>6, <1>7, <1>3 DEF Wire
<1>10. h.kind \in {"created", "call"} \cup Ends => h.id \in 1..max BY <1>2 DEF Wire
<1>11. ASSUME h.kind \in {"call"} \cup Ends PROVE h.id = response BY <1>2, <1>11 DEF Wire, Current
<1>12. h.kind \in Ends => h.id # active BY <1>2 DEF Wire
<1>13. ASSUME h.kind = "created"
       PROVE  Lasts(t, 0, h.id, active, open) /\ \A id : ~Lasts(d, 0, id, active, open)
  <2>3. Lasts(t, 0, h.id, active, open) BY <1>2, LastsShifted, <1>13 DEF Wire, Shorter
  <2>4. ASSUME NEW id, Lasts(d, 0, id, active, open) PROVE FALSE
    <3>1. \A n \in Nat : n >= 1 => ~NoneCreated(d, 0 + 1, n) BY <1>2, <1>13 DEF NoneCreated
    <3>2. PICK i \in 1..Len(d) : d[i].kind \in Ends /\ NoneCreated(d, 0 + 1, i - 1)
      BY <1>2, <2>4, <3>1 DEF Lasts, Shorter
    <3>4. i = 1 BY <3>1, <3>2, <1>1
    <3> QED BY <1>2, <1>13, <3>2, <3>4 DEF Ends
  <2> QED BY <2>3, <2>4
<1>14. ASSUME h.kind \notin {"created"} \cup Ends, NEW id, Lasts(d, 0, id, active, open)
       PROVE  Lasts(t, 0, id, active, open)
  <2>1. Lasts(d, 0 + 1, id, active, open)
    <3>1. CASE (active = id \/ ~open) /\ NoneCreated(d, 0 + 1, Len(d))
      BY <1>1, <3>1 DEF NoneCreated, Lasts
    <3>2. CASE \E i \in (0 + 1)..Len(d) :
                 d[i].kind \in Ends /\ d[i].id = id /\ NoneCreated(d, 0 + 1, i - 1)
      <4>1. PICK i \in 1..Len(d) :
              d[i].kind \in Ends /\ d[i].id = id /\ NoneCreated(d, 0 + 1, i - 1)
        BY <3>2
      <4>2. i # 1 BY <1>2, <1>14, <4>1
      <4> QED BY <4>1, <1>1, <4>2 DEF Lasts, NoneCreated
    <3> QED BY <1>14, <3>1, <3>2 DEF Lasts
  <2>2. 0 \in 0..Len(t) BY <1>2 DEF Shorter
  <2> QED BY <1>2, <2>1, <2>2, LastsShifted
<1> QED BY <1>2, <1>9, <1>10, <1>11, <1>12, <1>13, <1>14 DEF t, h

\* The wires are the same, and so is what the invariant says of them.
SameNet(x, y) ==
  /\ y.rt = x.rt /\ DOMAIN y.net = Sockets
  /\ \A k \in Sockets :
       /\ DOMAIN y.net[k] = DOMAIN x.net[k]
       /\ y.net[k].open = x.net[k].open /\ y.net[k].down = x.net[k].down
       /\ y.net[k].active = x.net[k].active

Kin(x, y) ==
  /\ DOMAIN y = OaiFields /\ DOMAIN y.dial = {"sock", "phase"} /\ y.dial.sock = x.dial.sock
  /\ SameNet(x, y) /\ (y.overlap => x.overlap) /\ y.stale = x.stale

\* Nothing but flags, queues and what is sent has changed.
Tame(x, y) ==
  /\ Kin(x, y) /\ y.calls = x.calls /\ y.mixed = x.mixed /\ y.response = x.response
  /\ y.interrupts = x.interrupts /\ y.generating \in BOOLEAN /\ y.waiter \in BOOLEAN
  /\ y.generating => x.generating
  /\ IdleSound(x) => IdleSound(y)

\* Steps that leave the wires alone follow one another.
LEMMA KinTwice ==
  ASSUME NEW x, NEW y, NEW z, Kin(x, y), Kin(y, z)
  PROVE  Kin(x, z)
BY DEF Kin, SameNet

\* They keep the frame, and the sockets never dialed.
LEMMA KinFramed ==
  ASSUME NEW x, NEW y, OaiFramed(x), Kin(x, y), y.response \in Nat, y.interrupts \in Seq(Queued),
         y.generating \in BOOLEAN, y.waiter \in BOOLEAN
  PROVE  OaiFramed(y) /\ \A sockets : Pristine(x, sockets) => Pristine(y, sockets)
BY DEF Kin, SameNet, OaiFramed, Sock, Pristine

\* A tame step keeps the frame.
LEMMA TameFramed ==
  ASSUME NEW x, NEW y, OaiFramed(x), Tame(x, y)
  PROVE  OaiFramed(y)
BY KinFramed DEF Tame, OaiFramed

\* Tame steps follow one another.
LEMMA TameTwice ==
  ASSUME NEW x, NEW y, NEW z, OaiFramed(x), Tame(x, y), Tame(y, z)
  PROVE  Tame(x, z)
<1> QED BY KinTwice DEF Tame, OaiFramed

\* What reads the wire of now.
LEMMA KinWire ==
  ASSUME NEW x, NEW y, OaiFramed(x), Kin(x, y), x.rt # 0
  PROVE  /\ y.rt = x.rt /\ y.net[y.rt].down = x.net[x.rt].down
         /\ y.net[y.rt].active = x.net[x.rt].active /\ y.net[y.rt].open = x.net[x.rt].open
BY DEF Kin, SameNet, OaiFramed

\* A tame step keeps the responses apart.
LEMMA TameSequenced ==
  ASSUME NEW x, NEW y, OaiFramed(x), Tame(x, y), NEW responses, Sequenced(x, responses)
  PROVE  Sequenced(y, responses)
<1>1. /\ y.rt = x.rt /\ y.calls = x.calls /\ y.mixed = x.mixed /\ y.response = x.response
      /\ y.interrupts = x.interrupts /\ (y.generating => x.generating)
  BY DEF Tame, Kin, SameNet
<1>2. x.rt # 0 => /\ y.net[y.rt].down = x.net[x.rt].down
                  /\ y.net[y.rt].active = x.net[x.rt].active
                          /\ y.net[y.rt].open = x.net[x.rt].open
  BY KinWire DEF Tame
<1> QED BY <1>1, <1>2 DEF Sequenced, Collected, Awaited, Undone, WireOf

-----------------------------------------------------------------------------
(* The operators that are tame. *)

\* Nothing is tame.
LEMMA TameSelf ==
  ASSUME NEW o, OaiFramed(o)
  PROVE  Tame(o, o)
BY DEF Tame, Kin, SameNet, OaiFramed

\* What is sent is read by the provider alone.
LEMMA SendTame ==
  ASSUME NEW o, OaiFramed(o), NEW kind, NEW id
  PROVE  Tame(o, Send(o, kind, id))
<1> DEFINE y == [o EXCEPT !.net[o.rt].up = Append(@, Event(kind, id))]
<1>1. CASE o.rt = 0 \/ ~o.net[o.rt].open BY <1>1, TameSelf DEF Send
<1>2. CASE ~(o.rt = 0 \/ ~o.net[o.rt].open)
  <2>1. Send(o, kind, id) = y BY <1>2 DEF Send
  <2>2. /\ DOMAIN y = OaiFields /\ y.dial = o.dial /\ y.rt = o.rt /\ y.overlap = o.overlap
        /\ y.stale = o.stale /\ y.calls = o.calls /\ y.mixed = o.mixed /\ y.response = o.response
        /\ y.interrupts = o.interrupts /\ y.generating = o.generating /\ y.waiter = o.waiter
        /\ y.whenIdle = o.whenIdle /\ y.cut = o.cut /\ y.quiesced = o.quiesced
    BY DEF OaiFramed, OaiFields
  <2>3. o.rt \in Sockets BY <1>2 DEF OaiFramed
  <2>4. y.net = [o.net EXCEPT ![o.rt].up = Append(@, Event(kind, id))] BY DEF OaiFramed, OaiFields
  <2> HIDE DEF y
  <2> QED BY <2>1, <2>2, <2>3, <2>4 DEF Tame, Kin, IdleSound, OaiFramed, SameNet, Sock
<1> QED BY <1>1, <1>2

\* response.create asks, and marks a response as pending.
LEMMA CreateTame ==
  ASSUME NEW o, OaiFramed(o)
  PROVE  Tame(o, CreateResponse(o))
<1> DEFINE m == MarkResponsePending(o)
<1>1. Tame(o, m) BY DEF MarkResponsePending, Tame, Kin, SameNet, OaiFramed, OaiFields, IdleSound
<1>2. CreateResponse(o) = Send(m, "create", 0) BY DEF CreateResponse
<1> HIDE DEF m
<1> QED BY <1>1, <1>2, SendTame, TameFramed, TameTwice

\* A cancel, with or without its wait.
LEMMA ActuateTame ==
  ASSUME NEW o, OaiFramed(o)
  PROVE  Tame(o, ActuateCancelInternal(o)) /\ \A truncate : Tame(o, CancelResponse(o, truncate))
<1> DEFINE y == [o EXCEPT !.suppressAudio = TRUE, !.generating = FALSE, !.cut = TRUE]
<1>1. Tame(o, y) BY DEF Tame, Kin, SameNet, OaiFramed, OaiFields, IdleSound
<1>2. ActuateCancelInternal(o) = IF o.generating THEN Send(y, "cancel", 0) ELSE y
  BY DEF ActuateCancelInternal
<1> HIDE DEF y
<1> QED BY TameSelf, <1>1, <1>2, SendTame, TameFramed, TameTwice DEF CancelResponse

\* A result that is delivered.
LEMMA SendToolResultTame ==
  ASSUME NEW o, OaiFramed(o), NEW result
  PROVE  Tame(o, SendToolResultNow(o, result))
BY TameSelf, CreateTame DEF SendToolResultNow

\* Flushed, nobody waits for idle, unless there is no socket or the wait goes on.
LEMMA FlushTame ==
  ASSUME NEW o, OaiFramed(o)
  PROVE  LET y == FlushPendingWhenIdle(o) IN
         /\ Tame(o, y)
         /\ o.rt # 0 /\ ~o.quiesced => y.whenIdle = <<>>
         /\ y.whenIdle # <<>> => y.whenIdle = o.whenIdle /\ y.rt = o.rt /\ y.quiesced = o.quiesced
<1> DEFINE x == [o EXCEPT !.whenIdle = <<>>]
           m == MarkResponsePending(x)
           s == Send(m, "create", 0)
<1>1. CASE o.rt = 0 \/ o.whenIdle = <<>> \/ o.quiesced BY <1>1, TameSelf DEF FlushPendingWhenIdle
<1>2. CASE ~(o.rt = 0 \/ o.whenIdle = <<>> \/ o.quiesced)
  <2>1. Tame(o, x) BY DEF Tame, Kin, SameNet, OaiFramed, OaiFields, IdleSound
  <2>2. FlushPendingWhenIdle(o) = s BY <1>2 DEF FlushPendingWhenIdle, CreateResponse
  <2>3. x.whenIdle = <<>> /\ DOMAIN x = OaiFields BY DEF OaiFramed, OaiFields
  <2> HIDE DEF x
  <2>4. DOMAIN m = OaiFields /\ m.whenIdle = <<>> BY <2>3 DEF MarkResponsePending, OaiFields
  <2>5. s.whenIdle = <<>>
    <3> HIDE DEF m
    <3> QED BY <2>4 DEF Send, OaiFields
  <2>6. Tame(o, s) BY <2>1, CreateTame, TameFramed, TameTwice DEF CreateResponse
  <2> HIDE DEF s, m
  <2> QED BY <2>2, <2>5, <2>6
<1> QED BY <1>1, <1>2

\* A session update is queued.
LEMMA EnqueueTame ==
  ASSUME NEW o, OaiFramed(o), NEW forConnect
  PROVE  Tame(o, EnqueueUpdate(o, forConnect))
BY DEF EnqueueUpdate, Tame, Kin, SameNet, OaiFramed, OaiFields, IdleSound

\* A session update is acknowledged, refused or given up.
LEMMA SettleTame ==
  ASSUME NEW o, OaiFramed(o), NEW ok
  PROVE  Tame(o, SettleUpdate(o, ok))
<1> DEFINE y == [o EXCEPT !.updates = Tail(@)]
           z == [y EXCEPT !.dial.phase = IF ok THEN "ready" ELSE "failed"]
<1>1. SettleUpdate(o, ok) = IF Head(o.updates).forConnect THEN z ELSE y BY DEF SettleUpdate
<1>2. Tame(o, y) BY DEF Tame, Kin, SameNet, OaiFramed, OaiFields, IdleSound
<1> HIDE DEF y
<1>3. Tame(y, z) BY <1>2, TameFramed DEF Tame, Kin, SameNet, OaiFramed, OaiFields, IdleSound
<1> HIDE DEF z
<1> QED BY <1>1, <1>2, <1>3, TameTwice

\* The dial and the updates go on.
LEMMA OpenedTame ==
  ASSUME NEW o, OaiFramed(o), NEW k
  PROVE  Tame(o, OnSessionCreated(o, k)) /\ Tame(o, OnSessionUpdated(o, k))
<1> DEFINE y == [o EXCEPT !.connected = TRUE,
                          !.dial.phase = IF o.rt = 0 THEN "failed" ELSE "updating"]
<1>1. OnSessionCreated(o, k) \in {o, y, EnqueueUpdate(y, TRUE)} BY DEF OnSessionCreated
<1>2. Tame(o, y) BY DEF Tame, Kin, SameNet, OaiFramed, OaiFields, IdleSound
<1> HIDE DEF y
<1> QED BY <1>1, <1>2, TameSelf, EnqueueTame, TameFramed, TameTwice, SettleTame DEF OnSessionUpdated

\* A barge-in that the provider owns.
LEMMA SpeechTame ==
  ASSUME NEW o, OaiFramed(o)
  PROVE  Tame(o, OnSpeechStarted(o))
BY TameSelf DEF OnSpeechStarted, Tame, Kin, SameNet, OaiFramed, OaiFields, IdleSound

\* What every listener does, whoever it listens to.
Loose(x, y) == OaiFramed(y) /\ Kin(x, y) /\ (IdleSound(x) => IdleSound(y))

\* What a step of the present does.
Kept(x, y) == Loose(x, y) /\ \A responses \in Nat : Sequenced(x, responses)
  => Sequenced(y, responses)

\* A tame step is a step of the present.
LEMMA TameKept ==
  ASSUME NEW x, NEW y, OaiFramed(x), Tame(x, y)
  PROVE  Kept(x, y)
<1>1. OaiFramed(y) BY TameFramed
<1> QED BY <1>1, TameSequenced DEF Kept, Loose, Tame

\* Such steps follow one another.
LEMMA KeptTwice ==
  ASSUME NEW x, NEW y, NEW z, Kept(x, y), Kept(y, z)
  PROVE  Kept(x, z)
BY KinTwice DEF Kept, Loose

\* A step that keeps what the wires and the waits tell of each other.
LEMMA KeptStep ==
  ASSUME OaiSound, Kept(openai, openai'), used' \in Books, used'.sockets >= used.sockets,
         used'.responses = used.responses
  PROVE  OaiSound'
<1>1. OaiFramed(openai') BY DEF Kept, Loose
<1>2. Pristine(openai', used'.sockets)
  <2>2. used.sockets \in Nat /\ openai.rt <= used.sockets BY DEF OaiSound, Pristine
  <2>3. Sockets \subseteq Nat /\ \A k \in Sockets : k \in Nat BY OpenAIAssumption DEF Sockets
  <2>4. openai'.rt = openai.rt /\ openai'.rt \in Nat
    <3>3. \A n \in {0} \cup Sockets : n \in Nat BY <2>3
    <3> QED BY <3>3, <1>1 DEF Kept, Loose, Kin, SameNet, OaiFramed
  <2>7. used'.sockets \in Nat BY DEF Books
  <2>5. openai'.rt <= used'.sockets BY <2>2, <2>4, <2>7
  <2>1. Kin(openai, openai') BY DEF Kept, Loose
  <2>8. Pristine(openai, used.sockets) /\ OaiFramed(openai) BY DEF OaiSound
  <2>9. /\ openai'.response \in Nat /\ openai'.interrupts \in Seq(Queued)
        /\ openai'.generating \in BOOLEAN /\ openai'.waiter \in BOOLEAN
    BY <1>1 DEF OaiFramed
  <2>10. Pristine(openai', used.sockets) BY <2>1, <2>8, <2>9, KinFramed
  <2> QED BY <2>2, <2>3, <2>5, <2>7, <2>10 DEF Pristine
<1> QED BY <1>1, <1>2 DEF OaiSound, Kept, Loose, Kin, Books

-----------------------------------------------------------------------------
(* The end of every wait. *)

\* One wait, before and after its promise resolves.
Resolved(w, v, excused) ==
  \/ w.of = -1 /\ v.of = -1
  \/ v.over /\ v.of = w.of /\ (excused \/ w.excused => v.excused)
            /\ (v.excused => excused \/ w.excused)

\* What the end of every wait leaves alone, and what it does to each.
LEMMA ResolveFields ==
  ASSUME NEW o, OaiFramed(o), NEW excused \in BOOLEAN
  PROVE  LET y == ResolveWaiter(o, excused) IN
         /\ DOMAIN y = OaiFields /\ y.waiter = FALSE
         /\ Kin(o, y) /\ OaiFramed(y)
         /\ y.calls = o.calls /\ y.mixed = o.mixed /\ y.response = o.response
         /\ y.generating = o.generating /\ y.whenIdle = o.whenIdle /\ y.cut = o.cut
         /\ y.quiesced = o.quiesced /\ y.providerOwned = o.providerOwned /\ y.rt = o.rt
         /\ y.net = o.net
         /\ Len(y.interrupts) = Len(o.interrupts)
         /\ \A i \in 1..Len(o.interrupts) :
              Resolved(o.interrupts[i].wait, y.interrupts[i].wait, excused)
<1> DEFINE y == ResolveWaiter(o, excused)
           q == o.interrupts
           p == y.interrupts
<1>1. /\ DOMAIN y = OaiFields /\ y.waiter = FALSE /\ y.dial = o.dial /\ y.rt = o.rt
      /\ y.overlap = o.overlap /\ y.stale = o.stale /\ y.calls = o.calls /\ y.mixed = o.mixed
      /\ y.response = o.response /\ y.generating = o.generating /\ y.whenIdle = o.whenIdle
      /\ y.cut = o.cut /\ y.quiesced = o.quiesced /\ y.providerOwned = o.providerOwned
      /\ y.net = o.net
  BY DEF ResolveWaiter, OaiFramed, OaiFields
<1>2. p = [i \in DOMAIN q |-> IF q[i].wait = NotYet THEN q[i]
                              ELSE [q[i] EXCEPT !.wait = Over(q[i].wait, excused)]]
  BY DEF ResolveWaiter, OaiFramed, OaiFields
<1>3. q \in Seq(Queued) BY DEF OaiFramed
<1> HIDE DEF y, q, p
<1>4. DOMAIN q = 1..Len(q) /\ Len(q) \in Nat /\ \A i \in 1..Len(q) : q[i] \in Queued
  BY <1>3, LenProperties
<1>5. ASSUME NEW i \in 1..Len(q)
      PROVE  p[i] \in Queued /\ Resolved(q[i].wait, p[i].wait, excused)
  <2> DEFINE w == q[i].wait
             v == Over(w, excused)
  <2>1. q[i] \in Queued /\ w \in Waits BY <1>4 DEF Queued
  <2>2. CASE w = NotYet BY <1>2, <1>4, <2>2, <2>1 DEF NotYet, Resolved
  <2>3. CASE w # NotYet
    <3>1. p[i] = [q[i] EXCEPT !.wait = v] BY <1>2, <1>4, <2>3
    <3>2. v \in Waits /\ v.over = TRUE /\ v.of = w.of BY <2>1 DEF Over, Waits
    <3>3. v.excused = (w.excused \/ excused) BY <2>1 DEF Over, Waits
    <3> HIDE DEF v, w
    <3> QED BY <3>2, <3>3, <2>1, <3>1 DEF Resolved, w, Queued
  <2> QED BY <2>2, <2>3
<1>6. p \in Seq(Queued) /\ Len(p) = Len(q) BY <1>2, <1>4, <1>5, SeqDef, LenProperties
<1> QED BY <1>1, <1>5, <1>6 DEF y, q, p, OaiFramed, Kin, SameNet

\* A wait whose end was another's end shows nothing.
LEMMA ResolveKept ==
  ASSUME NEW o, OaiFramed(o)
  PROVE  Kept(o, ResolveWaiter(o, TRUE))
<1> DEFINE excused == TRUE
           y == ResolveWaiter(o, excused)
<1>1. excused \in BOOLEAN /\ excused OBVIOUS
<1> HIDE DEF excused
<1>2. /\ Kin(o, y) /\ OaiFramed(y)
      /\ y.calls = o.calls /\ y.mixed = o.mixed /\ y.response = o.response
      /\ y.generating = o.generating /\ y.whenIdle = o.whenIdle /\ y.cut = o.cut
      /\ y.quiesced = o.quiesced /\ y.rt = o.rt /\ y.net = o.net
      /\ Len(y.interrupts) = Len(o.interrupts)
      /\ \A i \in 1..Len(o.interrupts) :
           Resolved(o.interrupts[i].wait, y.interrupts[i].wait, excused)
  BY <1>1, ResolveFields
<1> HIDE DEF y
<1>3. ASSUME NEW responses, Sequenced(o, responses) PROVE Sequenced(y, responses)
  BY <1>2, <1>3, <1>1 DEF Resolved, Sequenced, Awaited, Names, Collected, Undone, WireOf
<1> QED BY <1>2, <1>3 DEF Kept, Loose, y, excused, IdleSound

-----------------------------------------------------------------------------
(* The listeners. *)

\* An error ends the waits, and perhaps an update.
LEMMA ErrorKept ==
  ASSUME NEW o, OaiFramed(o), NEW k, NEW mine
  PROVE  Kept(o, OnError(o, k, mine))
<1> DEFINE y == ResolveWaiter(o, TRUE)
           ok == FALSE
<1>1. Kept(o, y) BY ResolveKept
<1>2. OnError(o, k, mine) \in {y, SettleUpdate(y, ok)} BY DEF OnError
<1> HIDE DEF y, ok
<1> QED BY <1>1, <1>2, KeptTwice, SettleTame, TameKept DEF Kept, Loose

\* The loss of the socket ends them too.
LEMMA CloseKept ==
  ASSUME NEW o, OaiFramed(o)
  PROVE  Kept(o, OnSocketClose(o))
<1> DEFINE y == ResolveWaiter(o, TRUE)
<1>1. Kept(o, y) BY ResolveKept
<1>2. OnSocketClose(o) = [y EXCEPT !.connected = FALSE] BY DEF OnSocketClose
<1> HIDE DEF y
<1>3. OaiFramed(y) BY <1>1 DEF Kept, Loose
<1>4. Tame(y, [y EXCEPT !.connected = FALSE])
  BY <1>3 DEF Tame, Kin, SameNet, OaiFramed, OaiFields, IdleSound
<1> QED BY <1>1, <1>2, <1>3, <1>4, TameKept, KeptTwice

\* What a created response changes.
LEMMA CreatedFields ==
  ASSUME NEW o, OaiFramed(o), NEW r \in Nat
  PROVE  LET z == OnResponseCreated(o, r) IN
         /\ Loose(o, z) /\ z.net = o.net /\ z.rt = o.rt /\ z.interrupts = o.interrupts
         /\ z.calls = <<>> /\ z.mixed = o.mixed /\ z.response = r /\ z.generating = TRUE
<1> DEFINE z == OnResponseCreated(o, r)
<1>1. /\ DOMAIN z = OaiFields /\ z.dial = o.dial /\ z.rt = o.rt /\ z.overlap = o.overlap
      /\ z.stale = o.stale /\ z.net = o.net /\ z.interrupts = o.interrupts /\ z.calls = <<>>
      /\ z.mixed = o.mixed /\ z.response = r /\ z.generating = TRUE /\ z.waiter = TRUE
      /\ z.whenIdle = o.whenIdle
  BY DEF OnResponseCreated, MarkResponsePending, OaiFramed, OaiFields
<1> HIDE DEF z
<1>2. Kin(o, z) BY <1>1 DEF Kin, SameNet, OaiFramed
<1>3. OaiFramed(z) BY <1>1 DEF OaiFramed
<1> QED BY <1>1, <1>2, <1>3 DEF Loose, z, IdleSound

\* A call of the transport's response is collected with the others.
LEMMA CallFields ==
  ASSUME NEW o, OaiFramed(o), NEW r \in Nat
  PROVE  LET z == OnFunctionCallDone(o, r) IN
         /\ Loose(o, z)
         /\ \A responses : Sequenced(o, responses) /\ r = o.response => Sequenced(z, responses)
<1> DEFINE z == OnFunctionCallDone(o, r)
<1>1. /\ DOMAIN z = OaiFields /\ z.dial = o.dial /\ z.rt = o.rt /\ z.overlap = o.overlap
      /\ z.stale = o.stale /\ z.net = o.net /\ z.interrupts = o.interrupts
      /\ z.calls = Append(o.calls, r)
      /\ z.mixed = o.mixed /\ z.response = o.response /\ z.generating = o.generating
      /\ z.waiter = o.waiter /\ z.whenIdle = o.whenIdle /\ z.cut = o.cut
              /\ z.quiesced = o.quiesced
  BY DEF OnFunctionCallDone, OaiFramed, OaiFields
<1> HIDE DEF z
<1>2. Kin(o, z) BY <1>1 DEF Kin, SameNet, OaiFramed
<1>3. OaiFramed(z) BY <1>1 DEF OaiFramed
<1>5. ASSUME NEW responses, Sequenced(o, responses), r = o.response
      PROVE  Sequenced(z, responses)
  BY <1>5, <1>1, AppendProperties, LenProperties DEF Sequenced, Collected, Undone, WireOf, Awaited
<1> QED BY <1>2, <1>3, <1>5, <1>1 DEF Loose, z, IdleSound

\* A response ends: so does every wait, and what was collected is of it.
LEMMA DoneFields ==
  ASSUME NEW o, OaiFramed(o), NEW status \in Ends, NEW r \in Nat
  PROVE  LET z == OnResponseDone(o, status, r) IN
         /\ Loose(o, z) /\ z.response = o.response /\ z.calls = <<>> /\ ~z.generating
         /\ Collected(o) /\ r = o.response => ~z.mixed
         /\ Len(z.interrupts) = Len(o.interrupts)
         /\ \A i \in 1..Len(o.interrupts) :
              Resolved(o.interrupts[i].wait, z.interrupts[i].wait, FALSE)
<1> DEFINE excused == FALSE
           x == ResolveWaiter(o, excused)
           y == [x EXCEPT !.calls = <<>>, !.generating = FALSE]
           c == [y EXCEPT !.cut = TRUE]
           d == DispatchCalls(y, o.calls, status, r)
           f == FlushPendingWhenIdle(d)
           z == OnResponseDone(o, status, r)
<1>1. z = IF status = "cancelled" THEN c ELSE f BY DEF OnResponseDone
<1>2. excused \in BOOLEAN /\ ~excused OBVIOUS
<1> HIDE DEF excused
<1>3. /\ DOMAIN x = OaiFields /\ x.waiter = FALSE
      /\ Kin(o, x) /\ OaiFramed(x)
      /\ x.calls = o.calls /\ x.mixed = o.mixed /\ x.response = o.response
      /\ x.generating = o.generating /\ x.whenIdle = o.whenIdle /\ x.cut = o.cut
      /\ x.quiesced = o.quiesced /\ x.rt = o.rt /\ x.net = o.net
      /\ Len(x.interrupts) = Len(o.interrupts)
      /\ \A i \in 1..Len(o.interrupts) :
           Resolved(o.interrupts[i].wait, x.interrupts[i].wait, excused)
  BY <1>2, ResolveFields
<1> HIDE DEF x
<1>5. /\ DOMAIN y = OaiFields /\ y.dial = x.dial /\ y.rt = x.rt /\ y.overlap = x.overlap
      /\ y.stale = x.stale /\ y.net = x.net /\ y.interrupts = x.interrupts /\ y.calls = <<>>
      /\ y.mixed = x.mixed /\ y.response = x.response /\ y.generating = FALSE
      /\ y.waiter = FALSE /\ y.whenIdle = x.whenIdle /\ y.quiesced = x.quiesced
  BY <1>3 DEF OaiFields
<1> HIDE DEF y
<1>6. /\ DOMAIN c = OaiFields /\ c.dial = y.dial /\ c.rt = y.rt /\ c.overlap = y.overlap
      /\ c.stale = y.stale /\ c.net = y.net /\ c.interrupts = y.interrupts /\ c.calls = <<>>
      /\ c.mixed = y.mixed /\ c.response = y.response /\ c.generating = FALSE
      /\ c.waiter = FALSE /\ c.whenIdle = y.whenIdle /\ c.cut = TRUE
  BY <1>5 DEF OaiFields
<1>7. /\ DOMAIN d = OaiFields /\ d.dial = y.dial /\ d.rt = y.rt /\ d.overlap = y.overlap
      /\ d.stale = y.stale /\ d.net = y.net /\ d.interrupts = y.interrupts /\ d.calls = <<>>
      /\ d.response = y.response /\ d.generating = FALSE
      /\ d.waiter = FALSE /\ d.whenIdle = y.whenIdle /\ d.quiesced = y.quiesced
      /\ d.mixed = (y.mixed \/ (o.calls # <<>> /\ status = "cancelled")
                            \/ \E n \in ToSet(o.calls) : n # r)
  BY <1>5 DEF OaiFields, DispatchCalls
<1> HIDE DEF c, d
<1>8. OaiFramed(c) /\ Kin(x, c) /\ OaiFramed(d) /\ Kin(x, d)
  <2>1. OaiFramed(c) BY <1>3, <1>5, <1>6 DEF OaiFramed
  <2>2. OaiFramed(d) BY <1>3, <1>5, <1>7 DEF OaiFramed
  <2>3. Kin(x, c) BY <1>3, <1>5, <1>6 DEF OaiFramed, Kin, SameNet
  <2>4. Kin(x, d) BY <1>3, <1>5, <1>7 DEF OaiFramed, Kin, SameNet
  <2> QED BY <2>1, <2>2, <2>3, <2>4
<1>9. Kin(o, c) /\ Kin(o, d) BY <1>3, <1>8, KinTwice
<1>10. CASE status = "cancelled"
  <2>1. z = c BY <1>1, <1>10
  <2>2. IdleSound(o) => IdleSound(c) BY <1>3, <1>5, <1>6 DEF IdleSound
  <2>3. Collected(o) => ~c.mixed BY <1>3, <1>5, <1>6 DEF Collected
  <2> HIDE DEF z
  <2> QED BY <1>3, <1>5, <1>6, <1>8, <1>9, <2>1, <2>2, <2>3 DEF Loose, z, excused
<1>11. CASE status # "cancelled"
  <2>1. z = f BY <1>1, <1>11
  <2>2. /\ Tame(d, f)
        /\ d.rt # 0 /\ ~d.quiesced => f.whenIdle = <<>>
        /\ f.whenIdle # <<>> => f.whenIdle = d.whenIdle /\ f.rt = d.rt /\ f.quiesced = d.quiesced
    BY <1>8, FlushTame
  <2>3. IdleSound(o) => IdleSound(f)
    <3> HIDE DEF f, z
    <3> QED BY <1>3, <1>5, <1>7, <2>2 DEF IdleSound
  <2>4. Collected(o) /\ r = o.response => ~d.mixed
    <3> SUFFICES ASSUME Collected(o), r = o.response, d.mixed PROVE FALSE OBVIOUS
    <3>1. PICK n \in ToSet(o.calls) : n # r BY <1>3, <1>5, <1>7, <1>11 DEF Collected
    <3>2. PICK i \in DOMAIN o.calls : n = o.calls[i] BY <3>1 DEF ToSet
    <3> QED BY <3>1, <3>2, LenProperties DEF Collected
  <2>5. OaiFramed(f) /\ Kin(o, f) BY <1>8, <1>9, <2>2, TameFramed, KinTwice DEF Tame
  <2>6. f.calls = d.calls /\ f.mixed = d.mixed /\ f.response = d.response
        /\ f.interrupts = d.interrupts /\ (f.generating => d.generating)
    BY <2>2 DEF Tame
  <2> HIDE DEF f, z
  <2> QED BY <1>3, <1>5, <1>7, <2>1, <2>3, <2>4, <2>5, <2>6 DEF Loose, z, excused
<1> QED BY <1>10, <1>11

-----------------------------------------------------------------------------
(* Any listener. *)

\* Every listener keeps the frame; those of no response keep the responses apart.
LEMMA ListenerLoose ==
  ASSUME NEW o, OaiFramed(o), NEW k, NEW e \in Events
  PROVE  /\ Loose(o, Listener(o, k, e))
         /\ e.kind \notin {"created", "call"} \cup Ends => Kept(o, Listener(o, k, e))
<1>1. e.kind \in EventKinds /\ e.id \in Nat BY DEF Events
<1>2. CASE e.kind = "session" BY <1>2, OpenedTame, TameKept DEF Listener, Kept
<1>3. CASE e.kind = "updated" BY <1>3, OpenedTame, TameKept DEF Listener, Kept
<1>4. CASE e.kind = "created" BY <1>4, <1>1, CreatedFields DEF Listener
<1>5. CASE e.kind = "call" BY <1>5, <1>1, CallFields DEF Listener
<1>6. CASE e.kind \in Ends BY <1>6, <1>1, DoneFields DEF Listener, Ends
<1>7. CASE e.kind = "speech" BY <1>7, SpeechTame, TameKept DEF Listener, Kept
<1>8. CASE e.kind \in {"refused", "error"}
  <2>1. PICK mine : Listener(o, k, e) = OnError(o, k, mine) BY <1>8 DEF Listener
  <2> QED BY <2>1, ErrorKept DEF Kept
<1>9. CASE e.kind = "close" BY <1>9, CloseKept DEF Listener, Kept
<1> QED BY <1>1, <1>2, <1>3, <1>4, <1>5, <1>6, <1>7, <1>8, <1>9 DEF EventKinds, Ends

\* What the invariant says of a transport whose wire has been read.
LEMMA SequencedAlike ==
  ASSUME NEW x, NEW y, NEW responses, Sequenced(x, responses),
         y.rt = x.rt, y.calls = x.calls, y.mixed = x.mixed, y.response = x.response,
         y.interrupts = x.interrupts, y.generating = x.generating,
         x.rt # 0 => y.net[y.rt] = x.net[x.rt]
  PROVE  Sequenced(y, responses)
<1>2. Collected(y) BY DEF Sequenced, Collected
<1> QED BY <1>2 DEF Sequenced, Awaited, Undone, WireOf

\* The head of the wire of now, whatever it is.
LEMMA PresentSequenced ==
  ASSUME NEW o, OaiFramed(o), NEW responses \in Nat, Sequenced(o, responses), o.rt # 0,
         o.net[o.rt].down # <<>>, NEW y, OaiFramed(y), y.rt = o.rt, y.calls = o.calls,
         y.mixed = o.mixed, y.response = o.response, y.interrupts = o.interrupts,
         y.generating = o.generating, y.net[y.rt].down = Tail(o.net[o.rt].down),
         y.net[y.rt].active = o.net[o.rt].active, y.net[y.rt].open = o.net[o.rt].open
  PROVE  Sequenced(Listener(y, o.rt, Head(o.net[o.rt].down)), responses)
<1> DEFINE k == o.rt
           d == o.net[o.rt].down
           t == Tail(d)
           e == Head(d)
           a == o.net[o.rt].active
           open == o.net[o.rt].open
           z == Listener(y, k, e)
<1>1. Wire(d, a, open, o.response, responses) /\ d # <<>> BY DEF Sequenced, WireOf
<1>2. /\ e \in Events
      /\ Wire(t, a, open, IF e.kind = "created" THEN e.id ELSE o.response, responses)
      /\ e.kind \in {"created", "call"} \cup Ends => e.id \in 1..responses
      /\ e.kind \in {"call"} \cup Ends => e.id = o.response
      /\ e.kind \in Ends => e.id # a
      /\ e.kind = "created" => /\ Lasts(t, 0, e.id, a, open)
                               /\ \A id : ~Lasts(d, 0, id, a, open)
      /\ e.kind \notin {"created"} \cup Ends =>
           \A id : Lasts(d, 0, id, a, open) => Lasts(t, 0, id, a, open)
  <2> HIDE DEF d, a, open
  <2> QED BY <1>1, WireTail
<1>3. y.net[y.rt].down = t /\ y.net[y.rt].active = a /\ y.net[y.rt].open = open /\ y.rt # 0 OBVIOUS
<1>4. (Undone(o) <=> Lasts(d, 0, o.response, a, open)) /\ k = y.rt BY DEF Undone
<1>5. e.id \in Nat BY <1>2 DEF Events
<1> HIDE DEF d, t, e, a, open, k
<1>6. Loose(y, z) BY <1>2, ListenerLoose
<1>7. OaiFramed(z) /\ z.rt = y.rt /\ z.net[z.rt].down = t /\ z.net[z.rt].active = a
      /\ z.net[z.rt].open = open
  BY <1>3, <1>6, KinWire DEF Loose
<1>8. CASE e.kind \notin {"created"} \cup Ends
  <2>2. WireOf(y, responses) BY <1>2, <1>3, <1>8 DEF WireOf
  <2>5. Sequenced(y, responses)
    BY <2>2, <1>3, <1>2, <1>4, <1>8 DEF Sequenced, Collected, Awaited, a, Undone
  <2>6. CASE e.kind = "call" BY <2>6, <1>2, <1>5, <2>5, CallFields DEF Listener, z, k, e, d
  <2>7. CASE e.kind # "call" BY <1>2, <1>8, <2>7, ListenerLoose, <2>5 DEF Kept, z, k, e, d
  <2> QED BY <2>6, <2>7
<1>9. CASE e.kind = "created"
  <2> DEFINE r == e.id
             n == OnResponseCreated(y, r)
  <2>1. z = n BY <1>9 DEF Listener
  <2> HIDE DEF z, r
  <2>0. /\ n.rt = y.rt /\ n.interrupts = y.interrupts
        /\ n.calls = <<>> /\ n.mixed = y.mixed /\ n.response = r /\ n.generating = TRUE
    <3>1. r \in Nat BY <1>5 DEF r
    <3> QED BY <3>1, CreatedFields
  <2> HIDE DEF n
  <2>2. /\ z.rt = y.rt /\ z.interrupts = y.interrupts
        /\ z.calls = <<>> /\ z.mixed = y.mixed /\ z.response = e.id /\ z.generating = TRUE
    BY <2>0, <2>1 DEF r
  <2>3. ~Undone(o) BY <1>2, <1>4, <1>9
  <2>4. Undone(z) BY <1>2, <1>7, <1>9, <2>2 DEF Undone
  <2>5. WireOf(z, responses) BY <1>2, <1>7, <1>9, <2>2 DEF WireOf
  <2>8. e.id \in 1..responses /\ e.id \in 0..responses /\ e.id # 0 BY <1>2, <1>9
  <2>9. z.rt # 0 BY <1>3, <2>2
  <2>10. Sequenced(z, responses)
    BY <2>2, <2>4, <2>5, <2>8, <2>9, EmptySeq, <1>7, <2>3 DEF Sequenced, Collected, Awaited, a
  <2> QED BY <2>10 DEF z, k, e, d
<1>10. CASE e.kind \in Ends
  <2> DEFINE r == e.id
             status == e.kind
             n == OnResponseDone(y, status, r)
  <2>1. z = n BY <1>10 DEF Listener, Ends
  <2> HIDE DEF z, r, status
  <2>2. e.id = y.response /\ o.response # a /\ e.kind # "created" BY <1>2, <1>10 DEF Ends
  <2>3. Collected(y) BY DEF Collected, Sequenced
  <2>10. /\ n.response = y.response /\ n.calls = <<>> /\ ~n.generating
         /\ ~n.mixed
         /\ Len(n.interrupts) = Len(y.interrupts)
         /\ \A i \in 1..Len(y.interrupts) :
              Resolved(y.interrupts[i].wait, n.interrupts[i].wait, FALSE)
    BY <2>3, DoneFields, <1>5, <1>10, <2>2 DEF r, status
  <2> HIDE DEF n
  <2>4. /\ z.response = y.response /\ z.calls = <<>> /\ ~z.generating
        /\ ~z.mixed
        /\ Len(z.interrupts) = Len(y.interrupts)
        /\ \A i \in 1..Len(y.interrupts) :
             Resolved(y.interrupts[i].wait, z.interrupts[i].wait, FALSE)
    BY <2>1, <2>10
  <2>5. WireOf(z, responses) BY <1>2, <1>7, <2>2, <2>4 DEF WireOf
  <2>6. Collected(z) BY EmptySeq, <2>4 DEF Collected
  <2>7. /\ \A i \in 1..Len(z.interrupts) : z.interrupts[i].wait.of <= responses
        /\ Awaited(z)
    <3>1. ASSUME NEW i \in 1..Len(z.interrupts)
          PROVE  LET w == y.interrupts[i].wait
                     v == z.interrupts[i].wait IN
                 /\ v.of <= responses
                 /\ Names(v) => /\ v.over
                                /\ z.rt # 0 /\ v.over /\ ~v.excused => z.net[z.rt].active # v.of
      <4> DEFINE w == y.interrupts[i].wait
                 v == z.interrupts[i].wait
      <4>1. Resolved(w, v, FALSE) BY <2>4
      <4>2. w.of <= responses BY <2>4 DEF Sequenced
      <4>3. Names(w) => /\ ~w.over => w.of = o.response
                        /\ w.over /\ ~w.excused => a # w.of
        BY <2>4 DEF Sequenced, Awaited, a
      <4> HIDE DEF v, w
      <4> QED BY <1>7, <4>2, <2>2, <4>3, <4>1 DEF v, w, Names, Resolved
    <3> QED BY <3>1 DEF Awaited
  <2> QED BY <2>4, <2>5, <2>6, <2>7 DEF z, k, e, d, Sequenced
<1> QED BY <1>8, <1>9, <1>10

\* An event is delivered.
LEMMA DeliverSound ==
  ASSUME OaiSound, NEW k \in Sockets, Deliver(k)
  PROVE  OaiSound'
<1> DEFINE o == openai
           d == openai.net[k].down
           e == Head(d)
           y == [openai EXCEPT !.net[k].down = Tail(@)]
           z == Listener(y, k, e)
           w == [z EXCEPT !.stale = @ \/ (k # y.rt /\ z # y)]
           v == openai'
<1>1. /\ OaiFramed(o) /\ Pristine(o, used.sockets) /\ ~o.overlap /\ IdleSound(o)
      /\ used.responses \in Nat /\ used.sockets \in Nat
      /\ (~o.stale => Sequenced(o, used.responses))
  BY DEF OaiSound, Books
<1>2. d # <<>> /\ used' = used /\ v = [z EXCEPT !.stale = @ \/ (k # o.rt /\ z # y)]
  BY DEF Deliver, Handle
<1>3. d \in Seq(Events) /\ e \in Events /\ Tail(d) \in Seq(Events)
  BY <1>1, <1>2, HeadTailProperties DEF OaiFramed, Sock
<1>4. /\ DOMAIN y = OaiFields /\ y.dial = o.dial /\ y.rt = o.rt /\ y.overlap = o.overlap
      /\ y.stale = o.stale /\ y.calls = o.calls /\ y.mixed = o.mixed /\ y.response = o.response
      /\ y.interrupts = o.interrupts /\ y.generating = o.generating /\ y.waiter = o.waiter
      /\ y.whenIdle = o.whenIdle /\ y.cut = o.cut /\ y.quiesced = o.quiesced
      /\ y.net = [o.net EXCEPT ![k].down = Tail(@)]
  BY <1>1 DEF OaiFramed, OaiFields
<1> HIDE DEF y
<1>5. /\ DOMAIN y.net = Sockets /\ DOMAIN y.net[k] = DOMAIN o.net[k]
      /\ y.net[k].down = Tail(d) /\ y.net[k].active = o.net[k].active
      /\ y.net[k].open = o.net[k].open
      /\ \A j \in Sockets : j # k => y.net[j] = o.net[j]
  BY <1>1, <1>4 DEF OaiFramed, Sock
<1> HIDE DEF e, d
<1>6. \A j \in Sockets : Sock(y.net[j]) BY <1>1, <1>3, <1>5 DEF OaiFramed, Sock
<1>7. OaiFramed(y) /\ IdleSound(y) BY <1>1, <1>4, <1>5, <1>6 DEF OaiFramed, IdleSound
<1>8. Pristine(y, used.sockets) BY <1>1, <1>2, <1>4, <1>5 DEF Pristine, d
<1>9. Loose(y, z) BY <1>3, <1>7, ListenerLoose
<1> HIDE DEF z
<1>10. OaiFramed(z) /\ IdleSound(z) /\ Pristine(z, used.sockets) /\ ~z.overlap
       /\ z.stale = o.stale
       /\ z.rt = o.rt
  BY <1>1, <1>4, <1>7, <1>8, <1>9, KinFramed DEF Loose, Kin, SameNet, OaiFramed
<1>11. /\ DOMAIN v = OaiFields /\ v.dial = z.dial /\ v.rt = z.rt /\ v.overlap = z.overlap
       /\ v.calls = z.calls /\ v.mixed = z.mixed /\ v.response = z.response
       /\ v.interrupts = z.interrupts /\ v.generating = z.generating /\ v.waiter = z.waiter
       /\ v.whenIdle = z.whenIdle /\ v.cut = z.cut /\ v.quiesced = z.quiesced /\ v.net = z.net
       /\ v.stale = (o.stale \/ (k # o.rt /\ z # y))
  BY <1>2, <1>10 DEF OaiFramed, OaiFields
<1> HIDE DEF v
<1>12. OaiFramed(v) BY <1>1, <1>11, <1>10 DEF OaiFramed
<1>13. Pristine(v, used.sockets) /\ IdleSound(v) /\ ~v.overlap
  BY <1>10, <1>11 DEF Pristine, IdleSound
<1>14. ASSUME ~v.stale PROVE Sequenced(v, used.responses)
  <2>1. ~o.stale /\ (k # o.rt => z = y) /\ Sequenced(o, used.responses) BY <1>1, <1>11, <1>14
  <2>2. Sequenced(z, used.responses)
    <3>1. CASE k # o.rt BY <1>1, <1>4, <1>5, <3>1, <2>1, SequencedAlike DEF OaiFramed
    <3>2. CASE k = o.rt
      <4>2. Sequenced(Listener(y, o.rt, Head(o.net[o.rt].down)), used.responses)
        <5>1. /\ OaiFramed(o) /\ Sequenced(o, used.responses) /\ o.rt # 0
              /\ used.responses \in Nat /\ o.net[o.rt].down # <<>> /\ OaiFramed(y)
              /\ y.rt = o.rt /\ y.calls = o.calls /\ y.mixed = o.mixed
              /\ y.response = o.response /\ y.interrupts = o.interrupts
              /\ y.generating = o.generating /\ y.net[y.rt].down = Tail(o.net[o.rt].down)
              /\ y.net[y.rt].active = o.net[o.rt].active
              /\ y.net[y.rt].open = o.net[o.rt].open
          BY <1>1, <1>2, <1>4, <1>5, <1>7, <2>1, <3>2, OpenAIAssumption DEF d, Sockets
        <5> HIDE DEF o
        <5> QED BY <5>1, PresentSequenced
      <4> QED BY <3>2, <4>2 DEF z, e, d
    <3> QED BY <3>1, <3>2
  <2> QED BY <1>11, <2>2, SequencedAlike
<1> QED BY <1>1, <1>2, <1>12, <1>13, <1>14 DEF OaiSound, v

\* What is spent.
LEMMA SpendFacts ==
  ASSUME used \in Books, NEW field \in {"sockets", "responses", "updates", "host", "faults"},
         Spend(field)
  PROVE  /\ used' \in Books
         /\ field = "sockets" => used'.sockets = used.sockets + 1
         /\ field # "sockets" => used'.sockets = used.sockets
         /\ field = "responses" => used'.responses = used.responses + 1
         /\ field # "responses" => used'.responses = used.responses
BY DEF Spend, Books

\* The interrupts change, and only sound waits are among them.
LEMMA InterruptsKept ==
  ASSUME NEW x, NEW y, OaiFramed(x), Kin(x, y), y.interrupts \in Seq(Queued),
         y.calls = x.calls, y.mixed = x.mixed, y.response = x.response,
         y.generating \in BOOLEAN, y.waiter \in BOOLEAN, y.generating => x.generating,
         IdleSound(x) => IdleSound(y),
         \A responses \in Nat : Sequenced(x, responses) =>
           \A i \in 1..Len(y.interrupts) :
             LET wait == y.interrupts[i].wait IN
             /\ wait.of <= responses
             /\ Names(wait) =>
                  /\ ~wait.over => x.rt # 0 /\ wait.of = x.response /\ Undone(x)
                  /\ x.rt # 0 /\ wait.over /\ ~wait.excused => x.net[x.rt].active # wait.of
  PROVE  Kept(x, y)
<1>1. y.response \in Nat BY DEF OaiFramed
<1>2. OaiFramed(y) BY <1>1, KinFramed
<1>3. y.rt = x.rt BY DEF Kin, SameNet
<1>5. ASSUME NEW responses \in Nat, Sequenced(x, responses) PROVE Sequenced(y, responses)
  BY <1>3, <1>5, KinWire DEF Undone, WireOf, Sequenced, Collected, Awaited
<1> QED BY <1>2, <1>5 DEF Kept, Loose

\* The first wait of the queue is replaced.
LEMMA FirstReplaced ==
  ASSUME NEW q \in Seq(Queued), q # <<>>, NEW v \in Waits
  PROVE  LET p == [q EXCEPT ![1].wait = v] IN
         /\ p \in Seq(Queued) /\ Len(p) = Len(q) /\ p[1].wait = v /\ 1 \in 1..Len(q)
         /\ Head(q) = q[1]
         /\ \A i \in 1..Len(q) : i # 1 => p[i] = q[i]
<1> DEFINE p == [q EXCEPT ![1].wait = v]
<1>1. /\ Len(q) \in Nat /\ DOMAIN q = 1..Len(q) /\ \A i \in 1..Len(q) : q[i] \in Queued
  BY LenProperties
<1>2. 1 \in 1..Len(q) /\ Head(q) = q[1] BY EmptySeq, <1>1, HeadTailProperties
<1>3. /\ DOMAIN p = 1..Len(q) /\ p[1] = [q[1] EXCEPT !.wait = v]
      /\ \A i \in 1..Len(q) : i # 1 => p[i] = q[i]
  BY <1>1, <1>2
<1>4. p = [i \in 1..Len(q) |-> p[i]] BY <1>1
<1> HIDE DEF p
<1>5. p[1] \in Queued /\ p[1].wait = v BY <1>1, <1>2, <1>3 DEF Queued
<1>7. p \in Seq(Queued) BY <1>1, SeqDef, <1>3, <1>4, <1>5
<1>8. Len(p) = Len(q) BY <1>1, <1>3, <1>7, LenProperties
<1> QED BY <1>2, <1>3, <1>5, <1>7, <1>8 DEF p

-----------------------------------------------------------------------------
(* Continuations. *)

\* The head of the queue leaves.
LEMMA DroppedKept ==
  ASSUME NEW o, OaiFramed(o), o.interrupts # <<>>, NEW overlap, overlap => o.overlap
  PROVE  Kept(o, [o EXCEPT !.interrupts = Tail(@), !.overlap = overlap])
<1> DEFINE y == [o EXCEPT !.interrupts = Tail(@), !.overlap = overlap]
           q == o.interrupts
<1>1. /\ DOMAIN y = OaiFields /\ y.dial = o.dial /\ y.rt = o.rt /\ y.overlap = overlap
      /\ y.stale = o.stale /\ y.calls = o.calls /\ y.mixed = o.mixed /\ y.response = o.response
      /\ y.interrupts = Tail(q) /\ y.generating = o.generating /\ y.waiter = o.waiter
      /\ y.whenIdle = o.whenIdle /\ y.cut = o.cut /\ y.quiesced = o.quiesced /\ y.net = o.net
  BY DEF OaiFramed, OaiFields
<1> HIDE DEF y
<1>2. Kin(o, y) BY <1>1 DEF Kin, SameNet, OaiFramed
<1>3. q \in Seq(Queued) BY DEF OaiFramed
<1> HIDE DEF q
<1>4. /\ Tail(q) \in Seq(Queued) /\ Len(Tail(q)) = Len(q) - 1 /\ Len(q) \in Nat
      /\ \A i \in 1..Len(Tail(q)) : Tail(q)[i] = q[i + 1]
  BY <1>3, HeadTailProperties, LenProperties DEF q
<1>5. \A i \in 1..Len(Tail(q)) : i + 1 \in 1..Len(q) /\ Tail(q)[i] = q[i + 1] BY <1>4
<1>6. IdleSound(o) => IdleSound(y) BY <1>1 DEF IdleSound
<1>7. ASSUME NEW responses, Sequenced(o, responses), NEW i \in 1..Len(y.interrupts)
      PROVE  LET wait == y.interrupts[i].wait IN
             /\ wait.of <= responses
             /\ Names(wait) =>
                  /\ ~wait.over => o.rt # 0 /\ wait.of = o.response /\ Undone(o)
                  /\ o.rt # 0 /\ wait.over /\ ~wait.excused => o.net[o.rt].active # wait.of
  <2> DEFINE j == i + 1
  <2>1. j \in 1..Len(q) /\ y.interrupts[i] = q[j] BY <1>1, <1>5
  <2> HIDE DEF j
  <2> QED BY <1>7, <2>1 DEF Sequenced, Awaited, q
<1>8. y.interrupts \in Seq(Queued) /\ y.generating \in BOOLEAN /\ y.waiter \in BOOLEAN
  BY <1>1, <1>4 DEF OaiFramed
<1> QED BY <1>1, <1>2, <1>6, <1>7, <1>8, InterruptsKept DEF y

\* The wait for a cancel is for the response of the transport.
LEMMA WaitForSound ==
  ASSUME NEW o, OaiFramed(o)
  PROVE  /\ WaitFor(o) \in Waits
         /\ \A responses \in Nat : Sequenced(o, responses) =>
              LET wait == WaitFor(o) IN
              /\ wait.of <= responses
              /\ Names(wait) =>
                   /\ ~wait.over => o.rt # 0 /\ wait.of = o.response /\ Undone(o)
                   /\ wait.over => wait.excused
<1> DEFINE w == WaitFor(o)
<1>1. /\ o.waiter \in BOOLEAN /\ o.generating \in BOOLEAN /\ o.response \in Nat BY DEF OaiFramed
<1>2. /\ DOMAIN w = {"over", "excused", "of"} /\ w.over = ~o.waiter /\ w.excused = ~o.waiter
      /\ w.of = IF o.generating THEN o.response ELSE 0
      /\ w = [over |-> w.over, excused |-> w.excused, of |-> w.of]
  BY DEF WaitFor
<1> HIDE DEF w
<1>3. w.of \in Nat /\ w.over \in BOOLEAN /\ w.excused \in BOOLEAN BY <1>1, <1>2
<1>4. w \in Waits BY <1>2, <1>3 DEF Waits
<1>5. ASSUME NEW responses \in Nat, Sequenced(o, responses)
      PROVE  /\ w.of <= responses
             /\ Names(w) =>
                  /\ ~w.over => o.rt # 0 /\ w.of = o.response /\ Undone(o)
                  /\ w.over => w.excused
  BY <1>5, <1>1, <1>2 DEF Sequenced, Names
<1> QED BY <1>4, <1>5 DEF w

\* The head of the queue cancels what runs, and waits for it.
LEMMA CancelKept ==
  ASSUME NEW o, OaiFramed(o), o.interrupts # <<>>
  PROVE  Kept(o, [CancelResponse(o, FALSE) EXCEPT !.interrupts[1].wait = WaitFor(o)])
<1> DEFINE truncate == FALSE
           c == CancelResponse(o, truncate)
           w == WaitFor(o)
           y == [c EXCEPT !.interrupts[1].wait = w]
           q == o.interrupts
           p == y.interrupts
<1> HIDE DEF truncate
<1>1. Tame(o, c) BY ActuateTame
<1> HIDE DEF c
<1>2. OaiFramed(c) /\ c.interrupts = q BY <1>1, TameFramed DEF Tame
<1>3. q \in Seq(Queued) /\ q # <<>> BY DEF OaiFramed
<1>4. w \in Waits BY WaitForSound
<1> HIDE DEF w
<1>5. /\ DOMAIN y = OaiFields /\ y.dial = c.dial /\ y.rt = c.rt /\ y.overlap = c.overlap
      /\ y.stale = c.stale /\ y.calls = c.calls /\ y.mixed = c.mixed /\ y.response = c.response
      /\ y.generating = c.generating /\ y.waiter = c.waiter
      /\ y.whenIdle = c.whenIdle /\ y.cut = c.cut /\ y.quiesced = c.quiesced /\ y.net = c.net
      /\ p = [q EXCEPT ![1].wait = w]
  BY <1>2 DEF OaiFramed, OaiFields
<1> HIDE DEF y, q, p
<1>6. /\ p \in Seq(Queued) /\ Len(p) = Len(q) /\ p[1].wait = w
      /\ \A i \in 1..Len(q) : i # 1 => p[i] = q[i]
  BY <1>3, <1>4, <1>5, FirstReplaced
<1>7. Kin(o, y) BY <1>2, <1>5, <1>1, KinTwice DEF Kin, SameNet, OaiFramed, Tame
<1>8. /\ y.calls = o.calls /\ y.mixed = o.mixed /\ y.response = o.response
      /\ y.generating \in BOOLEAN /\ y.waiter \in BOOLEAN /\ (y.generating => o.generating)
      /\ (IdleSound(o) => IdleSound(y))
  BY <1>1, <1>5 DEF Tame, IdleSound
<1>9. ASSUME NEW responses \in Nat, Sequenced(o, responses), NEW i \in 1..Len(p)
      PROVE  LET wait == p[i].wait IN
             /\ wait.of <= responses
             /\ Names(wait) =>
                  /\ ~wait.over => o.rt # 0 /\ wait.of = o.response /\ Undone(o)
                  /\ o.rt # 0 /\ wait.over /\ ~wait.excused => o.net[o.rt].active # wait.of
  <2>1. CASE i = 1 BY <1>9, WaitForSound, <1>6, <2>1 DEF w
  <2>2. CASE i # 1 BY <1>6, <1>9, <2>2 DEF q, Sequenced, Awaited
  <2> QED BY <2>1, <2>2
<1>10. Kept(o, y) BY <1>6, <1>7, <1>8, <1>9, InterruptsKept DEF p
<1> QED BY <1>10 DEF y, c, w, truncate

\* What waited for a cancel is delivered: that response is over.
LEMMA RunInterruptKept ==
  ASSUME NEW o, OaiFramed(o), ~o.overlap, NEW responses \in Nat, ~o.stale
         => Sequenced(o, responses),
         InterruptReady(o)
  PROVE  Kept(o, RunInterrupt(o))
<1> DEFINE item == Head(o.interrupts)
           over == o.overlap \/ Overlaps(o, item.wait)
           dropped == [o EXCEPT !.interrupts = Tail(@)]
           marked == [dropped EXCEPT !.overlap = @ \/ Overlaps(o, item.wait)]
           y == [o EXCEPT !.interrupts = Tail(@), !.overlap = over]
<1>1. o.interrupts # <<>> /\ (item.wait = NotYet \/ item.wait.over) BY DEF InterruptReady
<1>2. CASE ~Ready(o)
  <2> DEFINE same == o.overlap
             z == [o EXCEPT !.interrupts = Tail(@), !.overlap = same]
  <2>1. Kept(o, z)
    <3> HIDE DEF same
    <3>1. same => o.overlap BY DEF same
    <3> QED BY <1>1, <3>1, DroppedKept
  <2>2. z = dropped BY DEF OaiFramed, OaiFields
  <2> QED BY <2>1, <2>2, <1>2 DEF RunInterrupt
<1>3. CASE Ready(o) /\ item.wait = NotYet BY <1>3, <1>1, CancelKept DEF RunInterrupt
<1>4. CASE Ready(o) /\ item.wait # NotYet
  <2>1. ~Overlaps(o, item.wait)
    <3> SUFFICES ASSUME Overlaps(o, item.wait) PROVE FALSE OBVIOUS
    <3>1. /\ item.wait.of # 0 /\ o.rt # 0 /\ o.net[o.rt].active = item.wait.of
          /\ ~item.wait.excused /\ ~o.stale
      BY DEF Overlaps
    <3>2. Sequenced(o, responses) /\ o.net[o.rt].active \in 0..responses
      BY <3>1 DEF Sequenced, WireOf, Wire
    <3>4. item = o.interrupts[1] /\ 1 \in 1..Len(o.interrupts)
      BY <1>1, EmptySeq, LenProperties, HeadTailProperties DEF OaiFramed
    <3>5. Names(item.wait) BY <3>1, <3>2 DEF Names
    <3>6. o.net[o.rt].active # item.wait.of
      <4> DEFINE i == 1
      <4>1. i \in 1..Len(o.interrupts) /\ item = o.interrupts[i] BY <3>4
      <4> HIDE DEF item, i
      <4> QED BY <1>1, <1>4, <3>1, <3>2, <3>5, <4>1 DEF Sequenced, Awaited
    <3> QED BY <3>1, <3>6
  <2>2. Kept(o, y)
    <3>1. over => o.overlap BY <2>1
    <3> HIDE DEF over
    <3> QED BY <1>1, <3>1, DroppedKept
  <2>3. marked = y BY DEF OaiFramed, OaiFields
  <2>4. RunInterrupt(o) = SendToolResultNow(marked, item.result) BY <1>4 DEF RunInterrupt
  <2> HIDE DEF marked, y, item
  <2> QED BY <2>2, <2>3, <2>4, KeptTwice, SendToolResultTame, TameKept DEF Kept, Loose
<1> QED BY <1>2, <1>3, <1>4

\* Promise continuations.
LEMMA ContinueSound ==
  ASSUME OaiSound, Continue
  PROVE  OaiSound'
<1> DEFINE o == openai
<1>1. /\ OaiFramed(o) /\ ~o.overlap /\ used \in Books
      /\ (~o.stale => Sequenced(o, used.responses))
  BY DEF OaiSound
<1>2. used' = used BY DEF Continue
<1>3. Kept(openai, openai')
  <2>1. CASE InterruptReady(openai) /\ openai' = RunInterrupt(openai)
    BY <1>1, <2>1, RunInterruptKept DEF Books
  <2>2. CASE DirectReady(openai) /\ openai' = RunDirect(openai)
    <3> DEFINE y == [o EXCEPT !.direct = <<>>]
    <3>1. Tame(o, y) BY <1>1 DEF Tame, Kin, SameNet, OaiFramed, OaiFields, IdleSound
    <3>2. openai' = IF ~Ready(o) THEN y ELSE CreateResponse(y) BY <2>2 DEF RunDirect
    <3> HIDE DEF y, o
    <3> QED BY <1>1, TameKept, <3>1, <3>2, CreateTame, TameTwice, TameFramed DEF o
  <2>3. CASE UpdateReady(openai) /\ openai' = StartUpdate(openai)
    <3> DEFINE y == [o EXCEPT !.updates[1].flying = TRUE]
    <3>1. Tame(o, y) BY <1>1 DEF Tame, Kin, SameNet, OaiFramed, OaiFields, IdleSound
    <3>2. openai' = Send(y, "update", 0) BY <2>3 DEF StartUpdate
    <3> HIDE DEF y, o
    <3> QED BY <1>1, TameKept, <3>1, <3>2, SendTame, TameTwice, TameFramed DEF o
  <2> QED BY <2>1, <2>2, <2>3 DEF Continue
<1>4. used.sockets \in Nat BY <1>1 DEF Books
<1> QED BY <1>3, KeptStep, <1>1, <1>2, <1>4

\* A step that spends nothing of sockets and responses.
LEMMA KeptSpent ==
  ASSUME OaiSound, Kept(openai, openai'),
         \/ used' = used
         \/ \E field \in {"updates", "host", "faults"} : Spend(field)
  PROVE  OaiSound'
<1>1. used \in Books BY DEF OaiSound
<1>3. used.sockets \in Nat BY <1>1 DEF Books
<1> QED BY KeptStep, <1>3, <1>1, SpendFacts

\* The timers.
LEMMA TimersSound ==
  ASSUME OaiSound, OpenAITimers
  PROVE  OaiSound'
<1> DEFINE o == openai
<1>1. OaiFramed(o) BY DEF OaiSound
<1>2. \/ used' = used
      \/ \E field \in {"updates", "host", "faults"} : Spend(field)
  BY DEF OpenAITimers, CancelTimeout, DialTimeout, UpdateTimeout, Ring, Fault
<1>3. CASE o.interrupts # <<>> /\ openai' = [openai EXCEPT !.interrupts[1].wait =
                                                Over(openai.interrupts[1].wait, TRUE)]
  <2> DEFINE q == o.interrupts
             v == Over(q[1].wait, TRUE)
             y == openai'
             p == y.interrupts
  <2>1. q \in Seq(Queued) /\ q # <<>> BY <1>1, <1>3 DEF OaiFramed
  <2>2. q[1].wait \in Waits
    <3>2. q[1] \in Queued BY <2>1, ElementOfSeq, EmptySeq, LenProperties
    <3> QED BY <3>2 DEF Queued
  <2>3. v \in Waits /\ v.over = TRUE /\ v.excused = TRUE /\ v.of = q[1].wait.of
    BY <2>2 DEF Over, Waits
  <2> HIDE DEF v
  <2>4. /\ DOMAIN y = OaiFields /\ y.dial = o.dial /\ y.rt = o.rt /\ y.overlap = o.overlap
        /\ y.stale = o.stale /\ y.calls = o.calls /\ y.mixed = o.mixed
        /\ y.response = o.response /\ y.generating = o.generating /\ y.waiter = o.waiter
        /\ y.whenIdle = o.whenIdle /\ y.cut = o.cut /\ y.quiesced = o.quiesced
        /\ y.net = o.net /\ p = [q EXCEPT ![1].wait = v]
    BY <1>1, <1>3 DEF OaiFramed, OaiFields, v
  <2> HIDE DEF y, q, p, o
  <2>5. /\ p \in Seq(Queued) /\ Len(p) = Len(q) /\ p[1].wait = v /\ 1 \in 1..Len(q)
        /\ \A i \in 1..Len(q) : i # 1 => p[i] = q[i]
    BY <2>1, <2>3, <2>4, FirstReplaced
  <2>6. Kin(o, y) BY <1>1, <2>4 DEF Kin, SameNet, OaiFramed
  <2>7. /\ y.generating \in BOOLEAN /\ y.waiter \in BOOLEAN
        /\ (IdleSound(o) => IdleSound(y))
    BY <1>1, <2>4 DEF OaiFramed, IdleSound
  <2>8. ASSUME NEW responses \in Nat, Sequenced(o, responses), NEW i \in 1..Len(p)
        PROVE  LET wait == p[i].wait IN
               /\ wait.of <= responses
               /\ Names(wait) =>
                    /\ ~wait.over => o.rt # 0 /\ wait.of = o.response /\ Undone(o)
                    /\ o.rt # 0 /\ wait.over /\ ~wait.excused => o.net[o.rt].active # wait.of
    <3>1. q[1].wait.of <= responses
      <4> DEFINE n == 1
      <4>1. n \in 1..Len(o.interrupts) BY <2>5 DEF q
      <4> HIDE DEF n
      <4> QED BY <2>8, <4>1 DEF q, n, Sequenced
    <3>2. CASE i = 1 BY <2>3, <2>5, <3>1, <3>2
    <3>3. CASE i # 1 BY <2>5, <2>8, <3>3 DEF q, Sequenced, Awaited
    <3> QED BY <3>2, <3>3
  <2>10. /\ y.interrupts \in Seq(Queued) /\ y.calls = o.calls /\ y.mixed = o.mixed
         /\ y.response = o.response /\ (y.generating => o.generating)
    BY <2>4, <2>5 DEF p
  <2>9. Kept(o, y) BY <1>1, <2>6, <2>7, <2>10, InterruptsKept, <2>8 DEF p
  <2> QED BY <1>2, <2>9, KeptSpent DEF o, y
<1>4. CASE openai' = [openai EXCEPT !.direct[1] = Over(@, TRUE)]
  <2>1. Tame(openai, openai') BY <1>1, <1>4 DEF Tame, Kin, SameNet, OaiFramed, OaiFields, IdleSound
  <2> QED BY <1>1, <1>2, <2>1, TameKept, KeptSpent
<1>5. CASE DialTimeout
  <2>1. Tame(openai, openai')
    BY <1>1, <1>5 DEF DialTimeout, Tame, Kin, SameNet, OaiFramed, OaiFields, IdleSound
  <2> QED BY <1>1, <1>2, <2>1, TameKept, KeptSpent
<1>6. CASE UpdateTimeout
  <2> DEFINE ok == FALSE
  <2>1. openai' = SettleUpdate(openai, ok) BY <1>6 DEF UpdateTimeout
  <2> HIDE DEF ok
  <2> QED BY <1>1, <1>2, TameKept, KeptSpent, <2>1, SettleTame
<1> QED BY <1>3, <1>4, <1>5, <1>6 DEF OpenAITimers, CancelTimeout

-----------------------------------------------------------------------------
(* The host, on the connection it has. *)

\* One lemma for all of these calls.
LEMMA HostSound ==
  ASSUME OaiSound,
         \/ UpdateSession \/ DirectInput \/ BargeIn \/ SendContent \/ Quiesce \/ Unquiesce
         \/ \E id \in Results, scheduling \in Schedulings : SendToolResult(id, scheduling)
  PROVE  OaiSound'
<1> DEFINE o == openai
<1>1. OaiFramed(o) /\ IdleSound(o) BY DEF OaiSound
<1>2. \E field \in {"updates", "host", "faults"} : Spend(field)
  BY DEF UpdateSession, DirectInput, BargeIn, SendContent, Quiesce, Unquiesce,
     SendToolResult,
         HostCall
<1>3. CASE UpdateSession
  <2> DEFINE forConnect == FALSE
  <2>1. openai' = EnqueueUpdate(openai, forConnect) BY <1>3 DEF UpdateSession
  <2> HIDE DEF forConnect
  <2> QED BY <1>1, <1>2, TameKept, KeptSpent, <2>1, EnqueueTame
<1>4. CASE DirectInput
  <2> DEFINE truncate == FALSE
             c == CancelResponse(openai, truncate)
  <2>1. openai' = [c EXCEPT !.direct = <<WaitFor(openai)>>] BY <1>4 DEF DirectInput
  <2> HIDE DEF truncate
  <2>2. Tame(openai, c) BY <1>1, ActuateTame
  <2> HIDE DEF c
  <2>3. OaiFramed(c) BY <1>1, <2>2, TameFramed
  <2>4. Tame(c, openai') BY <2>1, <2>3 DEF Tame, Kin, SameNet, OaiFramed, OaiFields, IdleSound
  <2> QED BY <1>1, <1>2, TameKept, KeptSpent, <2>2, <2>4, TameTwice
<1>5. CASE BargeIn
  <2> DEFINE truncate == TRUE
  <2>1. openai' = CancelResponse(openai, truncate) BY <1>5 DEF BargeIn
  <2> HIDE DEF truncate
  <2> QED BY <1>1, <1>2, TameKept, KeptSpent, <2>1, ActuateTame
<1>6. CASE SendContent BY <1>1, <1>6, CreateTame, <1>2, TameKept, KeptSpent DEF SendContent
<1>7. CASE Quiesce
  <2> DEFINE y == [openai EXCEPT !.quiesced = TRUE]
  <2>1. openai' \in {y, ActuateCancelInternal(y)} BY <1>7 DEF Quiesce
  <2>2. Tame(openai, y) BY <1>1 DEF Tame, Kin, SameNet, OaiFramed, OaiFields, IdleSound
  <2> HIDE DEF y
  <2>5. Tame(openai, openai') BY <1>1, <2>1, <2>2, TameTwice, ActuateTame, TameFramed
  <2> QED BY <1>1, <1>2, <2>5, TameKept, KeptSpent
<1>8. CASE Unquiesce
  <2> DEFINE y == [o EXCEPT !.quiesced = FALSE, !.suppressAudio = FALSE]
             f == FlushPendingWhenIdle(y)
  <2>1. openai' = f BY <1>8 DEF Unquiesce
  <2>2. /\ DOMAIN y = OaiFields /\ y.dial = o.dial /\ y.rt = o.rt /\ y.overlap = o.overlap
        /\ y.stale = o.stale /\ y.calls = o.calls /\ y.mixed = o.mixed
        /\ y.response = o.response /\ y.interrupts = o.interrupts
        /\ y.generating = o.generating /\ y.waiter = o.waiter
        /\ y.whenIdle = o.whenIdle /\ y.net = o.net /\ y.quiesced = FALSE
    BY <1>1 DEF OaiFramed, OaiFields
  <2> HIDE DEF y, o
  <2>3. OaiFramed(y) BY <1>1, <2>2 DEF OaiFramed
  <2>4. Kin(o, y) BY <1>1, <2>2 DEF Kin, SameNet, OaiFramed
  <2>5. /\ Tame(y, f)
        /\ y.rt # 0 /\ ~y.quiesced => f.whenIdle = <<>>
        /\ f.whenIdle # <<>> => f.whenIdle = y.whenIdle
    BY <2>3, FlushTame
  <2> HIDE DEF f
  <2>7. Tame(o, f) BY <2>4, <2>5, KinTwice, <2>2, <1>1 DEF Tame, IdleSound
  <2> QED BY <1>1, <1>2, <2>1, <2>7, TameKept, KeptSpent DEF o
<1>9. ASSUME NEW id \in Results, NEW scheduling \in Schedulings, SendToolResult(id, scheduling)
      PROVE  OaiSound'
  <2> DEFINE result == [id |-> id, scheduling |-> scheduling]
             item == [result |-> result, wait |-> NotYet]
             waits == [o EXCEPT !.whenIdle = Append(@, result)]
             queues == [o EXCEPT !.interrupts = Append(@, item)]
             y == openai'
  <2>1. Ready(o) /\ o.rt # 0 BY <1>9 DEF SendToolResult, Ready
  <2>2. CASE y = waits /\ o.generating
    <3>1. Tame(o, y) BY <1>1, <2>1, <2>2 DEF Tame, Kin, SameNet, OaiFramed, OaiFields, IdleSound
    <3> QED BY <1>1, <1>2, <3>1, TameKept, KeptSpent
  <2>3. CASE y = queues
    <3> DEFINE q == o.interrupts
    <3>1. /\ DOMAIN y = OaiFields /\ y.dial = o.dial /\ y.rt = o.rt /\ y.overlap = o.overlap
          /\ y.stale = o.stale /\ y.calls = o.calls /\ y.mixed = o.mixed
          /\ y.response = o.response /\ y.interrupts = Append(q, item)
          /\ y.generating = o.generating /\ y.waiter = o.waiter
          /\ y.whenIdle = o.whenIdle /\ y.net = o.net /\ y.quiesced = o.quiesced
          /\ y.cut = o.cut
      BY <1>1, <2>3 DEF OaiFramed, OaiFields
    <3>2. item \in Queued /\ item.wait.of = -1 BY DEF Queued, Waits, NotYet
    <3> HIDE DEF y, o, item
    <3>3. Kin(o, y) BY <1>1, <3>1 DEF Kin, SameNet, OaiFramed
    <3>4. q \in Seq(Queued) BY <1>1 DEF OaiFramed
    <3>5. /\ y.interrupts \in Seq(Queued) /\ Len(y.interrupts) = Len(q) + 1 /\ Len(q) \in Nat
          /\ y.interrupts[Len(q) + 1] = item
          /\ \A i \in 1..Len(q) : y.interrupts[i] = q[i]
      BY <3>1, <3>2, <3>4, AppendProperties, LenProperties
    <3>6. ASSUME NEW responses \in Nat, Sequenced(o, responses), NEW i \in 1..Len(y.interrupts)
          PROVE  LET wait == y.interrupts[i].wait IN
                 /\ wait.of <= responses
                 /\ Names(wait) =>
                      /\ ~wait.over => o.rt # 0 /\ wait.of = o.response /\ Undone(o)
                      /\ o.rt # 0 /\ wait.over /\ ~wait.excused => o.net[o.rt].active # wait.of
      <4>1. CASE i \in 1..Len(q) BY <3>5, <3>6, <4>1 DEF Sequenced, Awaited
      <4>2. CASE i = Len(q) + 1 BY <3>2, <3>5, <4>2 DEF Names
      <4> QED BY <3>5, <4>1, <4>2
    <3>7. /\ y.generating \in BOOLEAN /\ y.waiter \in BOOLEAN
          /\ (IdleSound(o) => IdleSound(y))
      BY <1>1, <3>1 DEF OaiFramed, IdleSound
    <3>8. Kept(o, y) BY <1>1, <3>1, <3>3, <3>5, <3>6, <3>7, InterruptsKept
    <3> QED BY <1>2, <3>8, KeptSpent DEF o, y
  <2>4. CASE y = SendToolResultNow(o, result)
    <3> HIDE DEF result
    <3>1. Tame(o, y) BY <1>1, <2>4, SendToolResultTame
    <3> QED BY <1>1, <1>2, <3>1, TameKept, KeptSpent
  <2> QED BY <1>9, <2>2, <2>3, <2>4 DEF SendToolResult
<1> QED BY <1>3, <1>4, <1>5, <1>6, <1>7, <1>8, <1>9

\* Nothing is sent on a socket that is gone, and nothing that waited is left.
LEMMA DisconnectSound ==
  ASSUME NEW o, OaiFramed(o), NEW sockets, Pristine(o, sockets), ~o.overlap,
         NEW responses \in Nat,
         ~o.stale => Sequenced(o, responses)
  PROVE  LET z == Disconnect(o) IN
         /\ OaiFramed(z) /\ Pristine(z, sockets) /\ ~z.overlap /\ z.whenIdle = <<>> /\ z.rt = 0
         /\ ~z.generating
         /\ ~z.stale => Sequenced(z, responses)
<1> DEFINE excused == TRUE
           x == ResolveWaiter(o, excused)
           y == [x EXCEPT !.connected = FALSE, !.whenIdle = <<>>,
                          !.generating = FALSE, !.suppressAudio = FALSE, !.rt = 0]
           k == o.rt
           event == Event("close", 0)
           h == [y EXCEPT !.net[k].open = FALSE, !.net[k].active = 0]
           e == [h EXCEPT !.net[k].down = Append(@, event)]
           z == HangUp(y, k)
<1>1. excused \in BOOLEAN /\ excused OBVIOUS
<1>2. Disconnect(o) = z BY DEF Disconnect
<1> HIDE DEF excused
<1>3. /\ DOMAIN x = OaiFields /\ x.waiter = FALSE
      /\ Kin(o, x) /\ OaiFramed(x)
      /\ x.calls = o.calls /\ x.mixed = o.mixed /\ x.response = o.response
      /\ x.rt = o.rt /\ x.net = o.net
      /\ Len(x.interrupts) = Len(o.interrupts)
      /\ \A i \in 1..Len(o.interrupts) :
           Resolved(o.interrupts[i].wait, x.interrupts[i].wait, excused)
  BY <1>1, ResolveFields
<1> HIDE DEF x
<1>4. /\ DOMAIN y = OaiFields /\ y.dial = x.dial /\ y.rt = 0 /\ y.overlap = x.overlap
      /\ y.stale = x.stale /\ y.calls = x.calls /\ y.mixed = x.mixed
      /\ y.response = x.response /\ y.interrupts = x.interrupts
      /\ y.generating = FALSE /\ y.waiter = x.waiter
      /\ y.whenIdle = <<>> /\ y.net = x.net
  BY <1>3 DEF OaiFields
<1> HIDE DEF y
<1>5. OaiFramed(y) /\ Pristine(y, sockets) /\ ~y.overlap /\ y.stale = o.stale
  <2>1. OaiFramed(y) BY <1>3, <1>4 DEF OaiFramed
  <2> QED BY <1>4, <2>1, <1>3 DEF Pristine, Kin
<1>6. ASSUME ~o.stale, NEW w, w.rt = 0, w.calls = y.calls, w.mixed = y.mixed,
             w.response = y.response, w.interrupts = y.interrupts, w.generating = FALSE
      PROVE  Sequenced(w, responses)
  <2>1. Sequenced(o, responses) BY <1>6
  <2>4. Collected(w) BY <1>3, <1>4, <1>6, <2>1 DEF Sequenced, Collected
  <2> QED BY <1>3, <1>4, <1>6, <2>1, <2>4, <1>1 DEF Sequenced, Resolved, Awaited, Names
<1>7. CASE k = 0 \/ ~y.net[k].open
  <2>1. z = y BY <1>7 DEF HangUp
  <2>2. ~y.stale => Sequenced(y, responses) BY <1>4, <1>5, <1>6
  <2> HIDE DEF z
  <2> QED BY <1>2, <1>4, <1>5, <2>1, <2>2
<1>8. CASE ~(k = 0 \/ ~y.net[k].open)
  <2>1. z = e BY <1>8 DEF HangUp, Emit
  <2>2. k \in Sockets /\ Sock(y.net[k]) BY <1>5, <1>8 DEF OaiFramed
  <2> HIDE DEF event
  <2>3. /\ DOMAIN h = OaiFields /\ h.dial = y.dial /\ h.rt = y.rt /\ h.overlap = y.overlap
        /\ h.stale = y.stale /\ h.calls = y.calls /\ h.mixed = y.mixed
        /\ h.response = y.response /\ h.interrupts = y.interrupts
        /\ h.generating = y.generating /\ h.waiter = y.waiter
        /\ h.whenIdle = y.whenIdle
        /\ DOMAIN h.net = Sockets /\ (\A j \in Sockets : j # k => h.net[j] = y.net[j])
        /\ DOMAIN h.net[k] = DOMAIN y.net[k] /\ h.net[k].open = FALSE /\ h.net[k].active = 0
        /\ h.net[k].open \in BOOLEAN
        /\ h.net[k].down = y.net[k].down
    BY <1>4, <1>5, <2>2 DEF OaiFields, OaiFramed, Sock
  <2> HIDE DEF h
  <2>4. /\ DOMAIN e = OaiFields /\ e.dial = h.dial /\ e.rt = h.rt /\ e.overlap = h.overlap
        /\ e.stale = h.stale /\ e.calls = h.calls /\ e.mixed = h.mixed
        /\ e.response = h.response /\ e.interrupts = h.interrupts
        /\ e.generating = h.generating /\ e.waiter = h.waiter
        /\ e.whenIdle = h.whenIdle
        /\ DOMAIN e.net = Sockets /\ (\A j \in Sockets : j # k => e.net[j] = h.net[j])
        /\ DOMAIN e.net[k] = DOMAIN h.net[k] /\ e.net[k].open = FALSE /\ e.net[k].active = 0
        /\ e.net[k].open \in BOOLEAN
        /\ e.net[k].down = Append(h.net[k].down, event)
    BY <2>2, <2>3 DEF OaiFields, OaiFramed, Sock
  <2> HIDE DEF e, z
  <2>5. event \in Events BY DEF EventKinds, event, Event, Events
  <2>6. Sock(e.net[k])
    <3>1. e.net[k].down \in Seq(Events)
      <4> DEFINE d == y.net[k].down
      <4>1. d \in Seq(Events) /\ e.net[k].down = Append(d, event) BY <2>2, <2>3, <2>4 DEF Sock
      <4> HIDE DEF d
      <4> QED BY <4>1, <2>5, AppendProperties
    <3> DEFINE n == e.net[k]
    <3>2. DOMAIN n = {"open", "up", "down", "active"} /\ n.open \in BOOLEAN /\ n.active = 0
          /\ n.down \in Seq(Events)
      BY <2>2, <2>3, <2>4, <3>1 DEF Sock
    <3> HIDE DEF n
    <3>4. Sock(n) BY <3>2 DEF Sock
    <3> QED BY <3>4 DEF n
  <2>7. OaiFramed(e) BY <1>5, <2>3, <2>4, <2>6 DEF OaiFramed
  <2>8. Pristine(e, sockets)
    <3>1. ~(k > sockets) BY <2>2, OpenAIAssumption DEF Pristine, Sockets
    <3>2. /\ sockets \in Nat /\ e.rt <= sockets
          /\ \A j \in Sockets : j > sockets =>
               ~y.net[j].open /\ y.net[j].active = 0 /\ y.net[j].down = <<>> /\ e.dial.sock # j
      <4> QED BY <1>5, <1>4, <2>3, <2>4 DEF Pristine
    <3>3. \A j \in Sockets : j > sockets => e.net[j] = y.net[j] BY <2>3, <2>4, <3>1
    <3> QED BY <3>2, <3>3 DEF Pristine
  <2>9. ~o.stale => Sequenced(e, responses) BY <1>4, <1>6, <2>3, <2>4
  <2> QED BY <1>2, <1>4, <1>5, <2>1, <2>3, <2>4, <2>7, <2>8, <2>9
<1> QED BY <1>7, <1>8

\* A fresh socket, on which nothing is running and nobody waits.
LEMMA RedialSound ==
  ASSUME OaiSound, Redial
  PROVE  OaiSound'
<1> DEFINE o == openai
           z == Disconnect(o)
           k == used.sockets + 1
           w == openai'
           max == used.responses
<1>1. /\ OaiFramed(o) /\ Pristine(o, used.sockets) /\ ~o.overlap /\ used \in Books
      /\ used.responses \in Nat /\ used.sockets \in Nat
      /\ (~o.stale => Sequenced(o, max))
  BY DEF OaiSound, Books
<1>2. used' \in Books /\ used'.sockets = k /\ used'.responses = max BY <1>1, SpendFacts DEF Redial
<1>3. w = Connect(z, k) BY DEF Redial
<1>4. k \in Sockets /\ k # 0 /\ k > used.sockets /\ k \in Nat
  BY OpenAIAssumption, <1>1 DEF Redial, Sockets
<1>5. /\ OaiFramed(z) /\ Pristine(z, used.sockets) /\ ~z.overlap /\ z.whenIdle = <<>> /\ z.rt = 0
      /\ ~z.generating
      /\ (~z.stale => Sequenced(z, max))
  BY <1>1, DisconnectSound
<1> HIDE DEF z, k, o
<1>6. /\ DOMAIN w = OaiFields /\ DOMAIN w.dial = {"sock", "phase"} /\ w.dial.sock = k
      /\ w.rt = k /\ w.overlap = z.overlap
      /\ w.stale = z.stale /\ w.calls = z.calls /\ w.mixed = z.mixed
      /\ w.response = z.response /\ w.interrupts = z.interrupts
      /\ w.generating = z.generating /\ w.waiter = z.waiter
      /\ w.whenIdle = z.whenIdle
      /\ DOMAIN w.net = Sockets /\ (\A j \in Sockets : j # k => w.net[j] = z.net[j])
      /\ DOMAIN w.net[k] = DOMAIN z.net[k] /\ w.net[k].open = TRUE
      /\ w.net[k].active = z.net[k].active /\ w.net[k].down = z.net[k].down
  BY <1>3, <1>4, <1>5 DEF Connect, OaiFramed, OaiFields, Sock
<1> HIDE DEF w
<1>7. z.net[k].active = 0 /\ z.net[k].down = <<>> BY <1>4, <1>5 DEF Pristine
<1>8. OaiFramed(w)
  <2>1. Sock(w.net[k]) BY <1>4, <1>5, <1>6 DEF OaiFramed, Sock
  <2> QED BY <1>4, <1>5, <1>6, <2>1 DEF OaiFramed
<1>9. Pristine(w, k)
  <2>1. \A j \in Sockets : j > k => j > used.sockets /\ j # k
    BY OpenAIAssumption, <1>1, <1>4 DEF Sockets, k
  <2>2. ASSUME NEW j \in Sockets, j > k
        PROVE  ~w.net[j].open /\ w.net[j].active = 0 /\ w.net[j].down = <<>> /\ w.dial.sock # j
    BY <2>1, <2>2, <1>5, <1>6 DEF Pristine
  <2>3. k \in Nat /\ w.rt <= k BY <1>4, <1>6
  <2> QED BY <2>2, <2>3 DEF Pristine
<1>10. ASSUME ~w.stale PROVE Sequenced(w, max)
  <2>1. Sequenced(z, max) BY <1>5, <1>6, <1>10
  <2>2. WireOf(w, max) BY <1>6, <1>7, <1>1, WireEmpty DEF WireOf
  <2>3. Collected(w) BY <1>6, <2>1 DEF Sequenced, Collected
  <2>4. Awaited(w)
    <3> SUFFICES ASSUME NEW i \in 1..Len(w.interrupts), Names(w.interrupts[i].wait)
                 PROVE  LET wait == w.interrupts[i].wait IN
                        /\ wait.over
                        /\ w.net[w.rt].active # wait.of
      BY DEF Awaited
    <3> QED BY <1>5, <1>6, <2>1, <1>7 DEF Names, Sequenced, Awaited
  <2> QED BY <1>5, <1>6, <2>1, <2>2, <2>3, <2>4 DEF Sequenced
<1> QED BY <1>2, <1>8, <1>9, <1>10, <1>5, <1>6 DEF OaiSound, w, IdleSound

\* The host hangs up.
LEMMA HostDisconnectSound ==
  ASSUME OaiSound, HostDisconnect
  PROVE  OaiSound'
<1> DEFINE o == openai
           max == used.responses
           w == openai'
           host == "host"
<1>1. /\ OaiFramed(o) /\ Pristine(o, used.sockets) /\ ~o.overlap /\ used \in Books
      /\ used.responses \in Nat /\ used.sockets \in Nat
      /\ (~o.stale => Sequenced(o, max))
  BY DEF OaiSound, Books
<1>2. used' \in Books /\ used'.sockets = used.sockets /\ used'.responses = max
  BY <1>1, SpendFacts DEF HostDisconnect
<1>3. w = Disconnect(o) BY DEF HostDisconnect
<1>4. /\ OaiFramed(w) /\ Pristine(w, used.sockets) /\ ~w.overlap /\ w.whenIdle = <<>>
      /\ (~w.stale => Sequenced(w, max))
  BY <1>1, <1>3, DisconnectSound
<1> HIDE DEF w
<1>5. IdleSound(w) BY <1>4 DEF IdleSound
<1> QED BY <1>2, <1>4, <1>5 DEF OaiSound, w

\* More responses may have been created.
LEMMA WireMore ==
  ASSUME NEW d, NEW active, NEW open, NEW response, NEW max \in Nat, NEW max2 \in Nat,
         max <= max2,
         Wire(d, active, open, response, max)
  PROVE  Wire(d, active, open, response, max2)
<1> QED BY DEF Wire

\* One end of a socket, before and after the provider has spoken.
Speaks(n, m, response, max, max2) ==
  /\ DOMAIN m = {"open", "up", "down", "active"}
  /\ m.open \in BOOLEAN /\ m.down \in Seq(Events) /\ m.active \in Nat
  /\ Wire(n.down, n.active, n.open, response, max) =>
       /\ Wire(m.down, m.active, m.open, response, max2)
       /\ \A id : id # 0 /\ Lasts(n.down, 0, id, n.active, n.open)
                  => Lasts(m.down, 0, id, m.active, m.open)
       /\ m.active = 0 \/ m.active = n.active \/ m.active > max

\* Nothing but socket k changes.
Wired(x, y, k) ==
  /\ DOMAIN y = OaiFields /\ y.dial = x.dial /\ y.rt = x.rt /\ y.overlap = x.overlap
  /\ y.stale = x.stale /\ y.calls = x.calls /\ y.mixed = x.mixed
  /\ y.response = x.response /\ y.interrupts = x.interrupts
  /\ y.generating = x.generating /\ y.waiter = x.waiter
  /\ y.whenIdle = x.whenIdle /\ y.cut = x.cut /\ y.quiesced = x.quiesced
  /\ DOMAIN y.net = Sockets /\ \A j \in Sockets : j # k => y.net[j] = x.net[j]

\* A step of the provider at the other end of socket k.
LEMMA NetStep ==
  ASSUME OaiSound, NEW k \in Sockets, openai.net[k].open \/ openai.net[k].active # 0,
         Wired(openai, openai', k),
         Speaks(openai.net[k], openai'.net[k], openai.response, used.responses, used'.responses),
         used' \in Books, used'.sockets = used.sockets, used'.responses >= used.responses
  PROVE  OaiSound'
<1> DEFINE o == openai
           y == openai'
           max == used.responses
           max2 == used'.responses
           n == openai.net[k]
           m == openai'.net[k]
<1>1. /\ OaiFramed(o) /\ Pristine(o, used.sockets) /\ ~o.overlap /\ IdleSound(o)
      /\ max \in Nat /\ max2 \in Nat /\ used.sockets \in Nat /\ max <= max2
      /\ (~o.stale => Sequenced(o, max))
  BY DEF OaiSound, Books
<1>2. Wired(o, y, k) /\ Speaks(n, m, o.response, max, max2) /\ n = o.net[k] /\ m = y.net[k]
      /\ (o.net[k].open \/ o.net[k].active # 0)
  OBVIOUS
<1> HIDE DEF o, y, max, max2, n, m
<1>3. OaiFramed(y) BY <1>2, <1>1 DEF Speaks, Sock, Wired, OaiFramed
<1>4. Pristine(y, used.sockets) BY <1>1, <1>2 DEF Pristine, Wired
<1>5. ~y.overlap /\ IdleSound(y) BY <1>1, <1>2 DEF Wired, IdleSound
<1>6. ASSUME ~y.stale PROVE Sequenced(y, max2)
  <2>1. Sequenced(o, max) BY <1>1, <1>2, <1>6 DEF Wired
  <2>2. /\ o.response \in 0..max2
        /\ \A i \in 1..Len(o.interrupts) : o.interrupts[i].wait.of <= max2
    <3>2. ASSUME NEW i \in 1..Len(o.interrupts) PROVE o.interrupts[i].wait.of <= max2
      <4>1. o.interrupts[i] \in Queued BY <1>1, ElementOfSeq DEF OaiFramed
      <4> QED BY <1>1, <2>1, <4>1 DEF Sequenced, Queued, Waits
    <3> QED BY <3>2, <1>1, <2>1 DEF Sequenced
  <2>3. o.rt # 0 =>
          /\ WireOf(y, max2)
          /\ o.response # 0 /\ Undone(o) => Undone(y)
          /\ y.net[y.rt].active = 0 \/ y.net[y.rt].active = o.net[o.rt].active
             \/ y.net[y.rt].active > max
    <3> SUFFICES ASSUME o.rt # 0
                 PROVE  /\ WireOf(y, max2)
                        /\ o.response # 0 /\ Undone(o) => Undone(y)
                        /\ y.net[y.rt].active = 0 \/ y.net[y.rt].active = o.net[o.rt].active
                           \/ y.net[y.rt].active > max
      OBVIOUS
    <3>1. WireOf(o, max) BY <2>1 DEF Sequenced
    <3>2. CASE k # o.rt BY <1>1, <1>2, <3>2, <3>1, WireMore DEF Wired, OaiFramed, WireOf, Undone
    <3>3. CASE k = o.rt BY <1>2, <3>3, <3>1 DEF Wired, Speaks, WireOf, Undone
    <3> QED BY <3>2, <3>3
  <2>4. Collected(y) BY <1>2, <2>1 DEF Wired, Sequenced, Collected
  <2>5. Awaited(y)
    <3> SUFFICES ASSUME NEW i \in 1..Len(y.interrupts), Names(y.interrupts[i].wait)
                 PROVE  LET wait == y.interrupts[i].wait IN
                        /\ ~wait.over => y.rt # 0 /\ wait.of = y.response /\ Undone(y)
                        /\ y.rt # 0 /\ wait.over /\ ~wait.excused => y.net[y.rt].active # wait.of
      BY DEF Awaited
    <3> DEFINE wait == o.interrupts[i].wait
    <3>1. y.interrupts[i].wait = wait /\ i \in 1..Len(o.interrupts) /\ y.rt = o.rt
          /\ y.response = o.response /\ Names(wait)
      BY <1>2 DEF Wired
    <3>2. /\ ~wait.over => o.rt # 0 /\ wait.of = o.response /\ Undone(o)
          /\ o.rt # 0 /\ wait.over /\ ~wait.excused => o.net[o.rt].active # wait.of
          /\ wait.of <= max
      BY <2>1, <3>1 DEF Sequenced, Awaited
    <3>3. wait.of \in Int /\ wait.of # 0
      <4>1. o.interrupts[i] \in Queued BY <1>1, <3>1, ElementOfSeq DEF OaiFramed
      <4> QED BY <3>1, <4>1 DEF Queued, Waits, Names
    <3> HIDE DEF wait
    <3>4. ~wait.over => y.rt # 0 /\ wait.of = y.response /\ Undone(y) BY <2>3, <3>1, <3>2, <3>3
    <3>5. y.rt # 0 /\ wait.over /\ ~wait.excused => y.net[y.rt].active # wait.of
      <4> SUFFICES ASSUME y.rt # 0, wait.over, ~wait.excused, y.net[y.rt].active = wait.of
                   PROVE  FALSE
        OBVIOUS
      <4> QED BY <1>1, <3>1, <3>2, <3>3, <2>3
    <3> QED BY <3>1, <3>4, <3>5
  <2> QED BY <1>2, <2>1, <2>2, <2>3, <2>4, <2>5 DEF Sequenced, Wired
<1> QED BY <1>3, <1>4, <1>5, <1>6 DEF OaiSound, o, y, max, max2

\* What the operators on sockets need of a transport.
Shaped(x) ==
  /\ DOMAIN x = OaiFields /\ DOMAIN x.net = Sockets
  /\ \A k \in Sockets : DOMAIN x.net[k] = {"open", "up", "down", "active"}

\* A framed transport is shaped.
LEMMA FramedShaped ==
  ASSUME NEW o, OaiFramed(o)
  PROVE  Shaped(o)
BY DEF OaiFramed, Shaped, Sock

\* A step at one socket keeps the shape.
LEMMA WiredShaped ==
  ASSUME NEW x, NEW y, NEW k, Shaped(x), Wired(x, y, k),
         DOMAIN y.net[k] = {"open", "up", "down", "active"}
  PROVE  Shaped(y)
BY DEF Wired, Shaped

\* Steps at one socket follow one another.
LEMMA WiredTwice ==
  ASSUME NEW x, NEW y, NEW z, NEW k, Wired(x, y, k), Wired(y, z, k)
  PROVE  Wired(x, z, k)
BY DEF Wired

\* An event is put on the wire.
LEMMA EmitWired ==
  ASSUME NEW x, Shaped(x), NEW k \in Sockets, NEW kind, NEW id, NEW y, y = Emit(x, k, kind, id)
  PROVE  /\ Wired(x, y, k) /\ Shaped(y)
         /\ y.net[k].down = Append(x.net[k].down, Event(kind, id))
         /\ y.net[k].active = x.net[k].active /\ y.net[k].open = x.net[k].open
<1> DEFINE e == Event(kind, id)
<1>1. y = [x EXCEPT !.net[k].down = Append(@, e)] BY DEF Emit
<1> HIDE DEF e
<1>2. Wired(x, y, k) BY <1>1 DEF Wired, Shaped, OaiFields
<1>4. /\ DOMAIN y.net[k] = {"open", "up", "down", "active"}
      /\ y.net[k].down = Append(x.net[k].down, e)
      /\ y.net[k].active = x.net[k].active /\ y.net[k].open = x.net[k].open
  BY <1>1 DEF Shaped, OaiFields
<1>5. Shaped(y) BY <1>2, <1>4, WiredShaped
<1> QED BY <1>2, <1>4, <1>5 DEF e

\* An event of ours is read.
LEMMA ReadWired ==
  ASSUME NEW x, Shaped(x), NEW k \in Sockets
  PROVE  LET y == [x EXCEPT !.net[k].up = Tail(@)] IN
         /\ Wired(x, y, k) /\ Shaped(y)
         /\ y.net[k].down = x.net[k].down
         /\ y.net[k].active = x.net[k].active /\ y.net[k].open = x.net[k].open
<1> DEFINE y == [x EXCEPT !.net[k].up = Tail(@)]
<1>2. Wired(x, y, k) BY DEF Wired, Shaped, OaiFields
<1>3. y.net = [x.net EXCEPT ![k].up = Tail(@)] BY DEF Shaped, OaiFields
<1> HIDE DEF y
<1> QED BY <1>2, WiredShaped, <1>3 DEF y, Shaped

\* A response begins.
LEMMA BeginWired ==
  ASSUME NEW x, Shaped(x), NEW k \in Sockets, NEW r, NEW y, y = Begin(x, k, r)
  PROVE  /\ Wired(x, y, k) /\ Shaped(y)
         /\ y.net[k].down = Append(x.net[k].down, Event("created", r))
         /\ y.net[k].active = r /\ y.net[k].open = x.net[k].open
<1> DEFINE z == [x EXCEPT !.net[k].active = r]
           created == "created"
<1>1. y = Emit(z, k, created, r) BY DEF Begin
<1>2. Wired(x, z, k) BY DEF Wired, Shaped, OaiFields
<1>3. z.net = [x.net EXCEPT ![k].active = r] BY DEF Shaped, OaiFields
<1> HIDE DEF z, created
<1>4. /\ DOMAIN z.net[k] = {"open", "up", "down", "active"}
      /\ z.net[k].down = x.net[k].down
      /\ z.net[k].active = r /\ z.net[k].open = x.net[k].open
  BY <1>3 DEF Shaped
<1>5. Shaped(z) BY <1>2, <1>4, WiredShaped
<1>6. /\ Wired(z, y, k) /\ Shaped(y)
      /\ y.net[k].down = Append(z.net[k].down, Event(created, r))
      /\ y.net[k].active = z.net[k].active /\ y.net[k].open = z.net[k].open
  BY <1>1, <1>5, EmitWired
<1>7. Wired(x, y, k) BY <1>2, <1>6, WiredTwice
<1> QED BY <1>4, <1>6, <1>7 DEF created

\* A response ends.
LEMMA EndWired ==
  ASSUME NEW x, Shaped(x), NEW k \in Sockets, NEW status, NEW y \in End(x, k, status)
  PROVE  /\ Wired(x, y, k) /\ Shaped(y)
         /\ y.net[k].active = 0 /\ y.net[k].open = x.net[k].open
         /\ \E items \in {<<>>, <<Event("call", x.net[k].active)>>} :
              y.net[k].down = x.net[k].down \o items \o <<Event(status, x.net[k].active)>>
<1> DEFINE e == Event(status, x.net[k].active)
           d == x.net[k].down
<1>1. PICK items \in {<<>>, <<Event("call", x.net[k].active)>>} :
        y = [x EXCEPT !.net[k].active = 0, !.net[k].down = @ \o items \o <<e>>]
  BY DEF End
<1> HIDE DEF e
<1>2. Wired(x, y, k) BY <1>1 DEF Wired, Shaped, OaiFields
<1>3. y.net = [x.net EXCEPT ![k].active = 0, ![k].down = @ \o items \o <<e>>]
  BY <1>1 DEF Shaped, OaiFields
<1> DEFINE f == d \o items \o <<e>>
<1>6. y.net = [x.net EXCEPT ![k].active = 0, ![k].down = f] BY <1>3 DEF Shaped
<1> HIDE DEF f
<1>4. /\ DOMAIN y.net[k] = {"open", "up", "down", "active"}
      /\ y.net[k].down = f
      /\ y.net[k].active = 0 /\ y.net[k].open = x.net[k].open
  BY <1>6 DEF Shaped
<1>5. Shaped(y) BY <1>2, <1>4, WiredShaped
<1> QED BY <1>2, <1>4, <1>5 DEF e, f

-----------------------------------------------------------------------------
(* What the provider says. *)

\* An event of no response; its socket may close with it.
LEMMA QuietSpeaks ==
  ASSUME NEW n, Sock(n), NEW m, DOMAIN m = {"open", "up", "down", "active"},
         NEW kind \in EventKinds \ ({"created", "call"} \cup Ends),
         m.down = Append(n.down, Event(kind, 0)),
         (m.active = n.active /\ m.open = n.open) \/ (m.active = 0 /\ m.open = FALSE),
         m.open \in BOOLEAN, NEW response, NEW max \in Nat
  PROVE  Speaks(n, m, response, max, max)
<1> DEFINE e == Event(kind, 0)
           a == n.active
           b == n.open
           a2 == m.active
           b2 == m.open
           d == n.down
<1>1. e \in Events /\ e.kind \notin {"created", "call"} \cup Ends BY DEF Event, Events
<1>2. d \in Seq(Events) /\ a \in Nat /\ b \in BOOLEAN BY DEF Sock
<1>3. (a2 = a /\ b2 = b) \/ (a2 = 0 /\ b2 = FALSE) OBVIOUS
<1>4. a2 \in Nat /\ b2 \in BOOLEAN BY <1>2, <1>3
<1> HIDE DEF e
<1>5. Append(d, e) \in Seq(Events) BY <1>1, <1>2, AppendProperties
<1>6. m.down = Append(d, e) BY DEF e
<1> HIDE DEF a, b, a2, b2, d
<1>7. Wire(d, a, b, response, max) =>
        /\ Wire(Append(d, e), a2, b2, response, max)
        /\ \A id : Lasts(d, 0, id, a, b) => Lasts(Append(d, e), 0, id, a2, b2)
  BY <1>1, <1>3, WireQuiet
<1>8. a2 = 0 \/ a2 = a BY <1>3
<1> QED BY <1>4, <1>5, <1>6, <1>7, <1>8 DEF Speaks, a, b, a2, b2, d

\* Another response.
LEMMA BeginSpeaks ==
  ASSUME NEW n, Sock(n), NEW m, DOMAIN m = {"open", "up", "down", "active"}, n.open,
         n.active = 0, NEW max \in Nat,
         m.down = Append(n.down, Event("created", max + 1)),
         m.active = max + 1, m.open = n.open, NEW response
  PROVE  Speaks(n, m, response, max, max + 1)
<1> DEFINE e == Event("created", max + 1)
           b == n.open
           d == n.down
<1>1. e \in Events /\ e.kind = "created" /\ e.id = max + 1 BY DEF EventKinds, Event, Events
<1>2. d \in Seq(Events) /\ b \in BOOLEAN /\ b BY DEF Sock
<1> HIDE DEF e
<1>3. Append(d, e) \in Seq(Events) BY <1>1, <1>2, AppendProperties
<1>4. m.down = Append(d, e) /\ m.open = b /\ m.open \in BOOLEAN BY <1>2 DEF e
<1> HIDE DEF b, d
<1>5. Wire(d, 0, b, response, max) =>
        /\ Wire(Append(d, e), max + 1, b, response, max + 1)
        /\ \A id : id # 0 /\ Lasts(d, 0, id, 0, b) => Lasts(Append(d, e), 0, id, max + 1, b)
  BY <1>1, <1>2, WireBegin
<1>6. max + 1 > max /\ max + 1 \in Nat OBVIOUS
<1> QED BY <1>3, <1>4, <1>5, <1>6 DEF Speaks, b, d

\* The response that goes on ends, perhaps after a call of its own.
LEMMA EndSpeaks ==
  ASSUME NEW n, Sock(n), NEW m, DOMAIN m = {"open", "up", "down", "active"},
         n.active # 0, NEW max \in Nat, NEW status \in Ends,
         NEW items \in {<<>>, <<Event("call", n.active)>>},
         m.down = n.down \o items \o <<Event(status, n.active)>>,
         m.active = 0, m.open = n.open, NEW response
  PROVE  Speaks(n, m, response, max, max)
<1> DEFINE a == n.active
           b == n.open
           d == n.down
           c == Event("call", a)
           e == Event(status, a)
<1>1. d \in Seq(Events) /\ a \in Nat /\ b \in BOOLEAN /\ a # 0 BY DEF Sock
<1>2. /\ c \in Events /\ c.kind = "call" /\ c.id = a
      /\ e \in Events /\ e.kind \in Ends /\ e.id = a
  BY <1>1 DEF EventKinds, Ends, Event, Events
<1>3. m.down = d \o items \o <<e>> /\ items \in {<<>>, <<c>>} /\ m.open = b OBVIOUS
<1> HIDE DEF a, b, d, c, e
<1>6. m.open \in BOOLEAN /\ m.active \in Nat /\ m.active = 0 BY <1>1, <1>3
<1>4. CASE items = <<>>
  <2>1. m.down = Append(d, e)
    <3>1. d \o items = d BY <1>1, <1>4, ConcatEmptySeq
    <3>2. Append(d, e) = d \o <<e>> BY <1>1, <1>2, AppendIsConcat
    <3> QED BY <1>3, <3>1, <3>2
  <2>2. Append(d, e) \in Seq(Events) BY <1>1, <1>2, AppendProperties
  <2>3. Wire(d, a, b, response, max) =>
          /\ Wire(Append(d, e), 0, b, response, max)
          /\ \A id : Lasts(d, 0, id, a, b) => Lasts(Append(d, e), 0, id, 0, b)
    BY <1>1, <1>2, WireDone
  <2> QED BY <1>1, <1>3, <1>6, <2>1, <2>2, <2>3 DEF Speaks, a, b, d
<1>5. CASE items = <<c>>
  <2> DEFINE f == Append(d, c)
  <2>1. f \in Seq(Events) BY <1>1, <1>2, AppendProperties
  <2>2. f = d \o items BY <1>1, <1>2, <1>5, AppendIsConcat
  <2> HIDE DEF f
  <2>3. m.down = Append(f, e) /\ Append(f, e) \in Seq(Events)
    <3>2. Append(f, e) \in Seq(Events) BY <1>2, <2>1, AppendProperties
    <3> QED BY <1>3, <2>2, <3>2, <1>2, <2>1, AppendIsConcat
  <2>5. Wire(f, a, b, response, max) =>
          /\ Wire(Append(f, e), 0, b, response, max)
          /\ \A id : Lasts(f, 0, id, a, b) => Lasts(Append(f, e), 0, id, 0, b)
    BY <1>1, <1>2, WireDone
  <2> QED BY <1>1, <1>3, <1>6, <2>3, <2>5, <1>2, WireCall DEF Speaks, a, b, d, f
<1> QED BY <1>3, <1>4, <1>5

\* What is said is said after what was said.
LEMMA SpeaksTwice ==
  ASSUME NEW n, NEW m, NEW l, NEW response, NEW max, Speaks(n, m, response, max, max),
         Speaks(m, l, response, max, max)
  PROVE  Speaks(n, l, response, max, max)
<1>2. ASSUME Wire(n.down, n.active, n.open, response, max)
      PROVE  /\ Wire(l.down, l.active, l.open, response, max)
             /\ \A id : id # 0 /\ Lasts(n.down, 0, id, n.active, n.open)
                        => Lasts(l.down, 0, id, l.active, l.open)
             /\ l.active = 0 \/ l.active = n.active \/ l.active > max
  BY <1>2 DEF Speaks
<1> QED BY <1>2 DEF Speaks

\* A step that creates no response.
LEMMA QuietStep ==
  ASSUME OaiSound, NEW k \in Sockets, openai.net[k].open \/ openai.net[k].active # 0,
         Wired(openai, openai', k),
         Speaks(openai.net[k], openai'.net[k], openai.response, used.responses, used.responses),
         used' = used \/ Fault
  PROVE  OaiSound'
<1>1. used \in Books BY DEF OaiSound
<1> QED BY NetStep, <1>1, SpendFacts DEF Fault, Books

\* An answer that concerns no response, to whatever was read.
LEMMA AnswerSound ==
  ASSUME OaiSound, NEW k \in Sockets, openai.net[k].open,
         NEW kind \in EventKinds \ ({"created", "call"} \cup Ends),
         NEW x, Shaped(x), Wired(openai, x, k) \/ x = openai,
         x.net[k].down = openai.net[k].down, x.net[k].active = openai.net[k].active,
         x.net[k].open = openai.net[k].open,
         openai' = Emit(x, k, kind, 0), used' = used \/ Fault
  PROVE  OaiSound'
<1> DEFINE id == 0
           y == Emit(x, k, kind, id)
<1>1. openai' = y OBVIOUS
<1> HIDE DEF id
<1>2. /\ Wired(x, y, k) /\ Shaped(y)
      /\ y.net[k].down = Append(x.net[k].down, Event(kind, id))
      /\ y.net[k].active = x.net[k].active /\ y.net[k].open = x.net[k].open
  <2>1. y = Emit(x, k, kind, id) /\ Shaped(x) /\ k \in Sockets OBVIOUS
  <2> HIDE DEF y
  <2> QED BY ONLY <2>1, EmitWired
<1> HIDE DEF y
<1>3. Wired(openai, y, k) BY <1>2, WiredTwice
<1>4. Sock(openai.net[k]) /\ used.responses \in Nat BY DEF OaiSound, OaiFramed, Books
<1>5. Speaks(openai.net[k], y.net[k], openai.response, used.responses, used.responses)
  <2> DEFINE n == openai.net[k]
             m == y.net[k]
  <2>1. /\ DOMAIN m = {"open", "up", "down", "active"}
        /\ m.down = Append(n.down, Event(kind, 0))
        /\ m.active = n.active /\ m.open = n.open
    BY <1>2 DEF Shaped, id
  <2>2. m.open \in BOOLEAN BY <1>4, <2>1 DEF Sock
  <2>3. Sock(n) BY <1>4
  <2> HIDE DEF n, m
  <2> QED BY <1>4, <2>1, <2>2, <2>3, QuietSpeaks DEF n, m
<1> QED BY <1>1, <1>3, <1>5, QuietStep

\* The session is created.
LEMMA OpensSound ==
  ASSUME OaiSound, NEW k \in Sockets, ServerOpens(k)
  PROVE  OaiSound'
<1> DEFINE kind == "session"
<1>1. kind \in EventKinds \ ({"created", "call"} \cup Ends) BY DEF EventKinds, Ends
<1>2. openai' = Emit(openai, k, kind, 0) /\ openai.net[k].open /\ used' = used BY DEF ServerOpens
<1>3. Shaped(openai) BY FramedShaped DEF OaiSound
<1> HIDE DEF kind
<1> QED BY <1>1, <1>2, <1>3, AnswerSound

\* A response begins, for a create that was read or of the provider's own accord.
LEMMA BeginSound ==
  ASSUME OaiSound, NEW k \in Sockets, openai.net[k].open, openai.net[k].active = 0,
         NEW x, Shaped(x), Wired(openai, x, k) \/ x = openai,
         x.net[k].down = openai.net[k].down, x.net[k].active = openai.net[k].active,
         x.net[k].open = openai.net[k].open,
         openai' = Begin(x, k, used.responses + 1), Spend("responses")
  PROVE  OaiSound'
<1> DEFINE r == used.responses + 1
           y == Begin(x, k, r)
           max == used.responses
           field == "responses"
<1>1. openai' = y OBVIOUS
<1>2. used \in Books /\ OaiFramed(openai) BY DEF OaiSound
<1>3. max \in Nat /\ r = max + 1 BY <1>2 DEF Books
<1>4. used' \in Books /\ used'.sockets = used.sockets /\ used'.responses = r
  <2>1. /\ field \in {"sockets", "responses", "updates", "host", "faults"} /\ Spend(field)
        /\ field = "responses" /\ field # "sockets"
    OBVIOUS
  <2> HIDE DEF field
  <2> QED BY <1>2, <2>1, SpendFacts
<1> HIDE DEF r, max
<1>5. /\ Wired(x, y, k) /\ Shaped(y)
      /\ y.net[k].down = Append(x.net[k].down, Event("created", r))
      /\ y.net[k].active = r /\ y.net[k].open = x.net[k].open
  <2>1. y = Begin(x, k, r) /\ Shaped(x) /\ k \in Sockets OBVIOUS
  <2> HIDE DEF y
  <2> QED BY ONLY <2>1, BeginWired
<1> HIDE DEF y
<1>6. Wired(openai, y, k) BY <1>5, WiredTwice
<1>7. Speaks(openai.net[k], y.net[k], openai.response, max, r)
  <2> DEFINE n == openai.net[k]
             m == y.net[k]
  <2>1. /\ DOMAIN m = {"open", "up", "down", "active"}
        /\ m.down = Append(n.down, Event("created", max + 1))
        /\ m.active = max + 1 /\ m.open = n.open /\ n.open /\ n.active = 0
    BY <1>3, <1>5 DEF Shaped
  <2>2. Sock(n) BY <1>2 DEF OaiFramed
  <2> HIDE DEF n, m
  <2> QED BY <1>3, <2>1, <2>2, BeginSpeaks DEF n, m
<1>8. r >= max BY <1>3
<1> QED BY <1>1, <1>4, <1>6, <1>7, <1>8, NetStep DEF max

\* The response that goes on ends.
LEMMA EndSound ==
  ASSUME OaiSound, NEW k \in Sockets, openai.net[k].active # 0, NEW status \in Ends,
         NEW x, Shaped(x), Wired(openai, x, k) \/ x = openai,
         Speaks(openai.net[k], x.net[k], openai.response, used.responses, used.responses),
         x.net[k].active = openai.net[k].active,
         openai' \in End(x, k, status), used' = used
  PROVE  OaiSound'
<1> DEFINE y == openai'
           max == used.responses
           n == x.net[k]
           m == y.net[k]
<1>1. y \in End(x, k, status) OBVIOUS
<1> HIDE DEF y
<1>9. /\ Wired(x, y, k) /\ Shaped(y)
      /\ y.net[k].active = 0 /\ y.net[k].open = x.net[k].open
      /\ \E items \in {<<>>, <<Event("call", x.net[k].active)>>} :
           y.net[k].down = x.net[k].down \o items \o <<Event(status, x.net[k].active)>>
  <2> HIDE DEF n, m
  <2> QED BY <1>1, EndWired
<1>2. /\ Wired(x, y, k) /\ Shaped(y)
      /\ m.active = 0 /\ m.open = n.open
  BY <1>9
<1>3. PICK items \in {<<>>, <<Event("call", n.active)>>} :
        m.down = n.down \o items \o <<Event(status, n.active)>>
  BY <1>9
<1>4. Wired(openai, y, k) BY <1>2, WiredTwice
<1>5. max \in Nat BY DEF OaiSound, Books
<1>6. /\ Sock(n) /\ n.active # 0 /\ DOMAIN m = {"open", "up", "down", "active"}
  BY <1>2 DEF Speaks, Sock, Shaped
<1> HIDE DEF n, m, max
<1>7. Speaks(n, m, openai.response, max, max) BY <1>2, <1>3, <1>5, <1>6, EndSpeaks
<1> QED BY <1>4, QuietStep, <1>7, SpeaksTwice DEF m, y, max, n

\* Nothing said is sound to say.
LEMMA SpeaksSelf ==
  ASSUME OaiSound, NEW k \in Sockets, NEW x, Shaped(x),
         x.net[k].down = openai.net[k].down, x.net[k].active = openai.net[k].active,
         x.net[k].open = openai.net[k].open
  PROVE  Speaks(openai.net[k], x.net[k], openai.response, used.responses, used.responses)
BY DEF Speaks, Shaped, OaiSound, OaiFramed, Sock

\* The provider reads what was sent.
LEMMA ReadsSound ==
  ASSUME OaiSound, NEW k \in Sockets, ServerReads(k)
  PROVE  OaiSound'
<1> DEFINE x == [openai EXCEPT !.net[k].up = Tail(@)]
           m == Head(openai.net[k].up)
           id == used.responses + 1
<1>1. Shaped(openai) /\ openai.net[k].open BY FramedShaped DEF OaiSound, ServerReads
<1>2. /\ Wired(openai, x, k) /\ Shaped(x)
      /\ x.net[k].down = openai.net[k].down
      /\ x.net[k].active = openai.net[k].active /\ x.net[k].open = openai.net[k].open
  BY <1>1, ReadWired
<1>3. \/ /\ x.net[k].active = 0 /\ openai' = Begin(x, k, id) /\ Spend("responses")
      \/ /\ openai' = Emit(x, k, "error", 0) /\ UNCHANGED used
      \/ /\ x.net[k].active # 0 /\ openai' \in End(x, k, "cancelled") /\ UNCHANGED used
      \/ /\ openai' = Emit(x, k, "updated", 0) /\ UNCHANGED used
      \/ /\ openai' = Emit(x, k, "refused", 0) /\ Fault
  BY DEF ServerReads
<1> HIDE DEF x
<1>4. CASE x.net[k].active = 0 /\ openai' = Begin(x, k, id) /\ Spend("responses")
  BY <1>1, <1>2, <1>4, BeginSound
<1>5. ASSUME NEW kind \in {"error", "updated", "refused"}, openai' = Emit(x, k, kind, 0),
             used' = used \/ Fault
      PROVE  OaiSound'
  BY <1>5, <1>1, <1>2, AnswerSound DEF EventKinds, Ends
<1>6. CASE x.net[k].active # 0 /\ openai' \in End(x, k, "cancelled") /\ UNCHANGED used
  <2> DEFINE status == "cancelled"
  <2>1. status \in Ends /\ openai' \in End(x, k, status) BY <1>6 DEF Ends
  <2>2. Speaks(openai.net[k], x.net[k], openai.response, used.responses, used.responses)
    BY <1>2, SpeaksSelf
  <2> HIDE DEF status
  <2> QED BY <1>2, <1>6, <2>1, <2>2, EndSound
<1> QED BY <1>3, <1>4, <1>5, <1>6

\* Any step of the provider.
LEMMA ServerSound ==
  ASSUME OaiSound, NEW k \in Sockets, OpenAIServer(k)
  PROVE  OaiSound'
<1>1. Shaped(openai) BY FramedShaped DEF OaiSound
<1>2. CASE ServerOpens(k) BY <1>2, OpensSound
<1>3. CASE ServerReads(k) BY <1>3, ReadsSound
<1>4. CASE ServerResponds(k) BY <1>4, <1>1, BeginSound DEF ServerResponds
<1>5. CASE ServerCompletes(k)
  <2> DEFINE status == "completed"
  <2>1. status \in Ends /\ openai' \in End(openai, k, status) /\ openai.net[k].active # 0
        /\ used' = used
    BY <1>5 DEF Ends, ServerCompletes
  <2>2. Speaks(openai.net[k], openai.net[k], openai.response, used.responses, used.responses)
    BY <1>1, SpeaksSelf
  <2> HIDE DEF status
  <2> QED BY <1>1, <2>1, <2>2, EndSound
<1>6. CASE ServerHearsSpeech(k)
  <2> DEFINE status == "cancelled"
             kind == "speech"
             zero == 0
             x == Emit(openai, k, kind, zero)
             n == openai.net[k]
             m == x.net[k]
  <2>1. status \in Ends /\ openai' \in End(x, k, status) /\ openai.net[k].active # 0
        /\ used' = used
    BY <1>6 DEF Ends, ServerHearsSpeech
  <2>2. kind \in EventKinds \ ({"created", "call"} \cup Ends) BY DEF EventKinds, Ends
  <2> HIDE DEF status, kind, zero
  <2>3. /\ Wired(openai, x, k) /\ Shaped(x)
        /\ m.down = Append(n.down, Event(kind, zero))
        /\ m.active = n.active /\ m.open = n.open
    <3>1. x = Emit(openai, k, kind, zero) OBVIOUS
    <3> HIDE DEF x, n
    <3> QED BY <1>1, <3>1, EmitWired DEF n
  <2> HIDE DEF x
  <2>4. DOMAIN m = {"open", "up", "down", "active"} /\ Sock(n) /\ used.responses \in Nat
    BY <2>3 DEF Shaped, OaiSound, OaiFramed, Books
  <2>5. m.open \in BOOLEAN BY <2>3, <2>4 DEF Sock
  <2>6. m.down = Append(n.down, Event(kind, 0)) BY <2>3 DEF zero
  <2>7. Speaks(n, m, openai.response, used.responses, used.responses)
    <3> HIDE DEF n, m
    <3> QED BY <2>2, <2>3, <2>4, <2>5, <2>6, QuietSpeaks
  <2> QED BY <2>1, <2>3, <2>7, EndSound
<1>7. CASE ServerCloses(k)
  <2> DEFINE x == [openai EXCEPT !.net[k].open = FALSE, !.net[k].active = 0]
             kind == "close"
             zero == 0
             y == Emit(x, k, kind, zero)
             n == openai.net[k]
             m == y.net[k]
  <2>1. openai.net[k].open /\ k # 0 /\ Fault /\ openai' = y
    <3>1. k # 0 BY OpenAIAssumption DEF Sockets
    <3> QED BY <1>7, <3>1 DEF ServerCloses, HangUp
  <2>2. kind \in EventKinds \ ({"created", "call"} \cup Ends) BY DEF EventKinds, Ends
  <2> HIDE DEF kind, zero
  <2>3. Wired(openai, x, k) BY <1>1 DEF Wired, Shaped, OaiFields
  <2>4. x.net = [openai.net EXCEPT ![k].open = FALSE, ![k].active = 0]
    BY <1>1 DEF Shaped, OaiFields
  <2> HIDE DEF x
  <2>5. /\ DOMAIN x.net[k] = {"open", "up", "down", "active"}
        /\ x.net[k].down = openai.net[k].down
        /\ x.net[k].active = 0 /\ x.net[k].open = FALSE /\ x.net[k].open \in BOOLEAN
    BY <1>1, <2>4 DEF Shaped
  <2>6. Shaped(x) BY <1>1, <2>3, <2>5, WiredShaped
  <2>7. /\ Wired(x, y, k) /\ Shaped(y)
        /\ m.down = Append(x.net[k].down, Event(kind, zero))
        /\ m.active = x.net[k].active /\ m.open = x.net[k].open
    <3>1. y = Emit(x, k, kind, zero) OBVIOUS
    <3> HIDE DEF y, n
    <3> QED BY <2>6, <3>1, EmitWired
  <2> HIDE DEF y
  <2>8. DOMAIN m = {"open", "up", "down", "active"} /\ Sock(n) /\ used.responses \in Nat
    BY <2>7 DEF Shaped, OaiSound, OaiFramed, Books
  <2>9. /\ m.open \in BOOLEAN /\ m.active = 0 /\ m.open = FALSE
        /\ m.down = Append(n.down, Event(kind, 0))
    BY <2>5, <2>7 DEF zero
  <2>10. Speaks(n, m, openai.response, used.responses, used.responses)
    <3> HIDE DEF n, m
    <3> QED BY <2>2, <2>8, <2>9, QuietSpeaks
  <2>11. Wired(openai, y, k) BY <2>3, <2>7, WiredTwice
  <2> QED BY <2>1, <2>10, <2>11, QuietStep
<1> QED BY <1>2, <1>3, <1>4, <1>5, <1>6, <1>7 DEF OpenAIServer

-----------------------------------------------------------------------------
(* The theorems. *)

\* At first nothing is dialed.
LEMMA OaiInitSound ==
  ASSUME OpenAIInit
  PROVE  OaiSound
<1> DEFINE o == openai
           none == << >>
<1>1. /\ DOMAIN o = OaiFields /\ o.dial = [sock |-> 0, phase |-> "idle"] /\ o.rt = 0
      /\ ~o.overlap /\ o.stale = FALSE /\ o.calls = none /\ ~o.mixed /\ o.response = 0
      /\ o.interrupts = none /\ o.generating = FALSE /\ o.waiter = FALSE /\ o.whenIdle = none
      /\ o.net = [k \in Sockets |-> [open |-> FALSE, up |-> <<>>, down |-> none, active |-> 0]]
      /\ o.stale \in BOOLEAN /\ o.generating \in BOOLEAN /\ o.waiter \in BOOLEAN
  BY DEF OpenAIInit, OaiFields
<1>2. used = [sockets |-> 0, responses |-> 0, updates |-> 0, host |-> 0, faults |-> 0]
  BY DEF OpenAIInit
<1>3. /\ none \in Seq(Events) /\ none \in Seq(Queued) /\ none \in Seq(Nat) /\ Len(none) = 0
  BY EmptySeq
<1> HIDE DEF o, none
<1>4. /\ DOMAIN o.net = Sockets
      /\ \A k \in Sockets : ~o.net[k].open /\ o.net[k].active = 0 /\ o.net[k].down = none
                            /\ o.net[k].open \in BOOLEAN
                            /\ DOMAIN o.net[k] = {"open", "up", "down", "active"}
  <2> DEFINE n == [open |-> FALSE, up |-> <<>>, down |-> none, active |-> 0]
  <2>1. ~n.open /\ n.active = 0 /\ n.down = none /\ n.open \in BOOLEAN
        /\ DOMAIN n = {"open", "up", "down", "active"}
    OBVIOUS
  <2>2. o.net = [k \in Sockets |-> n] BY <1>1
  <2> HIDE DEF n
  <2> QED BY <2>1, <2>2
<1>5. OaiFramed(o)
  <2>1. ASSUME NEW k \in Sockets PROVE Sock(o.net[k])
    <3> DEFINE n == o.net[k]
    <3>1. n.active = 0 /\ n.down = none /\ n.open \in BOOLEAN
          /\ DOMAIN n = {"open", "up", "down", "active"}
      BY <1>4
    <3> HIDE DEF n
    <3>2. Sock(n) BY <1>3, <3>1 DEF Sock
    <3> QED BY <3>2 DEF n
  <2> QED BY <1>1, <1>3, <1>4, <2>1 DEF OaiFramed
<1>7. Pristine(o, 0) BY OpenAIAssumption, <1>1, <1>4 DEF Sockets, Pristine, none
<1>8. Sequenced(o, 0) BY <1>1, <1>3 DEF Sequenced, Collected, Awaited
<1>9. IdleSound(o) BY <1>1 DEF IdleSound, none
<1> QED BY <1>1, <1>5, <1>7, <1>8, <1>9, <1>2 DEF OaiSound, o, Books

\* The invariant is inductive, for any number of sockets, responses and calls.
THEOREM OpenAIInductive == OpenAISpec => []OaiSound
<1>1. OpenAIInit => OaiSound BY OaiInitSound
<1>2. OaiSound /\ [OpenAINext]_openaiVars => OaiSound'
  <2> SUFFICES ASSUME OaiSound, [OpenAINext]_openaiVars PROVE OaiSound' OBVIOUS
  <2>1. CASE UNCHANGED openaiVars BY <2>1 DEF openaiVars, OaiSound
  <2>2. CASE Continue BY <2>2, ContinueSound
  <2>3. CASE OpenAITimers BY <2>3, TimersSound
  <2>4. CASE OpenAIHost BY <2>4, RedialSound, HostDisconnectSound, HostSound DEF OpenAIHost
  <2>5. ASSUME NEW k \in Sockets, Deliver(k) PROVE OaiSound' BY <2>5, DeliverSound
  <2>6. ASSUME NEW k \in Sockets, OpenAIServer(k) PROVE OaiSound' BY <2>6, ServerSound
  <2> QED BY <2>1, <2>2, <2>3, <2>4, <2>5, <2>6 DEF OpenAINext
<1> QED BY <1>1, <1>2, PTL DEF OpenAISpec

\* Calls, interrupts and results that wait for idle follow the response they belong to.
THEOREM ResponsesKept == OpenAISpec => []ResponsesAreKeptApart
<1>1. OaiSound => ResponsesAreKeptApart
  BY DEF OaiSound, ResponsesAreKeptApart, CancelledCallsStay, InterruptsFollowTheirCancel,
         IdleResultsMove, IdleSound, Sequenced, Collected
<1> QED BY <1>1, OpenAIInductive, PTL
=============================================================================
