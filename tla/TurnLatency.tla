----------------------------- MODULE TurnLatency -----------------------------
(***************************************************************************)
(* TurnLatencyTracker: the facts a session publishes about speech,         *)
(* responses and turns go through one bounded ring, and the drain on a     *)
(* later tick joins them into one latency sample per turn: from the end of *)
(* the user's utterance to the first response and to its first audio.      *)
(*                                                                         *)
(* The clock is the number of facts published, so that a fact's stamp is   *)
(* also its name.  turn.interrupted, which the join ignores, and the       *)
(* reasons of the drops are left out.                                      *)
(***************************************************************************)
EXTENDS Naturals, Sequences
LOCAL INSTANCE SequencesExt

CONSTANTS RingCapacity, \* ringCapacity
          MaxPlausible, \* MAX_PLAUSIBLE_E2E_MS, in facts
          MaxFacts,     \* bound: facts published
          MaxLatTurns,  \* bound: turns
          MaxResets     \* bound: session.reset

ASSUME TurnLatencyAssumption ==
  /\ RingCapacity \in Nat \ {0} /\ MaxPlausible \in Nat /\ MaxFacts \in Nat
  /\ MaxLatTurns \in Nat \ {0} /\ MaxResets \in Nat

VARIABLES lat,    \* the tracker
          speech    \* the session it listens to

latVars == <<lat, speech>>

Sources == {"provider", "client"}
NoAnchor == [end |-> 0, source |-> "client", start |-> 0, pub |-> 0]
NoRecord == [turn |-> 0, started |-> 0, user |-> FALSE, anchor |-> NoAnchor, audio |-> 0]

\* starts: the last unconsumed start of each source; pending, next: the anchors
\* of the next response and of the one after the turn's end.
\* said: the samples of the last drain; drops: turns it dropped; before: the
\* samples of earlier drains; gap: the newest fact that was lost.
TurnLatencyInit ==
  /\ lat = [ring |-> <<>>, quiesced |-> FALSE, suppress |-> FALSE,
            starts |-> [s \in Sources |-> 0], pending |-> NoAnchor, next |-> NoAnchor,
            current |-> NoRecord, said |-> {}, drops |-> {}, before |-> {}, gap |-> 0]
  /\ speech = [now |-> 0, turn |-> 1, speaking |-> [s \in Sources |-> 0],
             began |-> [t \in 1..MaxLatTurns |-> 0], sounded |-> [t \in 1..MaxLatTurns |-> 0],
             torn |-> {}, resets |-> 0]

ClearInFlight(l) ==
  [l EXCEPT !.current = NoRecord, !.pending = NoAnchor, !.next = NoAnchor,
            !.starts = [s \in Sources |-> 0]]

\* Mutant: an overflow drops the oldest fact.
AppendDropsOldest(l, f) ==
  IF l.quiesced THEN l
  ELSE IF Len(l.ring) < RingCapacity THEN [l EXCEPT !.ring = Append(@, f)]
  ELSE [l EXCEPT !.ring = Append(Tail(@), f), !.gap = Head(l.ring).pub]

\* append: a full ring fails closed.
AppendFact(l, f) ==
  IF l.quiesced THEN l
  ELSE IF Len(l.ring) < RingCapacity THEN [l EXCEPT !.ring = Append(@, f)]
  ELSE [ClearInFlight(l) EXCEPT !.ring = <<>>, !.suppress = TRUE, !.gap = f.pub]

PreferAnchor(existing, candidate) ==
  IF existing = NoAnchor \/ candidate.source = "provider" \/ existing.source # "provider"
  THEN candidate ELSE existing

\* Speech that began after the active response, or may have, waits for the next turn.
OnSpeechEnded(l, a) ==
  IF l.current = NoRecord THEN [l EXCEPT !.pending = PreferAnchor(@, a)]
  ELSE IF a.start > l.current.started
          \/ (a.start = 0 /\ a.end > l.current.started /\ a.source = "client")
       THEN [l EXCEPT !.next = PreferAnchor(@, a)]
       ELSE [l EXCEPT !.current.anchor = PreferAnchor(@, a)]

\* The first response of the turn claims the pending anchor.
OnResponseStarted(l, f) ==
  IF l.current # NoRecord THEN l
  ELSE [l EXCEPT !.current = [turn |-> f.turn, started |-> f.at, user |-> f.user,
                              anchor |-> l.pending, audio |-> 0], !.pending = NoAnchor]

\* emitForTurn.
EmitForTurn(l) ==
  LET cur == l.current
      measured == cur.audio # 0 /\ cur.anchor # NoAnchor
      plausible == cur.audio >= cur.anchor.end /\ cur.audio - cur.anchor.end <= MaxPlausible
  IN CASE measured /\ plausible -> [l EXCEPT !.said = @ \cup {cur}]
       [] measured /\ ~plausible -> [l EXCEPT !.drops = @ \cup {cur.turn}]
       [] cur.audio # 0 /\ cur.anchor = NoAnchor /\ cur.user -> [l EXCEPT !.drops = @ \cup {cur.turn}]
       [] OTHER -> l

\* finalizeTurn: the epoch ticks.
FinalizeLatency(l) ==
  [EmitForTurn(l) EXCEPT !.pending = l.next, !.next = NoAnchor, !.current = NoRecord]

SessionReset(l, f) ==
  [ClearInFlight(l) EXCEPT !.suppress = FALSE, !.quiesced = f.close,
                           !.drops = IF l.current # NoRecord THEN @ \cup {l.current.turn} ELSE @]

ProcessFact(l, f) ==
  IF l.quiesced THEN l ELSE
  CASE f.topic = "started" -> [l EXCEPT !.starts[f.source] = f.at]
    [] f.topic = "aborted" -> [l EXCEPT !.starts[f.source] = 0]
    [] f.topic = "reset" -> SessionReset(l, f)
    [] f.topic = "end" -> IF l.suppress THEN [l EXCEPT !.suppress = FALSE] ELSE FinalizeLatency(l)
    [] f.topic = "ended" /\ ~l.suppress ->
         OnSpeechEnded([l EXCEPT !.starts[f.source] = 0],
                       [end |-> f.at, source |-> f.source, start |-> l.starts[f.source], pub |-> f.pub])
    [] f.topic = "response" /\ ~l.suppress -> OnResponseStarted(l, f)
    [] f.topic = "audio" /\ ~l.suppress /\ l.current # NoRecord /\ l.current.audio = 0 ->
         [l EXCEPT !.current.audio = f.at]
    [] OTHER -> l

\* drain, and flush at the close.
DrainAll(l) == FoldLeft(ProcessFact, [l EXCEPT !.ring = <<>>], l.ring)

\* What a reader has seen of the last drain is forgotten when the next fact comes.
Seen(l) == [l EXCEPT !.before = @ \cup l.said, !.said = {}]

(***************************************************************************)
(* The session's facts.  Their stamp is now, or the edge of the speech.    *)
(***************************************************************************)
PublishFact(fact, t) ==
  LET pub == speech.now + 1
      f == [topic |-> "end", source |-> "client", at |-> pub, turn |-> speech.turn, user |-> FALSE,
            close |-> FALSE, pub |-> pub]
  IN /\ speech.now < MaxFacts
     /\ lat' = AppendFact(Seen(lat), [x \in DOMAIN f |-> IF x \in DOMAIN fact THEN fact[x] ELSE f[x]])
     /\ speech' = [t EXCEPT !.now = pub]

UtteranceStarts ==
  \E s \in Sources :
    /\ speech.speaking[s] = 0
    /\ PublishFact([topic |-> "started", source |-> s], [speech EXCEPT !.speaking[s] = speech.now + 1])

\* The client's detector publishes the end after its window of silence, with an
\* edge from the start of the speech to now: its extremes.
UtteranceEnds ==
  \E s \in Sources, edge \in 1..MaxFacts :
    /\ speech.speaking[s] # 0 /\ edge \in {speech.speaking[s], speech.now + 1}
    /\ (s = "provider" => edge = speech.now + 1)
    /\ PublishFact([topic |-> "ended", source |-> s, at |-> edge], [speech EXCEPT !.speaking[s] = 0])

UtteranceAborts ==
  /\ speech.speaking["client"] # 0
  /\ PublishFact([topic |-> "aborted"], [speech EXCEPT !.speaking["client"] = 0])

\* Also the follow-up responses of a turn that called tools.
ResponseStarts ==
  \E user \in BOOLEAN :
    /\ speech.turn <= MaxLatTurns
    /\ PublishFact([topic |-> "response", user |-> user],
               [speech EXCEPT !.began[speech.turn] = IF @ = 0 THEN speech.now + 1 ELSE @])

\* Once per turn.
FirstAudio ==
  /\ speech.turn <= MaxLatTurns /\ speech.began[speech.turn] # 0 /\ speech.sounded[speech.turn] = 0
  /\ PublishFact([topic |-> "audio"], [speech EXCEPT !.sounded[speech.turn] = speech.now + 1])

LatencyTurnEnds ==
  /\ speech.turn <= MaxLatTurns /\ speech.began[speech.turn] # 0
  /\ PublishFact([topic |-> "end"], [speech EXCEPT !.turn = @ + 1])

\* A reconnect or a transfer, inside a turn or between two.
Resets ==
  /\ speech.resets < MaxResets
  /\ PublishFact([topic |-> "reset"],
             [speech EXCEPT !.resets = @ + 1,
                          !.torn = IF speech.turn <= MaxLatTurns /\ speech.began[speech.turn] # 0
                                   THEN @ \cup {speech.turn} ELSE @])

Drain == lat.ring # <<>> /\ lat' = DrainAll(Seen(lat)) /\ UNCHANGED speech

\* close: flush, the reset, flush again.
CloseTracker ==
  /\ ~lat.quiesced
  /\ lat' = SessionReset(DrainAll(Seen(lat)), [close |-> TRUE])
  /\ UNCHANGED speech

TurnLatencyNext ==
  \/ UtteranceStarts \/ UtteranceEnds \/ UtteranceAborts \/ ResponseStarts \/ FirstAudio \/ LatencyTurnEnds
  \/ Resets \/ Drain \/ CloseTracker

TurnLatencySpec == TurnLatencyInit /\ [][TurnLatencyNext]_latVars

(***************************************************************************)
(* A sample measures what it says: the first response and the first audio  *)
(* of its turn, an utterance that began before that response, which no     *)
(* other turn is measured by, and nothing that a gap in the ring separates *)
(* ("never correlate across a gap").  Turns that a reset tore apart are    *)
(* not measured by their first response.                                   *)
(***************************************************************************)
SamplesAreSound ==
  /\ \A r \in lat.said :
       /\ r.anchor.start <= r.started /\ r.anchor.pub > lat.gap /\ r.started > lat.gap
       /\ r.turn \notin speech.torn => r.started = speech.began[r.turn]
       /\ r.turn \notin speech.torn => r.turn \notin lat.drops
       /\ r.audio = speech.sounded[r.turn]
  /\ \A r, o \in lat.said \cup lat.before :
       r.turn = o.turn \/ r.anchor.pub = o.anchor.pub => r = o
=============================================================================
