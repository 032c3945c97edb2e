-------------------------- MODULE TurnTakingProofs --------------------------
(***************************************************************************)
(* The response watchdog for any number of utterances and events, the turns*)
(* of a conversation for any configurations and any number of responses, and*)
(* the way of the user's speech for any number of frames.                  *)
(*                                                                         *)
(* The watchdog's record is sound when what was replayed is older than the *)
(* open segment, and its stage remembers what became of the utterance that *)
(* is retained; then no debt goes unwatched.  Turns end in order because the*)
(* current turn is the last one born and whoever captures a turn to finalize*)
(* it later captures one that had been born; cut speech is told apart because*)
(* every request an interrupt cancels is older than the current one.  What is*)
(* retained of a segment is what was heard of it because both grow at the  *)
(* same end.  One lemma per operator and one per action.                   *)
(***************************************************************************)
EXTENDS ResponseWatchdog, TurnTaking, UserSpeech, FiniteSetTheorems, SequenceTheorems,
        WellFoundedInduction, TLAPS

(* The response watchdog.                                                  *)

WatchRecord ==
  [sess : {"ACTIVE", "RECONNECTING", "UPSTREAM_LOST", "CLOSED"},
   agent : BOOLEAN, model : BOOLEAN, greet : BOOLEAN, hold : BOOLEAN,
   timer : BOOLEAN, deferred : BOOLEAN, held : BOOLEAN,
   seg : Nat, routed : BOOLEAN, next : Nat, sealed : Nat, drained : BOOLEAN,
   stage : {"idle", "inPlace", "after"}, stageOf : Nat, attempts : Nat,
   elicit : BOOLEAN, owed : BOOLEAN, inPlace : SUBSET Nat, after : SUBSET Nat,
   twice : BOOLEAN]

\* What was replayed is older than the open segment and than any to come, and the
\* stage remembers what was done with the utterance that is retained.
Ladder(w) ==
  /\ ~w.twice
  /\ w.seg < w.next /\ w.sealed < w.next
  /\ w.seg # 0 => w.sealed < w.seg
  /\ \A u \in w.inPlace \cup w.after : u < w.next /\ (w.seg # 0 => u < w.seg)
  /\ w.sealed # 0 /\ w.sealed \in w.inPlace => w.stageOf = w.sealed /\ w.stage # "idle"
  /\ w.sealed # 0 /\ w.sealed \in w.after => w.stageOf = w.sealed /\ w.stage = "after"

Watched(w) ==
  w.owed /\ w.sess = "ACTIVE" /\ w.agent =>
    \/ w.timer
    \/ w.deferred /\ w.seg # 0
    \/ w.held /\ (w.greet \/ w.hold)

\* A reconnect under way with a debt is the watchdog's own, which elicits the answer.
Elicited(w) == w.sess = "RECONNECTING" /\ w.owed /\ w.agent => w.elicit

WatchSound(w) == w \in WatchRecord /\ Ladder(w)

WatchInv == WatchSound(watch) /\ Watched(watch) /\ Elicited(watch)

-----------------------------------------------------------------------------

\* The ladder reads eight fields.
LEMMA WatchLadderSame ==
  ASSUME NEW w, Ladder(w), NEW t, t.twice = w.twice, t.seg = w.seg, t.next = w.next,
         t.sealed = w.sealed, t.inPlace = w.inPlace, t.after = w.after,
         t.stage = w.stage, t.stageOf = w.stageOf
  PROVE  Ladder(t)
BY DEF Ladder

\* Arming keeps a record sound, and an agent session armed.
LEMMA WatchArmSound ==
  ASSUME NEW w, WatchSound(w)
  PROVE  /\ WatchSound(Arm(w))
         /\ Arm(w).sess = w.sess /\ Arm(w).agent = w.agent /\ Arm(w).owed = w.owed
         /\ Arm(w).elicit = w.elicit /\ (w.agent => Arm(w).timer)
<1> DEFINE a == [w EXCEPT !.timer = TRUE, !.deferred = FALSE]
<1>1. w \in WatchRecord /\ Ladder(w) BY DEF WatchSound
<1>2. a \in WatchRecord BY <1>1, ZenonT(40) DEF WatchRecord
<1>3. /\ a.sess = w.sess /\ a.agent = w.agent /\ a.owed = w.owed /\ a.timer = TRUE
      /\ a.twice = w.twice /\ a.seg = w.seg /\ a.next = w.next /\ a.elicit = w.elicit
      /\ a.sealed = w.sealed /\ a.inPlace = w.inPlace /\ a.after = w.after
      /\ a.stage = w.stage /\ a.stageOf = w.stageOf
  BY <1>1 DEF WatchRecord
<1> HIDE DEF a
<1>4. Ladder(a) BY <1>1, <1>3, WatchLadderSame
<1> QED BY <1>1, <1>2, <1>3, <1>4 DEF WatchSound, Arm, a

\* The stage of another utterance is forgotten before it is read.
LEMMA WatchStageSound ==
  ASSUME NEW w, WatchSound(w), NEW s, s = StageFor(w)
  PROVE  /\ WatchSound(s)
         /\ s.sess = w.sess /\ s.agent = w.agent /\ s.owed = w.owed /\ s.sealed = w.sealed
         /\ s.elicit = w.elicit /\ s.drained = w.drained /\ s.inPlace = w.inPlace
         /\ s.after = w.after /\ s.stageOf = w.sealed /\ s.seg = w.seg /\ s.next = w.next
<1> DEFINE a == [w EXCEPT !.stageOf = w.sealed, !.stage = "idle"]
<1>1. w \in WatchRecord /\ Ladder(w) BY DEF WatchSound
<1>2. a \in WatchRecord BY <1>1 DEF WatchRecord
<1>3. /\ a.sess = w.sess /\ a.agent = w.agent /\ a.owed = w.owed /\ a.drained = w.drained
      /\ a.twice = w.twice /\ a.seg = w.seg /\ a.next = w.next /\ a.elicit = w.elicit
      /\ a.sealed = w.sealed /\ a.inPlace = w.inPlace /\ a.after = w.after
      /\ a.stage = "idle" /\ a.stageOf = w.sealed
  BY <1>1 DEF WatchRecord
<1>4. s = IF w.stageOf = w.sealed THEN w ELSE a BY DEF StageFor
<1> HIDE DEF a
<1> QED BY <1>1, <1>2, <1>3, <1>4 DEF WatchSound, Ladder

\* The stage may be set before the replay or after it.
LEMMA WatchStageOfReplay ==
  ASSUME NEW w \in WatchRecord, NEW where \in {"inPlace", "after"}
  PROVE  Replay([w EXCEPT !.stage = where], where) = [Replay(w, where) EXCEPT !.stage = where]
<1> DEFINE v == [w EXCEPT !.stage = where]
<1> DEFINE p == IF where = "inPlace" THEN w.inPlace \cup {w.sealed} ELSE w.inPlace
<1> DEFINE q == IF where = "after" THEN w.after \cup {w.sealed} ELSE w.after
<1> DEFINE b == w.twice \/ w.sealed \in (IF where = "inPlace" THEN w.inPlace ELSE w.after)
<1>2. Replay(v, where) = [v EXCEPT !.inPlace = p, !.after = q, !.twice = b]
  BY DEF Replay, WatchRecord
<1>3. Replay(w, where) = [w EXCEPT !.inPlace = p, !.after = q, !.twice = b] BY DEF Replay
<1> HIDE DEF p, q, b
<1> QED BY <1>2, <1>3 DEF WatchRecord

\* A replay at the stage before it, which the stage then remembers.
LEMMA WatchReplaySound ==
  ASSUME NEW w, WatchSound(w), w.sealed # 0, w.stageOf = w.sealed,
         NEW where \in {"inPlace", "after"},
         where = "inPlace" => w.stage = "idle", w.stage # "after",
         NEW t, t = [Replay(w, where) EXCEPT !.stage = where]
  PROVE  WatchSound(t) /\ t.sess = w.sess /\ t.agent = w.agent
<1> DEFINE p == IF where = "inPlace" THEN w.inPlace \cup {w.sealed} ELSE w.inPlace
<1> DEFINE q == IF where = "after" THEN w.after \cup {w.sealed} ELSE w.after
<1> DEFINE b == w.twice \/ w.sealed \in (IF where = "inPlace" THEN w.inPlace ELSE w.after)
<1>1. w \in WatchRecord /\ Ladder(w) BY DEF WatchSound
<1>3. b = FALSE BY <1>1 DEF Ladder
<1>4. p \in SUBSET Nat /\ q \in SUBSET Nat BY <1>1 DEF WatchRecord
<1>5. Replay(w, where) = [w EXCEPT !.inPlace = p, !.after = q, !.twice = b] BY DEF Replay
<1>7. /\ \A u \in p : u \in w.inPlace \/ u = w.sealed
      /\ \A u \in q : u \in w.after \/ u = w.sealed
      /\ w.sealed \in p => w.sealed \in w.inPlace \/ where = "inPlace"
      /\ w.sealed \in q => w.sealed \in w.after \/ where = "after"
  OBVIOUS
<1> HIDE DEF p, q, b
<1> DEFINE c == [w EXCEPT !.inPlace = p]
           d == [c EXCEPT !.after = q]
           e == [d EXCEPT !.twice = FALSE]
<1>61. c \in WatchRecord BY <1>1, <1>4 DEF WatchRecord
<1> HIDE DEF c
<1>62. d \in WatchRecord BY <1>4, <1>61 DEF WatchRecord
<1> HIDE DEF d
<1>63. e \in WatchRecord BY <1>62 DEF WatchRecord
<1>64. t = [e EXCEPT !.stage = where] BY <1>3, <1>5 DEF c, d
<1> HIDE DEF e
<1>8. t \in WatchRecord BY <1>63, <1>64 DEF WatchRecord
<1> USE DEF c, d, e
<1>9. /\ t.sess = w.sess /\ t.agent = w.agent /\ t.twice = FALSE /\ t.seg = w.seg
      /\ t.next = w.next /\ t.sealed = w.sealed /\ t.inPlace = p /\ t.after = q
      /\ t.stage = where /\ t.stageOf = w.stageOf
  BY <1>1, <1>3, <1>5 DEF WatchRecord
<1>11. Ladder(t) BY <1>1, <1>7, <1>9 DEF Ladder
<1> QED BY <1>8, <1>9, <1>11 DEF WatchSound

WatchGood(w) == WatchSound(w) /\ Watched(w) /\ Elicited(w)

\* A segment may end and an utterance may be dropped; the replays stay.
LEMMA WatchLadderKept ==
  ASSUME NEW w, WatchSound(w), NEW t, t.twice = w.twice, t.next = w.next,
         t.inPlace = w.inPlace, t.after = w.after, t.seg = w.seg \/ t.seg = 0,
         \/ t.sealed = 0
         \/ t.sealed = w.sealed /\ t.stage = w.stage /\ t.stageOf = w.stageOf
  PROVE  Ladder(t)
<1> QED BY DEF Ladder, WatchSound, WatchRecord

\* Out of an ACTIVE agent session, and out of debt, nothing is owed a watch.
LEMMA WatchDebtFree ==
  ASSUME NEW t, WatchSound(t), t.owed = FALSE
  PROVE  WatchGood(t)
BY DEF WatchGood, Watched, Elicited

\* A reconnect starts, or the session is lost.
LEMMA WatchTriggerSound ==
  ASSUME NEW w, WatchSound(w), NEW elicit \in BOOLEAN, NEW handle \in BOOLEAN,
         NEW t, t = TriggerReconnect(w, elicit, handle), w.sess = "ACTIVE"
  PROVE  /\ WatchSound(t)
         /\ t.sess = "UPSTREAM_LOST" \/ (t.sess = "RECONNECTING" /\ t.elicit = elicit)
<1> DEFINE n == w.attempts + 1
           a == [w EXCEPT !.sess = "RECONNECTING", !.elicit = elicit, !.attempts = n,
                          !.model = FALSE]
           b == [w EXCEPT !.sess = "UPSTREAM_LOST", !.model = FALSE]
<1>1. w \in WatchRecord /\ Ladder(w) /\ n \in Nat BY DEF WatchSound, WatchRecord
<1>2. t = IF handle /\ w.attempts < MaxReconnectAttempts THEN a ELSE b BY DEF TriggerReconnect
<1> HIDE DEF n
<1>3. a \in WatchRecord /\ b \in WatchRecord BY <1>1, ZenonT(40) DEF WatchRecord
<1>4. /\ a.twice = w.twice /\ a.seg = w.seg /\ a.next = w.next
      /\ a.sealed = w.sealed /\ a.inPlace = w.inPlace /\ a.after = w.after
      /\ a.stage = w.stage /\ a.stageOf = w.stageOf
      /\ a.sess = "RECONNECTING" /\ a.elicit = elicit
  BY <1>1 DEF WatchRecord
<1>5. /\ b.twice = w.twice /\ b.seg = w.seg /\ b.next = w.next
      /\ b.sealed = w.sealed /\ b.inPlace = w.inPlace /\ b.after = w.after
      /\ b.stage = w.stage /\ b.stageOf = w.stageOf /\ b.sess = "UPSTREAM_LOST"
  BY <1>1 DEF WatchRecord
<1> HIDE DEF a, b
<1> QED BY <1>2, <1>3, <1>4, <1>5, <1>1, WatchLadderSame DEF WatchSound

\* A fire on an ACTIVE session: deferred, held, replayed or reconnecting.
LEMMA WatchFiredSound ==
  ASSUME NEW w, WatchSound(w), w.sess = "ACTIVE", NEW connected \in BOOLEAN,
         NEW handle \in BOOLEAN, NEW taken \in BOOLEAN,
         NEW t, t = OnResponseWatchdogFired(w, connected, handle, taken)
  PROVE  WatchGood(t)
<1> DEFINE s == StageFor(w)
           try == connected /\ Eligible(w) /\ s.stage = "idle"
           r == IF w.sealed # 0 THEN s ELSE w
           p == Replay([r EXCEPT !.stage = "inPlace"], "inPlace")
           q == [r EXCEPT !.stage = IF try THEN "inPlace" ELSE @]
           d == [w EXCEPT !.deferred = TRUE]
           h == [w EXCEPT !.held = TRUE]
<1>1. w \in WatchRecord /\ Ladder(w) BY DEF WatchSound
<1>2. WatchSound(s) /\ s.sess = w.sess /\ s.sealed = w.sealed /\ s.stageOf = w.sealed
      /\ s.inPlace = w.inPlace /\ s.after = w.after
  BY WatchStageSound
<1>3. t = IF w.seg # 0 THEN d ELSE IF w.greet \/ w.hold THEN h
          ELSE IF try /\ taken THEN Arm(p) ELSE TriggerReconnect(q, TRUE, handle)
  BY DEF OnResponseWatchdogFired
<1>4. WatchSound(r) /\ r.sess = "ACTIVE" BY <1>2
<1>5. CASE w.seg # 0
  <2>1. d \in WatchRecord BY <1>1, ZenonT(40) DEF WatchRecord
  <2>2. /\ d.twice = w.twice /\ d.seg = w.seg /\ d.next = w.next
        /\ d.sealed = w.sealed /\ d.inPlace = w.inPlace /\ d.after = w.after
        /\ d.stage = w.stage /\ d.stageOf = w.stageOf
        /\ d.sess = "ACTIVE" /\ d.deferred = TRUE
    BY <1>1 DEF WatchRecord
  <2> HIDE DEF d
  <2>3. Ladder(d) BY <1>1, <2>2, WatchLadderSame
  <2> QED BY <1>3, <1>5, <2>1, <2>2, <2>3 DEF WatchGood, WatchSound, Watched, Elicited
<1>6. CASE w.seg = 0 /\ (w.greet \/ w.hold)
  <2>1. h \in WatchRecord BY <1>1, ZenonT(40) DEF WatchRecord
  <2>2. /\ h.twice = w.twice /\ h.seg = w.seg /\ h.next = w.next
        /\ h.sealed = w.sealed /\ h.inPlace = w.inPlace /\ h.after = w.after
        /\ h.stage = w.stage /\ h.stageOf = w.stageOf
        /\ h.sess = "ACTIVE" /\ h.held = TRUE /\ h.greet = w.greet /\ h.hold = w.hold
    BY <1>1 DEF WatchRecord
  <2> HIDE DEF h
  <2>3. Ladder(h) BY <1>1, <2>2, WatchLadderSame
  <2>4. t = h BY <1>3, <1>6
  <2> QED BY <1>6, <2>1, <2>2, <2>3, <2>4 DEF WatchGood, WatchSound, Watched, Elicited
<1>7. CASE w.seg = 0 /\ ~(w.greet \/ w.hold) /\ try /\ taken
  <2>1. r = s /\ s.sealed # 0 /\ s.stage = "idle" /\ s.stageOf = s.sealed
    BY <1>2, <1>7 DEF Eligible
  <2>2. s \in WatchRecord BY <1>2 DEF WatchSound
  <2>3. p = [Replay(s, "inPlace") EXCEPT !.stage = "inPlace"] BY <2>1, <2>2, WatchStageOfReplay
  <2>6. t = Arm(p) BY <1>3, <1>7
  <2> QED BY <2>6, WatchArmSound, <1>2, <1>4, <2>1, <2>3, WatchReplaySound DEF WatchGood, Watched,
        Elicited
<1>8. CASE w.seg = 0 /\ ~(w.greet \/ w.hold) /\ ~(try /\ taken)
  <2>1. r \in WatchRecord /\ Ladder(r) BY <1>4 DEF WatchSound
  <2>2. q = [r EXCEPT !.stage = IF try THEN "inPlace" ELSE r.stage] BY <2>1 DEF WatchRecord
  <2>3. try => r = s /\ r.sealed # 0 /\ r.stage = "idle" /\ r.stageOf = r.sealed
    BY <1>2 DEF Eligible
  <2>4. q \in WatchRecord BY <2>1, <2>2 DEF WatchRecord
  <2>5. /\ q.twice = r.twice /\ q.seg = r.seg /\ q.next = r.next
        /\ q.sealed = r.sealed /\ q.inPlace = r.inPlace /\ q.after = r.after
        /\ q.stage = (IF try THEN "inPlace" ELSE r.stage) /\ q.stageOf = r.stageOf
        /\ q.sess = "ACTIVE"
    BY <1>4, <2>1, <2>2 DEF WatchRecord
  <2> HIDE DEF q, try
  <2>6. Ladder(q)
    <3>1. CASE try BY <2>1, <2>3, <3>1, <2>5 DEF Ladder
    <3>2. CASE ~try BY <2>1, <2>5, <3>2, WatchLadderSame
    <3> QED BY <3>1, <3>2
  <2>7. WatchSound(q) BY <2>4, <2>6 DEF WatchSound
  <2> QED BY <2>5, <2>7, WatchTriggerSound, <1>3, <1>8 DEF WatchGood, Watched, Elicited
<1> QED BY <1>5, <1>6, <1>7, <1>8

\* A gate opens on a fire that was held behind it.
LEMMA WatchReevaluateSound ==
  ASSUME NEW w, WatchSound(w), Elicited(w), w.held = FALSE => Watched(w),
         NEW handle \in BOOLEAN, NEW taken \in BOOLEAN,
         NEW t, t = ReevaluateHeldRecovery(w, handle, taken)
  PROVE  WatchGood(t)
<1> DEFINE r == [w EXCEPT !.held = FALSE]
           d == [w EXCEPT !.held = FALSE, !.deferred = TRUE]
<1>1. w \in WatchRecord /\ Ladder(w) BY DEF WatchSound
<1>2. r \in WatchRecord /\ d \in WatchRecord BY <1>1, ZenonT(40) DEF WatchRecord
<1>3. /\ r.twice = w.twice /\ r.seg = w.seg /\ r.next = w.next
      /\ r.sealed = w.sealed /\ r.inPlace = w.inPlace /\ r.after = w.after
      /\ r.stage = w.stage /\ r.stageOf = w.stageOf
      /\ r.sess = w.sess /\ r.owed = w.owed /\ r.agent = w.agent /\ r.elicit = w.elicit
  BY <1>1 DEF WatchRecord
<1>4. /\ d.twice = w.twice /\ d.seg = w.seg /\ d.next = w.next
      /\ d.sealed = w.sealed /\ d.inPlace = w.inPlace /\ d.after = w.after
      /\ d.stage = w.stage /\ d.stageOf = w.stageOf
      /\ d.sess = w.sess /\ d.deferred = TRUE
  BY <1>1 DEF WatchRecord
<1>5. t = IF ~w.held THEN w
          ELSE IF w.sess # "ACTIVE" THEN r
          ELSE IF w.seg # 0 THEN d
          ELSE OnResponseWatchdogFired(r, TRUE, handle, taken)
  BY <1>1, <1>3 DEF ReevaluateHeldRecovery, WatchRecord
<1> HIDE DEF r, d
<1>6. WatchSound(r) /\ WatchSound(d) BY <1>1, <1>2, <1>3, <1>4, WatchLadderSame DEF WatchSound
<1>7. CASE w.held = FALSE BY <1>5, <1>7 DEF WatchGood
<1>8. CASE w.held /\ w.sess # "ACTIVE" BY <1>3, <1>5, <1>6, <1>8 DEF WatchGood, Watched, Elicited
<1>9. CASE w.held /\ w.sess = "ACTIVE" /\ w.seg # 0
  BY <1>4, <1>5, <1>6, <1>9 DEF WatchGood, Watched, Elicited
<1>10. CASE w.held /\ w.sess = "ACTIVE" /\ w.seg = 0 BY <1>5, <1>10, <1>3, <1>6, WatchFiredSound
<1>11. w.held \in BOOLEAN BY <1>1 DEF WatchRecord
<1> QED BY <1>7, <1>8, <1>9, <1>10, <1>11

\* A segment ends: a completed turn is owed under a fresh timer, and a fire
\* that was deferred to the segment is armed again.
LEMMA WatchTerminalSound ==
  ASSUME NEW w, WatchGood(w), w.seg # 0, NEW completed \in BOOLEAN, NEW forced \in BOOLEAN,
         completed => w.sess = "ACTIVE",
         NEW t, t = ActuateTerminalPolicies(w, completed, forced)
  PROVE  WatchGood(t)
<1> DEFINE e == [w EXCEPT !.seg = 0, !.routed = FALSE]
           sealing == completed /\ w.routed /\ ~forced
           z == [e EXCEPT !.sealed = w.seg, !.drained = FALSE]
           s == IF sealing THEN z ELSE e
           o == [s EXCEPT !.owed = TRUE]
<1>1. w \in WatchRecord /\ Ladder(w) /\ Watched(w) /\ Elicited(w) BY DEF WatchSound, WatchGood
<1>2. e \in WatchRecord
      /\ e.twice = w.twice /\ e.seg = 0 /\ e.next = w.next
      /\ e.sealed = w.sealed /\ e.inPlace = w.inPlace /\ e.after = w.after
      /\ e.stage = w.stage /\ e.stageOf = w.stageOf
      /\ e.sess = w.sess /\ e.agent = w.agent /\ e.owed = w.owed /\ e.elicit = w.elicit
      /\ e.timer = w.timer /\ e.deferred = w.deferred /\ e.held = w.held
      /\ e.greet = w.greet /\ e.hold = w.hold
  BY <1>1 DEF WatchRecord
<1>3. Ladder(e)
  <2> HIDE DEF e
  <2> QED BY <1>1, <1>2, WatchLadderKept DEF WatchSound
<1>4. z \in WatchRecord
      /\ z.twice = w.twice /\ z.seg = 0 /\ z.next = w.next
      /\ z.sealed = w.seg /\ z.inPlace = w.inPlace /\ z.after = w.after
      /\ z.stage = w.stage /\ z.stageOf = w.stageOf
      /\ z.sess = w.sess /\ z.agent = w.agent /\ z.owed = w.owed /\ z.elicit = w.elicit
      /\ z.timer = w.timer /\ z.deferred = w.deferred /\ z.held = w.held
      /\ z.greet = w.greet /\ z.hold = w.hold
  <2>1. w.seg \in Nat BY <1>1 DEF WatchRecord
  <2> HIDE DEF e
  <2> QED BY <1>2, <2>1 DEF WatchRecord
<1> HIDE DEF e, z
<1>5. Ladder(z) BY <1>1, <1>4 DEF WatchRecord, Ladder
<1>6. /\ s \in WatchRecord /\ WatchSound(s) /\ s.seg = 0
      /\ s.sess = w.sess /\ s.agent = w.agent /\ s.owed = w.owed /\ s.elicit = w.elicit
      /\ s.timer = w.timer /\ s.deferred = w.deferred /\ s.held = w.held
      /\ s.greet = w.greet /\ s.hold = w.hold
  BY <1>2, <1>3, <1>4, <1>5 DEF WatchSound
<1>7. t = IF completed /\ w.routed /\ w.agent THEN Arm(o) ELSE NotifySegmentAborted(s)
  BY DEF ActuateTerminalPolicies, Seal, e, z
<1> HIDE DEF s
<1>8. CASE completed /\ w.routed /\ w.agent
  <2>1. o \in WatchRecord BY <1>6, ZenonT(40) DEF WatchRecord
  <2>2. /\ o.twice = s.twice /\ o.seg = s.seg /\ o.next = s.next
        /\ o.sealed = s.sealed /\ o.inPlace = s.inPlace /\ o.after = s.after
        /\ o.stage = s.stage /\ o.stageOf = s.stageOf
        /\ o.sess = w.sess /\ o.agent = w.agent
    BY <1>6 DEF WatchRecord
  <2> HIDE DEF o
  <2>3. WatchSound(o) BY <1>6, <2>1, <2>2, WatchLadderSame DEF WatchSound
  <2> QED BY <2>3, WatchArmSound, <1>7, <1>8, <2>2 DEF WatchGood, Watched, Elicited
<1>9. CASE ~(completed /\ w.routed /\ w.agent) /\ s.deferred
  BY <1>6, WatchArmSound, <1>7, <1>9, <1>1 DEF NotifySegmentAborted, Watched, Elicited, WatchGood
<1>10. CASE ~(completed /\ w.routed /\ w.agent) /\ ~s.deferred
  BY <1>7, <1>10, <1>1, <1>6 DEF NotifySegmentAborted, Watched, Elicited, WatchGood
<1> QED BY <1>8, <1>9, <1>10

\* So with the end that the model's activity forces.
LEMMA WatchForceCompleteSound ==
  ASSUME NEW w, WatchGood(w), w.sess = "ACTIVE", NEW completed \in BOOLEAN,
         NEW t, t = ForceComplete(w, completed)
  PROVE  WatchGood(t)
<1>1. CASE w.seg = 0 BY <1>1 DEF ForceComplete
<1>2. CASE w.seg # 0 BY <1>2, WatchTerminalSound DEF ForceComplete
<1> QED BY <1>1, <1>2

-----------------------------------------------------------------------------

\* The model answers: nothing is owed.
LEMMA ModelSpeaksSound == WatchInv /\ ModelSpeaks => WatchInv'
<1> SUFFICES ASSUME WatchInv, ModelSpeaks PROVE WatchInv' OBVIOUS
<1> DEFINE t == [watch EXCEPT !.timer = FALSE, !.owed = FALSE]
<1>1. watch \in WatchRecord /\ WatchSound(watch) /\ watch' = t
  BY DEF WatchInv, WatchSound, ModelSpeaks, Set, Disarm, WatchRecord
<1>2. t \in WatchRecord BY <1>1, ZenonT(40) DEF WatchRecord
<1>3. /\ t.twice = watch.twice /\ t.seg = watch.seg /\ t.next = watch.next
      /\ t.sealed = watch.sealed /\ t.inPlace = watch.inPlace /\ t.after = watch.after
      /\ t.stage = watch.stage /\ t.stageOf = watch.stageOf
      /\ t.owed = FALSE
  BY <1>1 DEF WatchRecord
<1> HIDE DEF t
<1>5. WatchGood(t) BY <1>2, <1>3, WatchDebtFree, <1>1, WatchLadderSame DEF WatchSound
<1> QED BY <1>1, <1>5 DEF WatchInv, WatchGood

\* Typed input takes the turn over.
LEMMA DirectInputSound == WatchInv /\ DirectInput => WatchInv'
<1> SUFFICES ASSUME WatchInv, DirectInput PROVE WatchInv' OBVIOUS
<1> DEFINE t == [watch EXCEPT !.held = FALSE, !.greet = FALSE, !.hold = FALSE,
                               !.model = FALSE, !.owed = FALSE]
<1>1. watch \in WatchRecord /\ WatchSound(watch) /\ watch' = t
  BY DEF WatchInv, WatchSound, DirectInput, Set
<1>2. t \in WatchRecord BY <1>1, ZenonT(40) DEF WatchRecord
<1>3. /\ t.twice = watch.twice /\ t.seg = watch.seg /\ t.next = watch.next
      /\ t.sealed = watch.sealed /\ t.inPlace = watch.inPlace /\ t.after = watch.after
      /\ t.stage = watch.stage /\ t.stageOf = watch.stageOf
      /\ t.owed = FALSE
  BY <1>1 DEF WatchRecord
<1> HIDE DEF t
<1>5. WatchGood(t) BY <1>2, <1>3, WatchDebtFree, <1>1, WatchLadderSame DEF WatchSound
<1> QED BY <1>1, <1>5 DEF WatchInv, WatchGood

\* A mode change writes the debt off.
LEMMA ModeChangesSound == WatchInv /\ ModeChanges => WatchInv'
<1> SUFFICES ASSUME WatchInv, ModeChanges PROVE WatchInv' OBVIOUS
<1> DEFINE t == [watch EXCEPT !.agent = ~watch.agent, !.owed = FALSE]
<1>1. watch \in WatchRecord /\ WatchSound(watch) /\ watch' = t
  BY DEF WatchInv, WatchSound, ModeChanges, Set
<1>2. t \in WatchRecord BY <1>1, ZenonT(40) DEF WatchRecord
<1>3. /\ t.twice = watch.twice /\ t.seg = watch.seg /\ t.next = watch.next
      /\ t.sealed = watch.sealed /\ t.inPlace = watch.inPlace /\ t.after = watch.after
      /\ t.stage = watch.stage /\ t.stageOf = watch.stageOf
      /\ t.owed = FALSE
  BY <1>1 DEF WatchRecord
<1> HIDE DEF t
<1>5. WatchGood(t) BY <1>2, <1>3, WatchDebtFree, <1>1, WatchLadderSame DEF WatchSound
<1> QED BY <1>1, <1>5 DEF WatchInv, WatchGood

\* A context reset drops the retained utterance and its stage.
LEMMA ContextResetSound == WatchInv /\ ContextReset => WatchInv'
<1> SUFFICES ASSUME WatchInv, ContextReset PROVE WatchInv' OBVIOUS
<1> DEFINE t == [watch EXCEPT !.sealed = 0, !.owed = FALSE, !.stage = "idle", !.stageOf = 0,
                               !.deferred = FALSE]
<1>1. watch \in WatchRecord /\ WatchSound(watch) /\ watch' = t
  BY DEF WatchInv, WatchSound, ContextReset, Set, ResetReplayState, WatchRecord
<1>2. t \in WatchRecord BY <1>1, ZenonT(40) DEF WatchRecord
<1>3. /\ t.twice = watch.twice /\ t.seg = watch.seg /\ t.next = watch.next
      /\ t.inPlace = watch.inPlace /\ t.after = watch.after
      /\ t.owed = FALSE /\ t.sealed = 0 /\ t.stage = "idle" /\ t.stageOf = 0
  BY <1>1 DEF WatchRecord
<1> HIDE DEF t
<1>5. WatchGood(t) BY <1>2, <1>3, WatchDebtFree, <1>1, WatchLadderKept DEF WatchSound
<1> QED BY <1>1, <1>5 DEF WatchInv, WatchGood

\* A close drops it too.
LEMMA SessionClosesSound == WatchInv /\ SessionCloses => WatchInv'
<1> SUFFICES ASSUME WatchInv, SessionCloses PROVE WatchInv' OBVIOUS
<1> DEFINE t == [watch EXCEPT !.timer = FALSE, !.sess = "CLOSED", !.sealed = 0, !.held = FALSE,
                               !.owed = FALSE, !.stage = "idle", !.stageOf = 0,
                               !.deferred = FALSE]
<1>1. watch \in WatchRecord /\ WatchSound(watch) /\ watch' = t
  BY DEF WatchInv, WatchSound, SessionCloses, Set, ResetReplayState, Disarm,
         WatchRecord
<1>2. t \in WatchRecord BY <1>1, ZenonT(40) DEF WatchRecord
<1>3. /\ t.twice = watch.twice /\ t.seg = watch.seg /\ t.next = watch.next
      /\ t.inPlace = watch.inPlace /\ t.after = watch.after
      /\ t.owed = FALSE /\ t.sealed = 0 /\ t.stage = "idle" /\ t.stageOf = 0
  BY <1>1 DEF WatchRecord
<1> HIDE DEF t
<1>5. WatchGood(t) BY <1>2, <1>3, WatchDebtFree, <1>1, WatchLadderKept DEF WatchSound
<1> QED BY <1>1, <1>5 DEF WatchInv, WatchGood

\* Routing a frame touches neither the ladder nor the watch.
LEMMA SpeechIsRoutedSound == WatchInv /\ SpeechIsRouted => WatchInv'
<1> SUFFICES ASSUME WatchInv, SpeechIsRouted PROVE WatchInv' OBVIOUS
<1> DEFINE t == [watch EXCEPT !.routed = TRUE]
<1>1. watch \in WatchRecord /\ WatchSound(watch) /\ Ladder(watch) /\ watch' = t
  BY DEF WatchInv, WatchSound, SpeechIsRouted, Set
<1>2. t \in WatchRecord BY <1>1, ZenonT(40) DEF WatchRecord
<1>3. /\ t.twice = watch.twice /\ t.seg = watch.seg /\ t.next = watch.next
      /\ t.sealed = watch.sealed /\ t.inPlace = watch.inPlace /\ t.after = watch.after
      /\ t.stage = watch.stage /\ t.stageOf = watch.stageOf /\ t.owed = watch.owed
      /\ t.sess = watch.sess /\ t.agent = watch.agent /\ t.timer = watch.timer
      /\ t.deferred = watch.deferred /\ t.held = watch.held /\ t.greet = watch.greet
      /\ t.hold = watch.hold /\ t.elicit = watch.elicit
  BY <1>1 DEF WatchRecord
<1> HIDE DEF t
<1>4. Ladder(t) BY <1>1, <1>3, WatchLadderSame
<1>5. Watched(t) BY <1>3 DEF SpeechIsRouted, WatchInv, Watched
<1>6. Elicited(t) BY <1>3 DEF SpeechIsRouted, WatchInv, Elicited
<1> QED BY <1>1, <1>2, <1>4, <1>5, <1>6 DEF WatchInv, WatchSound

\* A greeting may only close a gate.
LEMMA GreetingStartsSound == WatchInv /\ GreetingStarts => WatchInv'
<1> SUFFICES ASSUME WatchInv, GreetingStarts PROVE WatchInv' OBVIOUS
<1> DEFINE t == [watch EXCEPT !.greet = TRUE]
<1>1. watch \in WatchRecord /\ WatchSound(watch) /\ Ladder(watch) /\ watch' = t
  BY DEF WatchInv, WatchSound, GreetingStarts, Set
<1>2. t \in WatchRecord BY <1>1, ZenonT(40) DEF WatchRecord
<1>3. /\ t.twice = watch.twice /\ t.seg = watch.seg /\ t.next = watch.next
      /\ t.sealed = watch.sealed /\ t.inPlace = watch.inPlace /\ t.after = watch.after
      /\ t.stage = watch.stage /\ t.stageOf = watch.stageOf /\ t.owed = watch.owed
      /\ t.sess = watch.sess /\ t.agent = watch.agent /\ t.timer = watch.timer
      /\ t.deferred = watch.deferred /\ t.held = watch.held /\ t.hold = watch.hold
      /\ t.elicit = watch.elicit
      /\ t.greet = TRUE
  BY <1>1 DEF WatchRecord
<1> HIDE DEF t
<1>4. Ladder(t) BY <1>1, <1>3, WatchLadderSame
<1>5. Watched(t) BY <1>3 DEF GreetingStarts, WatchInv, Watched
<1>6. Elicited(t) BY <1>3 DEF GreetingStarts, WatchInv, Elicited
<1> QED BY <1>1, <1>2, <1>4, <1>5, <1>6 DEF WatchInv, WatchSound

\* A lost session watches nothing.
LEMMA ReconnectFailsSound == WatchInv /\ ReconnectFails => WatchInv'
<1> SUFFICES ASSUME WatchInv, ReconnectFails PROVE WatchInv' OBVIOUS
<1> DEFINE t == [watch EXCEPT !.sess = "UPSTREAM_LOST"]
<1>1. watch \in WatchRecord /\ WatchSound(watch) /\ Ladder(watch) /\ watch' = t
  BY DEF WatchInv, WatchSound, ReconnectFails, Set
<1>2. t \in WatchRecord BY <1>1, ZenonT(40) DEF WatchRecord
<1>3. /\ t.twice = watch.twice /\ t.seg = watch.seg /\ t.next = watch.next
      /\ t.sealed = watch.sealed /\ t.inPlace = watch.inPlace /\ t.after = watch.after
      /\ t.stage = watch.stage /\ t.stageOf = watch.stageOf /\ t.owed = watch.owed
      /\ t.agent = watch.agent /\ t.timer = watch.timer /\ t.deferred = watch.deferred
      /\ t.held = watch.held /\ t.greet = watch.greet /\ t.hold = watch.hold
      /\ t.elicit = watch.elicit
      /\ t.sess = "UPSTREAM_LOST"
  BY <1>1 DEF WatchRecord
<1> HIDE DEF t
<1>4. Ladder(t) BY <1>1, <1>3, WatchLadderSame
<1>5. Watched(t) BY <1>3 DEF ReconnectFails, WatchInv, Watched
<1>6. Elicited(t) BY <1>3 DEF ReconnectFails, WatchInv, Elicited
<1> QED BY <1>1, <1>2, <1>4, <1>5, <1>6 DEF WatchInv, WatchSound

\* A segment starts above everything that was replayed.
LEMMA SpeechStartsSound == WatchInv /\ SpeechStarts => WatchInv'
<1> SUFFICES ASSUME WatchInv, SpeechStarts PROVE WatchInv' OBVIOUS
<1> DEFINE n == watch.next + 1
           b == watch.agent /\ ~watch.greet
           t == [watch EXCEPT !.seg = watch.next, !.next = n, !.routed = b]
<1>1. watch \in WatchRecord /\ Ladder(watch) /\ watch' = t /\ watch.seg = 0
  BY DEF WatchInv, WatchSound, SpeechStarts, Set, WatchRecord
<1>2. n \in Nat /\ watch.next \in Nat /\ watch.next # 0 /\ n = watch.next + 1
      /\ watch.sealed \in Nat
  BY <1>1 DEF WatchRecord, Ladder
<1>3. b \in BOOLEAN OBVIOUS
<1> HIDE DEF n, b
<1> DEFINE c == [watch EXCEPT !.seg = watch.next]
           d == [c EXCEPT !.next = n]
<1>4. t \in WatchRecord
  <2>1. c \in WatchRecord BY <1>1, <1>2 DEF WatchRecord
  <2>2. t = [d EXCEPT !.routed = b] OBVIOUS
  <2> HIDE DEF c, t
  <2>3. d \in WatchRecord BY <1>2, <2>1 DEF WatchRecord
  <2> HIDE DEF d
  <2> QED BY <1>3, <2>2, <2>3 DEF WatchRecord
<1>5. /\ t.twice = watch.twice /\ t.sealed = watch.sealed /\ t.inPlace = watch.inPlace
      /\ t.after = watch.after /\ t.stage = watch.stage /\ t.stageOf = watch.stageOf
      /\ t.owed = watch.owed /\ t.sess = watch.sess /\ t.agent = watch.agent
      /\ t.timer = watch.timer /\ t.deferred = watch.deferred /\ t.held = watch.held
      /\ t.greet = watch.greet /\ t.hold = watch.hold /\ t.elicit = watch.elicit
      /\ t.seg = watch.next /\ t.next = n
  BY <1>1, <1>4 DEF WatchRecord
<1> HIDE DEF t
<1>7. Ladder(t) BY <1>1, <1>5, <1>2 DEF Ladder, WatchRecord
<1> QED BY <1>1, <1>4, <1>7, <1>5 DEF WatchInv, WatchSound, Watched, Elicited

\* The terminal of a segment.
LEMMA SpeechEndsSound == WatchInv /\ SpeechEnds => WatchInv'
<1> SUFFICES ASSUME WatchInv, SpeechEnds PROVE WatchInv' OBVIOUS
<1>1. PICK completed \in BOOLEAN :
         /\ completed => watch.sess = "ACTIVE"
         /\ watch' = ActuateTerminalPolicies(watch, completed, FALSE)
  BY DEF SpeechEnds, Set
<1> QED BY <1>1, WatchTerminalSound DEF WatchInv, WatchGood, SpeechEnds

\* The gate opens on a fire held behind it.
LEMMA GreetingEndsSound == WatchInv /\ GreetingEnds => WatchInv'
<1> SUFFICES ASSUME WatchInv, GreetingEnds PROVE WatchInv' OBVIOUS
<1> DEFINE w == [watch EXCEPT !.greet = FALSE]
<1>1. watch \in WatchRecord /\ Ladder(watch) BY DEF WatchInv, WatchSound
<1>2. PICK handle \in BOOLEAN, taken \in BOOLEAN :
         watch' = ReevaluateHeldRecovery(w, handle, taken)
  BY DEF GreetingEnds, Set
<1>3. w \in WatchRecord BY <1>1, ZenonT(40) DEF WatchRecord
<1>4. /\ w.twice = watch.twice /\ w.seg = watch.seg /\ w.next = watch.next
      /\ w.sealed = watch.sealed /\ w.inPlace = watch.inPlace /\ w.after = watch.after
      /\ w.stage = watch.stage /\ w.stageOf = watch.stageOf /\ w.owed = watch.owed
      /\ w.sess = watch.sess /\ w.agent = watch.agent /\ w.timer = watch.timer
      /\ w.deferred = watch.deferred /\ w.held = watch.held /\ w.hold = watch.hold
      /\ w.elicit = watch.elicit
  BY <1>1 DEF WatchRecord
<1> HIDE DEF w
<1>5. WatchSound(w) BY <1>1, <1>3, <1>4, WatchLadderSame DEF WatchSound
<1>7. WatchGood(watch') BY <1>2, <1>5, WatchReevaluateSound, <1>4 DEF WatchInv, Watched, Elicited
<1> QED BY <1>7 DEF WatchInv, WatchGood

\* So does the hold.
LEMMA HoldReleasesSound == WatchInv /\ HoldReleases => WatchInv'
<1> SUFFICES ASSUME WatchInv, HoldReleases PROVE WatchInv' OBVIOUS
<1> DEFINE w == [watch EXCEPT !.hold = FALSE]
<1>1. watch \in WatchRecord /\ Ladder(watch) BY DEF WatchInv, WatchSound
<1>2. PICK handle \in BOOLEAN, taken \in BOOLEAN :
         watch' = ReevaluateHeldRecovery(w, handle, taken)
  BY DEF HoldReleases, Set
<1>3. w \in WatchRecord BY <1>1, ZenonT(40) DEF WatchRecord
<1>4. /\ w.twice = watch.twice /\ w.seg = watch.seg /\ w.next = watch.next
      /\ w.sealed = watch.sealed /\ w.inPlace = watch.inPlace /\ w.after = watch.after
      /\ w.stage = watch.stage /\ w.stageOf = watch.stageOf /\ w.owed = watch.owed
      /\ w.sess = watch.sess /\ w.agent = watch.agent /\ w.timer = watch.timer
      /\ w.deferred = watch.deferred /\ w.held = watch.held /\ w.greet = watch.greet
      /\ w.elicit = watch.elicit
  BY <1>1 DEF WatchRecord
<1> HIDE DEF w
<1>5. WatchSound(w) BY <1>1, <1>3, <1>4, WatchLadderSame DEF WatchSound
<1>7. WatchGood(watch') BY <1>2, <1>5, WatchReevaluateSound, <1>4 DEF WatchInv, Watched, Elicited
<1> QED BY <1>7 DEF WatchInv, WatchGood

\* The turn ends: nothing is owed, and only a clean end refills the budget.
LEMMA TurnEndsSound == WatchInv /\ TurnEnds => WatchInv'
<1> SUFFICES ASSUME WatchInv, TurnEnds PROVE WatchInv' OBVIOUS
<1>1. watch \in WatchRecord /\ WatchSound(watch) /\ Ladder(watch) BY DEF WatchInv, WatchSound
<1>2. PICK interrupted \in BOOLEAN :
         watch' = [Disarm(watch) EXCEPT !.model = FALSE, !.owed = FALSE,
                                        !.attempts = IF interrupted THEN @ ELSE 0]
  BY DEF TurnEnds, Set
<1> DEFINE n == IF interrupted THEN watch.attempts ELSE 0
           t == [watch EXCEPT !.timer = FALSE, !.model = FALSE, !.owed = FALSE,
                              !.attempts = n]
<1>3. watch' = t /\ n \in Nat BY <1>1, <1>2 DEF Disarm, WatchRecord
<1> HIDE DEF n
<1>4. t \in WatchRecord BY <1>1, <1>3, ZenonT(40) DEF WatchRecord
<1>5. /\ t.twice = watch.twice /\ t.seg = watch.seg /\ t.next = watch.next
      /\ t.sealed = watch.sealed /\ t.inPlace = watch.inPlace /\ t.after = watch.after
      /\ t.stage = watch.stage /\ t.stageOf = watch.stageOf
      /\ t.owed = FALSE
  BY <1>1 DEF WatchRecord
<1> HIDE DEF t
<1>6. WatchSound(t) BY <1>1, <1>4, <1>5, WatchLadderSame DEF WatchSound
<1>7. WatchGood(t) BY <1>5, <1>6, WatchDebtFree
<1> QED BY <1>3, <1>7 DEF WatchInv, WatchGood

\* The host's recovery starts over.
LEMMA HostRecoversSound == WatchInv /\ HostRecovers => WatchInv'
<1> SUFFICES ASSUME WatchInv, HostRecovers PROVE WatchInv' OBVIOUS
<1>1. watch \in WatchRecord /\ WatchSound(watch) /\ Ladder(watch) BY DEF WatchInv, WatchSound
<1>2. PICK hold \in BOOLEAN :
         watch' = [Disarm(watch) EXCEPT !.sess = "ACTIVE", !.held = FALSE, !.sealed = 0,
                                 !.greet = FALSE, !.hold = hold \/ @, !.attempts = 0,
                                 !.model = FALSE, !.owed = FALSE]
  BY DEF HostRecovers, Set
<1> DEFINE b == hold \/ watch.hold
           t == [watch EXCEPT !.timer = FALSE, !.sess = "ACTIVE", !.held = FALSE,
                              !.sealed = 0, !.greet = FALSE, !.hold = b,
                              !.attempts = 0, !.model = FALSE, !.owed = FALSE]
<1>3. watch' = t /\ b \in BOOLEAN BY <1>1, <1>2 DEF Disarm, WatchRecord
<1> HIDE DEF b
<1>4. t \in WatchRecord BY <1>1, <1>3, ZenonT(40) DEF WatchRecord
<1>5. /\ t.twice = watch.twice /\ t.seg = watch.seg /\ t.next = watch.next
      /\ t.inPlace = watch.inPlace /\ t.after = watch.after /\ t.stage = watch.stage
      /\ t.stageOf = watch.stageOf
      /\ t.sealed = 0 /\ t.owed = FALSE
  BY <1>1 DEF WatchRecord
<1> HIDE DEF t
<1>6. Ladder(t) BY <1>1, <1>5, WatchLadderKept
<1>7. WatchGood(t) BY <1>4, <1>5, <1>6, WatchDebtFree DEF WatchSound
<1> QED BY <1>3, <1>7 DEF WatchInv, WatchGood

\* A loss that elicits nothing writes the debt off.
LEMMA ConnectionEndsSound == WatchInv /\ ConnectionEnds => WatchInv'
<1> SUFFICES ASSUME WatchInv, ConnectionEnds PROVE WatchInv' OBVIOUS
<1>1. watch \in WatchRecord /\ WatchSound(watch) /\ Ladder(watch) BY DEF WatchInv, WatchSound
<1> DEFINE a(handle) == TriggerReconnect(watch, FALSE, handle)
           d == [watch EXCEPT !.timer = FALSE, !.owed = FALSE, !.sess = "RECONNECTING",
                              !.elicit = FALSE, !.model = FALSE]
<1>2. (\E handle \in BOOLEAN : watch' = [a(handle) EXCEPT !.owed = FALSE]) \/ watch' = d
  BY <1>1 DEF ConnectionEnds, Set, Disarm, WatchRecord
<1>3. CASE watch' = d
  <2>1. d \in WatchRecord BY <1>1, ZenonT(40) DEF WatchRecord
  <2>2. /\ d.twice = watch.twice /\ d.seg = watch.seg /\ d.next = watch.next
        /\ d.sealed = watch.sealed /\ d.inPlace = watch.inPlace /\ d.after = watch.after
        /\ d.stage = watch.stage /\ d.stageOf = watch.stageOf
        /\ d.owed = FALSE
    BY <1>1 DEF WatchRecord
  <2> HIDE DEF d
  <2>3. WatchSound(d) BY <1>1, <2>1, <2>2, WatchLadderSame DEF WatchSound
  <2> QED BY <1>3, <2>2, <2>3, WatchDebtFree DEF WatchInv, WatchGood
<1>4. ASSUME NEW handle \in BOOLEAN, watch' = [a(handle) EXCEPT !.owed = FALSE]
      PROVE  WatchInv'
  <2> DEFINE r == a(handle)
             t == [r EXCEPT !.owed = FALSE]
  <2>1. WatchSound(r) BY <1>1, WatchTriggerSound DEF ConnectionEnds
  <2>2. r \in WatchRecord /\ Ladder(r) BY <2>1 DEF WatchSound
  <2> HIDE DEF r
  <2>3. t \in WatchRecord BY <2>2, ZenonT(40) DEF WatchRecord
  <2>4. /\ t.twice = r.twice /\ t.seg = r.seg /\ t.next = r.next
        /\ t.sealed = r.sealed /\ t.inPlace = r.inPlace /\ t.after = r.after
        /\ t.stage = r.stage /\ t.stageOf = r.stageOf
        /\ t.owed = FALSE
    BY <2>2 DEF WatchRecord
  <2>5. watch' = t BY <1>4 DEF r
  <2> HIDE DEF t
  <2>6. WatchSound(t) BY <2>2, <2>3, <2>4, WatchLadderSame DEF WatchSound
  <2> QED BY <2>4, <2>5, <2>6, WatchDebtFree DEF WatchInv, WatchGood
<1> QED BY <1>2, <1>3, <1>4

\* The timer fires.
LEMMA WatchdogFiresSound == WatchInv /\ WatchdogFires => WatchInv'
<1> SUFFICES ASSUME WatchInv, WatchdogFires PROVE WatchInv' OBVIOUS
<1>1. watch \in WatchRecord /\ WatchSound(watch) /\ Ladder(watch) BY DEF WatchInv, WatchSound
<1> DEFINE w == [watch EXCEPT !.timer = FALSE]
<1>2. PICK connected \in BOOLEAN, handle \in BOOLEAN, taken \in BOOLEAN :
         watch' = IF w.sess # "ACTIVE" THEN w
                  ELSE OnResponseWatchdogFired(w, connected, handle, taken)
  BY DEF WatchdogFires, Set, Disarm
<1>3. w \in WatchRecord BY <1>1, ZenonT(40) DEF WatchRecord
<1>4. /\ w.twice = watch.twice /\ w.seg = watch.seg /\ w.next = watch.next
      /\ w.sealed = watch.sealed /\ w.inPlace = watch.inPlace /\ w.after = watch.after
      /\ w.stage = watch.stage /\ w.stageOf = watch.stageOf /\ w.owed = watch.owed
      /\ w.sess = watch.sess /\ w.agent = watch.agent /\ w.deferred = watch.deferred
      /\ w.held = watch.held /\ w.greet = watch.greet /\ w.hold = watch.hold
      /\ w.elicit = watch.elicit
  BY <1>1 DEF WatchRecord
<1> HIDE DEF w
<1>5. WatchSound(w) BY <1>1, <1>3, <1>4, WatchLadderSame DEF WatchSound
<1> QED BY <1>2, <1>5, <1>4, WatchFiredSound DEF WatchInv, WatchGood, Watched, Elicited

\* A tool call answers the turn, and ends the user's segment.
LEMMA ToolCallArrivesSound == WatchInv /\ ToolCallArrives => WatchInv'
<1> SUFFICES ASSUME WatchInv, ToolCallArrives PROVE WatchInv' OBVIOUS
<1>1. watch \in WatchRecord /\ WatchSound(watch) /\ Ladder(watch) BY DEF WatchInv, WatchSound
<1> DEFINE w == [watch EXCEPT !.timer = FALSE, !.owed = FALSE]
<1>2. PICK completed \in BOOLEAN : watch' = ForceComplete(w, completed)
  BY <1>1 DEF ToolCallArrives, Set, Disarm, WatchRecord
<1>3. w \in WatchRecord BY <1>1, ZenonT(40) DEF WatchRecord
<1>4. /\ w.twice = watch.twice /\ w.seg = watch.seg /\ w.next = watch.next
      /\ w.sealed = watch.sealed /\ w.inPlace = watch.inPlace /\ w.after = watch.after
      /\ w.stage = watch.stage /\ w.stageOf = watch.stageOf
      /\ w.owed = FALSE /\ w.sess = watch.sess
  BY <1>1 DEF WatchRecord
<1> HIDE DEF w
<1>5. WatchSound(w) BY <1>1, <1>3, <1>4, WatchLadderSame DEF WatchSound
<1>7. WatchGood(watch')
  BY <1>2, WatchForceCompleteSound, <1>4, <1>5, WatchDebtFree DEF ToolCallArrives
<1> QED BY <1>7 DEF WatchInv, WatchGood

\* A turn starts: a fire held behind the greeting keeps the debt.
LEMMA ModelStartsSound == WatchInv /\ ModelStarts => WatchInv'
<1> SUFFICES ASSUME WatchInv, ModelStarts PROVE WatchInv' OBVIOUS
<1>1. watch \in WatchRecord /\ WatchSound(watch) /\ Ladder(watch) BY DEF WatchInv, WatchSound
<1> DEFINE b == watch.held /\ watch.greet
           w == [watch EXCEPT !.model = TRUE, !.held = b]
           z == [watch EXCEPT !.model = TRUE, !.held = b, !.timer = FALSE, !.sealed = 0,
                              !.owed = FALSE, !.stage = "idle", !.stageOf = 0,
                              !.deferred = FALSE]
<1>2. PICK completed \in BOOLEAN :
         watch' = ForceComplete(IF w.held THEN w ELSE z, completed)
  BY <1>1 DEF ModelStarts, Set, Disarm, ResetReplayState, WatchRecord
<1>3. b \in BOOLEAN /\ (b => watch.held /\ watch.greet) BY <1>1 DEF WatchRecord
<1> HIDE DEF b
<1>4. w \in WatchRecord /\ z \in WatchRecord
  <2>1. w \in WatchRecord BY <1>1, <1>3, ZenonT(40) DEF WatchRecord
  <2>2. z \in WatchRecord BY <1>1, <1>3 DEF WatchRecord
  <2> QED BY <2>1, <2>2
<1>5. /\ w.twice = watch.twice /\ w.seg = watch.seg /\ w.next = watch.next
      /\ w.sealed = watch.sealed /\ w.inPlace = watch.inPlace /\ w.after = watch.after
      /\ w.stage = watch.stage /\ w.stageOf = watch.stageOf /\ w.owed = watch.owed
      /\ w.sess = watch.sess /\ w.agent = watch.agent /\ w.timer = watch.timer
      /\ w.deferred = watch.deferred /\ w.greet = watch.greet /\ w.hold = watch.hold
      /\ w.elicit = watch.elicit
      /\ w.held = b
  BY <1>1, <1>3 DEF WatchRecord
<1>6. /\ z.twice = watch.twice /\ z.seg = watch.seg /\ z.next = watch.next
      /\ z.inPlace = watch.inPlace /\ z.after = watch.after /\ z.sess = watch.sess
      /\ z.sealed = 0 /\ z.owed = FALSE
  BY <1>1 DEF WatchRecord
<1> HIDE DEF w, z
<1>7. WatchSound(w) BY <1>1, <1>4, <1>5, WatchLadderSame DEF WatchSound
<1>8. w.held => WatchGood(w) BY <1>3, <1>5, <1>7 DEF WatchInv, WatchGood, Watched, Elicited
<1>9. Ladder(z) BY <1>1, <1>6, WatchLadderKept
<1>10. WatchGood(z) BY <1>4, <1>6, <1>9, WatchDebtFree DEF WatchSound
<1>11. w.sess = "ACTIVE" /\ z.sess = "ACTIVE" BY <1>5, <1>6 DEF ModelStarts
<1>12. WatchGood(watch')
  <2>1. CASE w.held BY <1>2, <1>8, <1>11, <2>1, WatchForceCompleteSound
  <2>2. CASE ~w.held BY <1>2, <1>10, <1>11, <2>2, WatchForceCompleteSound
  <2> QED BY <2>1, <2>2
<1> QED BY <1>12 DEF WatchInv, WatchGood

\* The reconnect completes: its debt is elicited again, or written off.
LEMMA ReconnectCompletesSound == WatchInv /\ ReconnectCompletes => WatchInv'
<1> SUFFICES ASSUME WatchInv, ReconnectCompletes PROVE WatchInv' OBVIOUS
<1>1. watch \in WatchRecord /\ WatchSound(watch) /\ Ladder(watch) BY DEF WatchInv, WatchSound
<1>2. PICK speech \in {"none", "local", "hosted", "unknown"}, taken \in BOOLEAN :
         LET w == [watch EXCEPT !.sess = "ACTIVE", !.drained = @ \/ speech = "local"]
             s == StageFor(w)
             replay == Eligible(w) /\ s.stage # "after" /\ taken
         IN Set(IF ~w.elicit \/ ~w.agent THEN w
                ELSE IF speech = "local" THEN Arm(w)
                ELSE IF speech # "none" THEN [w EXCEPT !.owed = FALSE]
                ELSE IF replay THEN Arm([Replay(s, "after") EXCEPT !.stage = "after"])
                ELSE [(IF w.sealed # 0 THEN s ELSE w) EXCEPT !.owed = FALSE], 0)
  BY Zenon DEF ReconnectCompletes
<1> DEFINE b == watch.drained \/ speech = "local"
           w == [watch EXCEPT !.sess = "ACTIVE", !.drained = b]
           s == StageFor(w)
           replay == Eligible(w) /\ s.stage # "after" /\ taken
           p == [Replay(s, "after") EXCEPT !.stage = "after"]
           r == IF speech = "none" /\ w.sealed # 0 THEN s ELSE w
           o == [r EXCEPT !.owed = FALSE]
<1>3. watch' = IF ~w.elicit \/ ~w.agent THEN w
               ELSE IF speech = "local" THEN Arm(w)
               ELSE IF speech = "none" /\ replay THEN Arm(p)
               ELSE o
  BY <1>2, Zenon DEF Set
<1>4. b \in BOOLEAN BY <1>1 DEF WatchRecord
<1> HIDE DEF b
<1>5. w \in WatchRecord BY <1>1, <1>4, Zenon DEF WatchRecord
<1>6. /\ w.twice = watch.twice /\ w.seg = watch.seg /\ w.next = watch.next
      /\ w.sealed = watch.sealed /\ w.inPlace = watch.inPlace /\ w.after = watch.after
      /\ w.stage = watch.stage /\ w.stageOf = watch.stageOf /\ w.owed = watch.owed
      /\ w.agent = watch.agent /\ w.timer = watch.timer /\ w.deferred = watch.deferred
      /\ w.held = watch.held /\ w.greet = watch.greet /\ w.hold = watch.hold
      /\ w.elicit = watch.elicit
      /\ w.sess = "ACTIVE"
  BY <1>1, <1>4 DEF WatchRecord
<1> HIDE DEF w
<1>7. WatchSound(w) BY <1>1, <1>5, <1>6, WatchLadderSame DEF WatchSound
<1>8. /\ WatchSound(s) /\ s.sess = "ACTIVE" /\ s.agent = w.agent
      /\ s.sealed = w.sealed /\ s.stageOf = w.sealed
  BY <1>6, <1>7, WatchStageSound
<1> HIDE DEF s
<1>9. CASE ~w.elicit \/ ~w.agent
  BY <1>6, <1>9, <1>3, <1>7 DEF ReconnectCompletes, WatchInv, Elicited, Watched
<1>10. CASE ~(~w.elicit \/ ~w.agent) /\ speech = "local"
  BY <1>7, WatchArmSound, <1>3, <1>5, <1>10, <1>6 DEF WatchInv, Watched, Elicited
<1>11. CASE ~(~w.elicit \/ ~w.agent) /\ speech = "none" /\ replay
  <2>1. s.sealed # 0 /\ s.stageOf = s.sealed /\ s.stage # "after" /\ s \in WatchRecord
    BY <1>8, <1>11 DEF Eligible, WatchSound
  <2>2. p = [Replay(s, "after") EXCEPT !.stage = "after"] OBVIOUS
  <2> HIDE DEF p
  <2>5. watch' = Arm(p) /\ w.agent BY <1>3, <1>5, <1>11
  <2> QED BY <1>8, <2>5, WatchArmSound, <2>1, <2>2, WatchReplaySound DEF WatchInv, Watched, Elicited
<1>12. CASE ~(~w.elicit \/ ~w.agent) /\ speech # "local" /\ ~(speech = "none" /\ replay)
  <2>1. r \in WatchRecord /\ Ladder(r) BY <1>7, <1>8 DEF WatchSound
  <2>2. watch' = o BY <1>3, <1>12
  <2> HIDE DEF r
  <2>3. o \in WatchRecord BY <2>1, ZenonT(40) DEF WatchRecord
  <2>4. /\ o.twice = r.twice /\ o.seg = r.seg /\ o.next = r.next
        /\ o.sealed = r.sealed /\ o.inPlace = r.inPlace /\ o.after = r.after
        /\ o.stage = r.stage /\ o.stageOf = r.stageOf
        /\ o.owed = FALSE
    BY <2>1 DEF WatchRecord
  <2> HIDE DEF o
  <2>5. WatchSound(o) BY <2>1, <2>3, <2>4, WatchLadderSame DEF WatchSound
  <2> QED BY <2>2, <2>4, <2>5, WatchDebtFree DEF WatchInv, WatchGood
<1> QED BY <1>9, <1>10, <1>11, <1>12

\* Every step keeps the watch.
LEMMA WatchStep == WatchInv /\ [WatchNext]_watchVars => WatchInv'
<1> SUFFICES ASSUME WatchInv, [WatchNext]_watchVars PROVE WatchInv' OBVIOUS
<1>1. CASE UNCHANGED watchVars
  BY <1>1 DEF watchVars, WatchInv, WatchSound, Ladder, Watched, Elicited
<1>2. CASE SpeechStarts BY <1>2, SpeechStartsSound
<1>3. CASE SpeechIsRouted BY <1>3, SpeechIsRoutedSound
<1>4. CASE SpeechEnds BY <1>4, SpeechEndsSound
<1>5. CASE ModelStarts BY <1>5, ModelStartsSound
<1>6. CASE ModelSpeaks BY <1>6, ModelSpeaksSound
<1>7. CASE ToolCallArrives BY <1>7, ToolCallArrivesSound
<1>8. CASE TurnEnds BY <1>8, TurnEndsSound
<1>9. CASE WatchdogFires BY <1>9, WatchdogFiresSound
<1>10. CASE GreetingStarts BY <1>10, GreetingStartsSound
<1>11. CASE GreetingEnds BY <1>11, GreetingEndsSound
<1>12. CASE HoldReleases BY <1>12, HoldReleasesSound
<1>13. CASE DirectInput BY <1>13, DirectInputSound
<1>14. CASE ModeChanges BY <1>14, ModeChangesSound
<1>15. CASE ConnectionEnds BY <1>15, ConnectionEndsSound
<1>16. CASE ReconnectCompletes BY <1>16, ReconnectCompletesSound
<1>17. CASE ReconnectFails BY <1>17, ReconnectFailsSound
<1>18. CASE HostRecovers BY <1>18, HostRecoversSound
<1>19. CASE ContextReset BY <1>19, ContextResetSound
<1>20. CASE SessionCloses BY <1>20, SessionClosesSound
<1> QED BY <1>1, <1>2, <1>3, <1>4, <1>5, <1>6, <1>7, <1>8, <1>9, <1>10, <1>11, <1>12,
           <1>13, <1>14, <1>15, <1>16, <1>17, <1>18, <1>19, <1>20 DEF WatchNext

\* WatchInv is inductive.
THEOREM WatchInductive == WatchSpec => []WatchInv
<1>1. WatchInit => WatchInv
  BY DEF WatchInit, WatchInv, WatchSound, WatchRecord, Ladder, Watched, Elicited
<1> QED BY <1>1, WatchStep, PTL DEF WatchSpec

\* The replay ladder and the debt, for every bound.
THEOREM OwedWatched == WatchSpec => []OwedIsWatched
<1>1. WatchInv => OwedIsWatched BY DEF WatchInv, WatchSound, Ladder, Watched, OwedIsWatched
<1> QED BY <1>1, WatchInductive, PTL

-----------------------------------------------------------------------------
(* The turns.                                                              *)

\* The fields of the session's record, and a text at the TTS provider.
TalkFields ==
  {"mode", "current", "previous", "owned", "over", "counter", "dispatched", "audible",
   "deferred", "native", "tts", "speech", "vad", "greet", "typed", "player", "model",
   "reply", "born", "phantom", "late", "lost"}

SpokenText == [id : Nat, flushed : BOOLEAN, cancelled : BOOLEAN, of : Nat, spoken : BOOLEAN]

\* The records the invariant reads have the fields it reads.
Framed(t) == DOMAIN t = TalkFields /\ "captured" \in DOMAIN t.native /\ "id" \in DOMAIN t.tts

\* What was cancelled is of an earlier request than the current one.
Told(t) ==
  /\ t.tts.id \in Nat /\ t.speech \in Seq(SpokenText) /\ t.late = FALSE
  /\ \A i \in 1..Len(t.speech) :
       /\ t.speech[i].id <= t.tts.id
       /\ t.speech[i].cancelled => t.speech[i].id < t.tts.id

\* The current turn is the last one born, and whoever captured a turn to finalize it
\* later captured one that had been born.
InOrder(t) ==
  /\ t.counter \in Nat /\ t.over = 1..t.counter /\ t.born \in {t.counter, t.counter + 1}
  /\ t.current = t.born
  /\ t.native.captured \in 0..t.born /\ t.typed.turn \in 0..t.born

\* The inductive invariant.
TurnSound(t) == Framed(t) /\ InOrder(t) /\ Told(t)

\* The turns are the same.
SameTurns(x, y) ==
  /\ Framed(y)
  /\ y.counter = x.counter /\ y.over = x.over /\ y.born = x.born /\ y.current = x.current
  /\ y.typed.turn = x.typed.turn

\* Nothing of what the invariant is about has changed.
Alike(x, y) ==
  /\ SameTurns(x, y) /\ y.native.captured = x.native.captured
  /\ y.tts.id = x.tts.id /\ y.speech = x.speech /\ y.late = x.late

\* What changes nothing of it keeps it.
LEMMA AlikeSound ==
  ASSUME NEW x, NEW y, TurnSound(x), Alike(x, y)
  PROVE  TurnSound(y)
BY DEF TurnSound, Alike, SameTurns, InOrder, Told

\* Two steps that change nothing of it change nothing together.
LEMMA AlikeTwice ==
  ASSUME NEW x, NEW y, NEW z, Alike(x, y), Alike(y, z)
  PROVE  Alike(x, z)
BY DEF Alike, SameTurns

\* Nor does a step that changes nothing at all.
LEMMA AlikeSelf ==
  ASSUME NEW x, Framed(x)
  PROVE  Alike(x, x)
BY DEF Alike, SameTurns

\* The functions that change nothing of it.
LEMMA AlikeGates ==
  ASSUME NEW t, Framed(t)
  PROVE  /\ Alike(t, ClearTtsTimers(t)) /\ Alike(t, ClearGateTimer(t))
         /\ \A kind : Alike(t, ArmGateTimer(t, kind))
         /\ Alike(t, ReleaseGreeting(t)) /\ \A n : Alike(t, GreetingTurnOver(t, n))
         /\ \A n : Alike(t, BindGreeting(t, n))
         /\ Alike(t, NoteAudioStarted(t))
<1>3. ASSUME NEW kind PROVE Alike(t, ArmGateTimer(t, kind))
  BY DEF ArmGateTimer, Alike, SameTurns, Framed, TalkFields
<1>4. Alike(t, ReleaseGreeting(t)) BY DEF ReleaseGreeting, Alike, SameTurns, Framed, TalkFields
<1>5. ASSUME NEW n PROVE Alike(t, GreetingTurnOver(t, n)) BY <1>4, AlikeSelf DEF GreetingTurnOver
<1>6. ASSUME NEW n PROVE Alike(t, BindGreeting(t, n))
  BY DEF BindGreeting, Alike, SameTurns, Framed, TalkFields
<1>7. Alike(t, NoteAudioStarted(t)) BY DEF NoteAudioStarted, Alike, SameTurns, Framed, TalkFields
<1> QED BY <1>3, <1>4, <1>5, <1>6, <1>7 DEF ClearGateTimer, Alike, SameTurns, Framed, TalkFields,
      ClearTtsTimers

\* Nor do those of the model and its transport.
LEMMA AlikeModel ==
  ASSUME NEW t, Framed(t)
  PROVE  /\ \A n, id : Alike(t, Bind(t, n, id))
         /\ Alike(t, CancelResponse(t)) /\ Alike(t, BeginServerTurn(t))
         /\ Alike(t, CloseServerTurn(t)) /\ Alike(t, EndGeneration(t))
         /\ \A phase : Alike(t, Phase(t, phase))
         /\ Alike(t, NextReply(t)) /\ Alike(t, Piece(t))
<1>1. ASSUME NEW n, NEW id PROVE Alike(t, Bind(t, n, id))
  BY DEF Bind, Alike, SameTurns, Framed, TalkFields
<1>2. Alike(t, CancelResponse(t)) BY DEF CancelResponse, Alike, SameTurns, Framed, TalkFields
<1>3. Alike(t, BeginServerTurn(t)) BY DEF BeginServerTurn, Alike, SameTurns, Framed, TalkFields
<1>4. Alike(t, CloseServerTurn(t)) BY DEF CloseServerTurn, Alike, SameTurns, Framed, TalkFields
<1>5. Alike(t, EndGeneration(t)) BY DEF EndGeneration, Alike, SameTurns, Framed, TalkFields
<1>6. ASSUME NEW phase PROVE Alike(t, Phase(t, phase))
  BY DEF Phase, Alike, SameTurns, Framed, TalkFields
<1>7. Alike(t, NextReply(t)) BY DEF NextReply, Alike, SameTurns, Framed, TalkFields
<1>8. Alike(t, Piece(t)) BY DEF Piece, Alike, SameTurns, Framed, TalkFields
<1> QED BY <1>1, <1>2, <1>3, <1>4, <1>5, <1>6, <1>7, <1>8

\* A turn is born only when none is open.
LEMMA EnsureSound ==
  ASSUME NEW t, TurnSound(t), NEW id
  PROVE  TurnSound(EnsureCurrent(t, id))
<1> DEFINE b == t.born + 1
           y == [t EXCEPT !.previous = t.current, !.current = b, !.born = @ + 1]
<1>1. Framed(t) BY DEF TurnSound
<1>2. CASE ActiveTurn(t) # 0 BY <1>1, <1>2, AlikeModel, AlikeSound DEF EnsureCurrent
<1>3. CASE ActiveTurn(t) = 0 /\ Trailing(t, id) BY <1>3 DEF EnsureCurrent
<1>4. CASE ActiveTurn(t) = 0 /\ ~Trailing(t, id)
  <2>1. EnsureCurrent(t, id) = Bind(y, b, id) BY <1>4 DEF EnsureCurrent
  <2>2. t.counter \in Nat /\ t.over = 1..t.counter /\ t.born \in {t.counter, t.counter + 1}
        /\ t.current = t.born /\ t.born \in Nat
    BY DEF TurnSound, InOrder
  <2>3. t.born = t.counter BY <1>4, <2>2 DEF ActiveTurn
  <2>4. /\ Framed(y) /\ y.counter = t.counter /\ y.over = t.over /\ y.born = t.counter + 1
        /\ y.current = t.counter + 1
        /\ y.native = t.native /\ y.typed = t.typed /\ y.tts = t.tts /\ y.speech = t.speech
        /\ y.late = t.late
    BY <1>1, <2>2, <2>3 DEF Framed, TalkFields
  <2> HIDE DEF y
  <2>7. TurnSound(y) BY <2>4, <2>3, <2>2 DEF TurnSound, InOrder, Told
  <2> QED BY <2>1, <2>4, <2>7, AlikeModel, AlikeSound
<1> QED BY <1>2, <1>3, <1>4

\* The texts of a provider, with one field of each changed.
LEMMA TextsMarked ==
  ASSUME NEW q \in Seq(SpokenText), NEW r, DOMAIN r = DOMAIN q,
         r = [i \in DOMAIN q |-> r[i]],
         \A i \in 1..Len(q) : r[i] \in SpokenText
  PROVE  r \in Seq(SpokenText) /\ Len(r) = Len(q)
<1>1. DOMAIN q = 1..Len(q) /\ Len(q) \in Nat OBVIOUS
<1> QED BY <1>1, SeqDef, LenProperties

\* An interrupt cancels every request there is, and the next has another id.
LEMMA CutTold ==
  ASSUME NEW t, Framed(t), Told(t)
  PROVE  LET y == CancelSpeech(ResetForInterrupt(t)) IN
         Told(y) /\ SameTurns(t, y) /\ y.native = t.native
<1> DEFINE r == ResetForInterrupt(t)
           q == [i \in DOMAIN t.speech |-> [t.speech[i] EXCEPT !.cancelled = TRUE]]
           y == CancelSpeech(r)
<1>1. /\ Framed(r) /\ SameTurns(t, r) /\ r.native = t.native
      /\ r.speech = t.speech /\ r.late = t.late /\ r.tts.id = t.tts.id + 1
  <2> DEFINE p == [t EXCEPT !.deferred = FALSE, !.tts.speaking = FALSE, !.tts.llmDone = FALSE,
                            !.tts.audioDone = FALSE, !.tts.hasText = FALSE, !.tts.id = @ + 1]
  <2>1. /\ Framed(p) /\ SameTurns(t, p) /\ p.native = t.native
        /\ p.speech = t.speech /\ p.late = t.late /\ p.tts.id = t.tts.id + 1
    BY DEF Framed, TalkFields, SameTurns
  <2>2. r = ClearTtsTimers(p) BY DEF ResetForInterrupt
  <2> HIDE DEF p, r
  <2> QED BY <2>1, <2>2, AlikeGates DEF Alike, SameTurns, ClearTtsTimers, Framed, TalkFields
<1> HIDE DEF r
<1>2. /\ Framed(y) /\ SameTurns(t, y) /\ y.native = t.native
      /\ y.speech = q /\ y.late = t.late /\ y.tts.id = t.tts.id + 1
  BY <1>1 DEF CancelSpeech, Framed, TalkFields, SameTurns
<1> HIDE DEF y
<1>3. \A i \in 1..Len(t.speech) : q[i] \in SpokenText /\ q[i].id = t.speech[i].id
  <2> SUFFICES ASSUME NEW i \in 1..Len(t.speech) PROVE q[i] \in SpokenText
               /\ q[i].id = t.speech[i].id
    OBVIOUS
  <2>1. t.speech[i] \in SpokenText /\ i \in DOMAIN t.speech BY DEF Told
  <2> QED BY <2>1 DEF SpokenText
<1>4. q \in Seq(SpokenText) /\ Len(q) = Len(t.speech)
  <2>1. DOMAIN q = DOMAIN t.speech /\ q = [i \in DOMAIN t.speech |-> q[i]] OBVIOUS
  <2> HIDE DEF q
  <2> QED BY <1>3, <2>1, TextsMarked DEF Told
<1> HIDE DEF q
<1>5. \A i \in 1..Len(q) : q[i].id < t.tts.id + 1 /\ q[i].id <= t.tts.id + 1
  <2> SUFFICES ASSUME NEW i \in 1..Len(t.speech)
               PROVE  t.speech[i].id < t.tts.id + 1 /\ t.speech[i].id <= t.tts.id + 1
    BY <1>3, <1>4
  <2> DEFINE d == t.speech[i].id
             e == t.tts.id
  <2>1. d \in Nat /\ e \in Nat /\ d <= e
    <3>1. t.speech[i] \in SpokenText BY DEF Told
    <3> QED BY <3>1 DEF Told, SpokenText
  <2> HIDE DEF d, e
  <2>2. d < e + 1 /\ d <= e + 1 BY <2>1
  <2> QED BY <2>2 DEF d, e
<1>6. Told(y) BY <1>2, <1>4, <1>5 DEF Told
<1> QED BY <1>2, <1>6 DEF y, r

\* A turn that was born and is not over is the last; then it is over.
LEMMA FinalizeSound ==
  ASSUME NEW t, TurnSound(t), NEW n \in 0..t.born, NEW interrupted
  PROVE  TurnSound(FinalizeTurn(t, n, interrupted))
<1> DEFINE e == [t EXCEPT !.over = @ \cup {n}, !.audible = FALSE]
           a == GreetingTurnOver(e, n)
           b == IF t.mode.gated THEN ClearNative(a) ELSE a
           c == IF interrupted /\ t.mode.tts THEN CancelSpeech(ResetForInterrupt(b)) ELSE b
           y == [c EXCEPT !.counter = @ + 1]
<1>1. CASE n = 0 \/ n \in t.over BY <1>1 DEF FinalizeTurn
<1>2. CASE ~(n = 0 \/ n \in t.over)
  <2>1. FinalizeTurn(t, n, interrupted) = y BY <1>2 DEF FinalizeTurn
  <2>2. Framed(t) /\ InOrder(t) /\ Told(t) BY DEF TurnSound
  <2>3. /\ t.counter \in Nat /\ t.born = t.counter + 1 /\ t.current = t.born
        /\ t.over \cup {n} = 1..(t.counter + 1)
        /\ t.native.captured \in 0..(t.counter + 1) /\ t.typed.turn \in 0..(t.counter + 1)
    <3> QED BY <1>2, <2>2 DEF InOrder
  <2>4. /\ Framed(e) /\ e.counter = t.counter /\ e.over = t.over \cup {n} /\ e.born = t.born
        /\ e.current = t.current
        /\ e.native = t.native /\ e.typed = t.typed /\ e.tts = t.tts /\ e.speech = t.speech
        /\ e.late = t.late
    BY <2>2 DEF Framed, TalkFields
  <2>5. Told(e) BY <2>2, <2>4 DEF Told
  <2> HIDE DEF e
  <2>6. Alike(e, a) BY <2>4, AlikeGates
  <2>7. Framed(a) /\ Told(a) BY <2>5, <2>6 DEF Alike, SameTurns, Told
  <2> HIDE DEF a
  <2>8. Framed(b) /\ Told(b) /\ SameTurns(a, b) /\ b.native.captured \in {0, a.native.captured}
    <3>1. CASE t.mode.gated
      <4>1. b = ClearNative(a) /\ DOMAIN a = TalkFields /\ "captured" \in DOMAIN a.native
        BY <2>7, <3>1 DEF Framed
      <4>2. /\ DOMAIN b = TalkFields /\ b.tts = a.tts /\ b.speech = a.speech /\ b.late = a.late
            /\ b.counter = a.counter /\ b.over = a.over /\ b.born = a.born
            /\ b.current = a.current /\ b.typed = a.typed
        BY <4>1 DEF ClearNative, TalkFields
      <4>4. b.native = [a.native EXCEPT !.id = @ + 1, !.pending = FALSE, !.captured = 0,
                                        !.audio = FALSE, !.timer = "none"]
        BY <4>1 DEF ClearNative, TalkFields
      <4>3. "captured" \in DOMAIN b.native /\ b.native.captured = 0 BY <4>1, <4>4
      <4> HIDE DEF b
      <4> QED BY <2>7, <4>2, <4>3 DEF Framed, Told, SameTurns
    <3>2. CASE ~t.mode.gated BY <2>7, <3>2 DEF SameTurns
    <3> QED BY <3>1, <3>2
  <2> HIDE DEF b
  <2>9. Framed(c) /\ Told(c) /\ SameTurns(b, c) /\ c.native = b.native
    <3>1. CASE interrupted /\ t.mode.tts BY <2>8, <3>1, CutTold DEF SameTurns
    <3>2. CASE ~(interrupted /\ t.mode.tts) BY <2>8, <3>2 DEF SameTurns
    <3> QED BY <3>1, <3>2
  <2> HIDE DEF c
  <2>10. /\ c.counter = t.counter /\ c.over = 1..(t.counter + 1) /\ c.born = t.counter + 1
         /\ c.current = t.counter + 1
         /\ c.typed.turn \in 0..(t.counter + 1) /\ c.native.captured \in 0..(t.counter + 1)
    BY <2>4, <2>6, <2>8, <2>9, <2>3 DEF Alike, SameTurns
  <2>11. /\ Framed(y) /\ y.counter = t.counter + 1 /\ y.over = c.over /\ y.born = c.born
         /\ y.current = c.current /\ y.native = c.native /\ y.typed = c.typed /\ y.tts = c.tts
         /\ y.speech = c.speech /\ y.late = c.late
    BY <2>9, <2>10 DEF Framed, TalkFields
  <2> HIDE DEF y
  <2>12. InOrder(y) BY <2>3, <2>10, <2>11 DEF InOrder
  <2>13. Told(y) BY <2>9, <2>11 DEF Told
  <2> QED BY <2>1, <2>11, <2>12, <2>13 DEF TurnSound
<1> QED BY <1>1, <1>2

\* To finalize the current turn, or the captured one, whether interrupted or not.
LEMMA FinalizeHeld ==
  ASSUME NEW t, TurnSound(t)
  PROVE  /\ TurnSound(FinalizeTurn(t, t.current, TRUE))
         /\ TurnSound(FinalizeTurn(t, t.current, FALSE))
         /\ TurnSound(FinalizeTurn(t, t.native.captured, TRUE))
         /\ TurnSound(FinalizeTurn(t, t.native.captured, FALSE))
<1>1. t.current \in 0..t.born /\ t.native.captured \in 0..t.born BY DEF TurnSound, InOrder
<1> QED BY <1>1, FinalizeSound

\* The TTS gate completes the current turn.
LEMMA MaybeCompleteSound ==
  ASSUME NEW t, TurnSound(t)
  PROVE  TurnSound(MaybeComplete(t))
<1> DEFINE a == [t EXCEPT !.tts.llmDone = FALSE, !.tts.audioDone = FALSE, !.tts.hasText = FALSE]
           b == ClearTtsTimers(a)
<1>1. CASE ~(t.tts.llmDone /\ t.tts.audioDone) BY <1>1 DEF MaybeComplete
<1>2. CASE t.tts.llmDone /\ t.tts.audioDone
  <2>1. MaybeComplete(t) = FinalizeTurn(b, t.current, FALSE) BY <1>2 DEF MaybeComplete
  <2>2. Alike(t, a) BY DEF TurnSound, Alike, SameTurns, Framed, TalkFields
  <2> HIDE DEF a
  <2>3. Alike(t, b) BY <2>2, AlikeGates, AlikeTwice DEF Alike, SameTurns
  <2> HIDE DEF b
  <2> QED BY <2>1, FinalizeHeld, <2>3, AlikeSound DEF Alike, SameTurns
<1> QED BY <1>1, <1>2

\* A gate's completion is of the current turn or of the captured one.
LEMMA CompletePlaybackSound ==
  ASSUME NEW t, TurnSound(t)
  PROVE  TurnSound(CompletePlayback(t)) /\ TurnSound(CompleteAudio(t))
<1> DEFINE a == [t EXCEPT !.tts.audioDone = TRUE, !.tts.speaking = FALSE]
<1>1. Alike(t, a) BY DEF TurnSound, Alike, SameTurns, Framed, TalkFields
<1>2. CompleteAudio(t) = MaybeComplete(a) BY DEF CompleteAudio
<1> HIDE DEF a
<1>3. TurnSound(CompleteAudio(t)) BY <1>1, <1>2, AlikeSound, MaybeCompleteSound
<1> QED BY <1>3, FinalizeHeld DEF CompletePlayback

\* To defer a completion, to force it or to resolve it.
LEMMA FinishOrDeferSound ==
  ASSUME NEW t, TurnSound(t)
  PROVE  /\ TurnSound(FinishOrDeferForVad(t)) /\ TurnSound(ForceCompleteAfterVadDefer(t))
         /\ TurnSound(ResolveDeferredPlayback(t))
<1> DEFINE c == ClearGateTimer(t)
           d == [c EXCEPT !.deferred = TRUE]
           f == [t EXCEPT !.deferred = FALSE, !.vad = NoSegment]
           g == [t EXCEPT !.deferred = FALSE]
<1>1. Alike(t, c) /\ TurnSound(c) BY AlikeGates, AlikeSound DEF TurnSound
<1>2. /\ FinishOrDeferForVad(t) = IF t.vad.active /\ t.vad.eligible
                                 THEN ArmGateTimer(d, "defer") ELSE CompletePlayback(c)
      /\ ForceCompleteAfterVadDefer(t) = CompletePlayback(f)
      /\ ResolveDeferredPlayback(t) = IF t.deferred /\ GatePending(t)
                                      THEN CompletePlayback(ClearGateTimer(g)) ELSE t
  BY DEF FinishOrDeferForVad, ForceCompleteAfterVadDefer, ResolveDeferredPlayback
<1>3. Alike(t, f) /\ Alike(t, g) BY DEF TurnSound, Alike, SameTurns, Framed, TalkFields
<1> HIDE DEF c
<1>4. Alike(c, d) BY <1>1 DEF TurnSound, Alike, SameTurns, Framed, TalkFields
<1> HIDE DEF d, f, g
<1> QED BY <1>1, <1>2, CompletePlaybackSound, AlikeGates, AlikeSound, <1>3, <1>4 DEF TurnSound

\* The turn a signal resolves to.
LEMMA ResolvedSound ==
  ASSUME NEW t, TurnSound(t), NEW id
  PROVE  LET found == Resolve(t, id)
             a == IF found = New THEN EnsureCurrent(t, id)
                  ELSE IF found = t.current THEN Bind(t, found, id) ELSE t
         IN TurnSound(a)
BY EnsureSound, AlikeModel, AlikeSound DEF TurnSound

\* A turn that ends by the TTS pipeline.
LEMMA CompleteByTtsSound ==
  ASSUME NEW t, TurnSound(t)
  PROVE  TurnSound(CompleteByTts(t))
<1> DEFINE a == [t EXCEPT !.tts.llmDone = TRUE, !.tts.audioDone = @ \/ ~t.tts.hasText,
                          !.tts.hard = @ \/ t.tts.hasText]
<1>1. Alike(t, a) BY DEF TurnSound, Alike, SameTurns, Framed, TalkFields
<1>2. CompleteByTts(t) = MaybeComplete(a) BY DEF CompleteByTts
<1> HIDE DEF a
<1> QED BY <1>1, <1>2, AlikeSound, MaybeCompleteSound

\* The native gate captures the current turn.
LEMMA ArmNativeSound ==
  ASSUME NEW t, TurnSound(t)
  PROVE  TurnSound(ArmNative(t, t.current))
<1> DEFINE y == ArmNative(t, t.current)
<1>1. /\ SameTurns(t, y) /\ y.native.captured = t.current
      /\ y.tts = t.tts /\ y.speech = t.speech /\ y.late = t.late
  BY DEF TurnSound, ArmNative, SameTurns, Framed, TalkFields
<1> HIDE DEF y
<1>4. Told(y) BY <1>1 DEF TurnSound, Told
<1> QED BY <1>1, <1>4 DEF TurnSound, SameTurns, y, InOrder

\* A completion finalizes the current turn only.
LEMMA HandleTurnCompleteSound ==
  ASSUME NEW t, TurnSound(t), NEW id
  PROVE  TurnSound(HandleTurnComplete(t, id))
<1> DEFINE found == Resolve(t, id)
           a == IF found = New THEN EnsureCurrent(t, id)
                ELSE IF found = t.current THEN Bind(t, found, id) ELSE t
           turn == IF found = New THEN a.current ELSE found
<1>1. TurnSound(a) BY ResolvedSound
<1>2. HandleTurnComplete(t, id) =
        IF found = Stale \/ turn \in a.over \/ turn # a.current THEN a
        ELSE IF t.mode.tts THEN CompleteByTts(a)
        ELSE IF t.mode.gated /\ a.native.audio /\ ~a.dispatched THEN ArmNative(a, turn)
        ELSE FinalizeTurn(a, turn, FALSE)
  BY DEF HandleTurnComplete
<1> HIDE DEF a, turn
<1> QED BY <1>1, <1>2, CompleteByTtsSound, ArmNativeSound, FinalizeHeld

\* So does an interrupt.
LEMMA HandleInterruptedSound ==
  ASSUME NEW t, TurnSound(t), NEW id
  PROVE  TurnSound(HandleInterrupted(t, id))
<1> DEFINE found == Resolve(t, id)
           a == IF found = New THEN EnsureCurrent(t, id)
                ELSE IF found = t.current THEN Bind(t, found, id) ELSE t
           turn == IF found = New THEN a.current ELSE found
<1>1. TurnSound(a) BY ResolvedSound
<1>2. HandleInterrupted(t, id) =
        IF found = Stale \/ turn # a.current THEN a ELSE FinalizeTurn(a, turn, TRUE)
  BY DEF HandleInterrupted
<1> HIDE DEF a, turn
<1> QED BY <1>1, <1>2, FinalizeHeld

-----------------------------------------------------------------------------
(* The user's speech and typing.                                           *)

\* The end of a segment of speech.
LEMMA EndSegmentSound ==
  ASSUME NEW t, TurnSound(t)
  PROVE  TurnSound(EndSegment(t)) /\ TurnSound(Recognized(t))
<1> DEFINE b == [t EXCEPT !.vad = NoSegment]
           a == ResolveDeferredPlayback(b)
           y == [a EXCEPT !.greet.bindable = FALSE]
<1>1. Alike(t, b) BY DEF TurnSound, Alike, SameTurns, Framed, TalkFields
<1>2. EndSegment(t) = IF t.vad.long /\ t.vad.routed THEN y ELSE a BY DEF EndSegment
<1> HIDE DEF b
<1>3. TurnSound(a) BY <1>1, AlikeSound, FinishOrDeferSound
<1> HIDE DEF a
<1>4. Alike(a, y) BY <1>3 DEF TurnSound, Alike, SameTurns, Framed, TalkFields
<1> HIDE DEF y
<1>5. TurnSound(EndSegment(t)) BY <1>2, <1>3, <1>4, AlikeSound
<1> QED BY <1>5 DEF Recognized

\* A cancelled response leaves the turns alone.
LEMMA CancelledSound ==
  ASSUME NEW t, TurnSound(t)
  PROVE  LET c == CancelResponse(t) IN
         TurnSound(c) /\ c.current = t.current /\ c.native.captured = t.native.captured
BY AlikeModel, AlikeSound DEF TurnSound, Alike, SameTurns

\* A barge-in finalizes the captured turn, or the current one.
LEMMA BargeInSound ==
  ASSUME NEW t, TurnSound(t)
  PROVE  TurnSound(BargeIn(t))
<1> DEFINE c == CancelResponse(t)
<1>1. TurnSound(c) /\ c.current = t.current /\ c.native.captured = t.native.captured
  BY CancelledSound
<1>2. BargeIn(t) = FinalizeTurn(c, IF t.native.captured # 0 THEN t.native.captured ELSE t.current,
      TRUE)
  BY DEF BargeIn
<1> HIDE DEF c
<1> QED BY <1>1, <1>2, FinalizeHeld

\* A voiced frame may barge in.
LEMMA VoicedFrameSound ==
  ASSUME NEW t, TurnSound(t), NEW loud, NEW sustained
  PROVE  TurnSound(VoicedFrame(t, loud, sustained))
<1> DEFINE a == IF t.vad.active THEN [t EXCEPT !.vad.long = t.mode.hush]
                ELSE [t EXCEPT !.vad = [NoSegment EXCEPT !.active = TRUE]]
           b == [a EXCEPT !.vad.eligible = @ \/ loud,
                          !.vad.routed = @ \/ (t.mode.hush /\ ~MicDropped(t))]
           c == [b EXCEPT !.vad.fired = TRUE]
<1>1. Alike(t, a) BY DEF TurnSound, Alike, SameTurns, Framed, TalkFields
<1>2. VoicedFrame(t, loud, sustained) =
        IF /\ AssistantAudioActive(b) /\ ~b.vad.fired /\ loud /\ sustained
           /\ RequestInterrupt(b)
        THEN BargeIn(c) ELSE b
  BY DEF VoicedFrame
<1> HIDE DEF a
<1>3. Alike(a, b) BY <1>1 DEF Alike, SameTurns, Framed, TalkFields
<1> HIDE DEF b
<1>4. Alike(b, c) BY <1>3 DEF Alike, SameTurns, Framed, TalkFields
<1> HIDE DEF c
<1>5. TurnSound(b) /\ TurnSound(c) BY <1>1, <1>3, <1>4, AlikeSound
<1>6. TurnSound(BargeIn(c)) BY <1>5, BargeInSound
<1> QED BY <1>2, <1>5, <1>6

\* So may a start of speech that the model detects.
LEMMA SpeechStartedSound ==
  ASSUME NEW t, TurnSound(t)
  PROVE  TurnSound(OnSpeechStarted(t))
<1> DEFINE c == CancelResponse(t)
<1>1. TurnSound(c) /\ c.current = t.current /\ c.native.captured = t.native.captured
  BY CancelledSound
<1>2. /\ TurnSound(FinalizeTurn(t, t.current, TRUE))
      /\ TurnSound(FinalizeTurn(t, t.native.captured, TRUE))
      /\ TurnSound(FinalizeTurn(c, c.current, TRUE))
      /\ TurnSound(FinalizeTurn(c, c.native.captured, TRUE))
  BY <1>1, FinalizeHeld
<1>3. NativeSpeechStarted(t) \in {t, FinalizeTurn(t, t.native.captured, TRUE),
        FinalizeTurn(c, t.native.captured, TRUE), FinalizeTurn(c, t.current, TRUE)}
  BY DEF NativeSpeechStarted
<1>4. TtsSpeechStarted(t) \in {t, FinalizeTurn(c, t.current, TRUE),
      FinalizeTurn(t, t.current, TRUE)}
  BY DEF TtsSpeechStarted
<1> HIDE DEF c
<1> QED BY <1>1, <1>2, <1>3, <1>4 DEF OnSpeechStarted

\* Typed input ends the turn that it found, or the captured one.
LEMMA FinishTypedSound ==
  ASSUME NEW t, TurnSound(t), NEW n \in 0..t.born
  PROVE  TurnSound(FinishTyped(t, n))
<1> DEFINE a == [t EXCEPT !.typed = [waits |-> FALSE, turn |-> 0]]
<1>1. /\ Framed(a) /\ a.counter = t.counter /\ a.over = t.over /\ a.born = t.born
      /\ a.current = t.current /\ a.typed.turn = 0 /\ a.native = t.native
      /\ a.tts = t.tts /\ a.speech = t.speech /\ a.late = t.late
  BY DEF TurnSound, Framed, TalkFields
<1>2. FinishTyped(t, n) = IF n # 0 /\ n \notin a.over THEN FinalizeTurn(a, n, TRUE)
                          ELSE IF a.native.pending THEN FinalizeTurn(a, a.native.captured,
                            TRUE) ELSE a
  BY DEF FinishTyped
<1> HIDE DEF a
<1>4. Told(a) BY <1>1 DEF TurnSound, Told
<1>5. TurnSound(a) BY <1>1, <1>4 DEF TurnSound, InOrder
<1>6. TurnSound(FinalizeTurn(a, n, TRUE)) /\ TurnSound(FinalizeTurn(a, a.native.captured, TRUE))
  BY <1>1, <1>5, FinalizeSound, FinalizeHeld
<1> QED BY <1>2, <1>5, <1>6

\* Typed input that waited for its cancel found a turn that had been born.
LEMMA ResumeTypedSound ==
  ASSUME NEW t, TurnSound(t)
  PROVE  TurnSound(ResumeTyped(t))
<1> QED BY FinishTypedSound DEF ResumeTyped, TurnSound, InOrder

\* Typed input remembers the current turn, or ends it.
LEMMA HandleTextInputSound ==
  ASSUME NEW t, TurnSound(t)
  PROVE  TurnSound(HandleTextInput(t))
<1> DEFINE r == ReleaseGreeting(t)
           a == CancelResponse(r)
           y == [a EXCEPT !.typed = [waits |-> TRUE, turn |-> t.current]]
<1>1. Alike(t, r) BY AlikeGates DEF TurnSound
<1>2. HandleTextInput(t) = IF ~t.mode.ids
      /\ t.reply.phase # "idle" THEN y ELSE FinishTyped(a, t.current)
  BY DEF HandleTextInput
<1> HIDE DEF r
<1>3. Alike(t, a) BY <1>1, AlikeModel, AlikeTwice DEF Alike, SameTurns
<1> HIDE DEF a
<1>4. TurnSound(a) /\ a.born = t.born /\ a.current = t.current
  BY <1>3, AlikeSound DEF Alike, SameTurns
<1>5. t.current \in 0..a.born BY <1>4 DEF TurnSound, InOrder
<1>6. /\ Framed(y) /\ y.counter = a.counter /\ y.over = a.over /\ y.born = a.born
      /\ y.current = a.current /\ y.typed.turn = t.current /\ y.native = a.native
      /\ y.tts = a.tts /\ y.speech = a.speech /\ y.late = a.late
  BY <1>4 DEF TurnSound, Framed, TalkFields
<1> HIDE DEF y
<1>9. TurnSound(y) BY <1>6, <1>4, <1>5 DEF TurnSound, InOrder, Told
<1> QED BY <1>2, <1>4, <1>5, <1>9, FinishTypedSound

\* A text is synthesized under the current request.
LEMMA SynthesizeSound ==
  ASSUME NEW t, TurnSound(t), NEW of \in Nat
  PROVE  TurnSound(Synthesize(t, of))
<1> DEFINE text == [id |-> t.tts.id, flushed |-> FALSE, cancelled |-> FALSE, of |-> of,
           spoken |-> FALSE]
           q == Append(t.speech, text)
           y == [t EXCEPT !.speech = q]
<1>1. Synthesize(t, of) \in {t, y} BY DEF Synthesize
<1>2. SameTurns(t, y) /\ y.native = t.native /\ y.tts = t.tts /\ y.speech = q /\ y.late = t.late
  BY DEF TurnSound, SameTurns, Framed, TalkFields
<1> HIDE DEF y
<1>3. t.speech \in Seq(SpokenText) /\ text \in SpokenText /\ text.id = t.tts.id /\ ~text.cancelled
  BY DEF TurnSound, Told, SpokenText
<1> HIDE DEF text
<1>4. /\ q \in Seq(SpokenText)
      /\ \A i \in 1..Len(q) : q[i] = text \/ \E k \in 1..Len(t.speech) : q[i] = t.speech[k]
  <2>1. Len(t.speech) \in Nat /\ Len(q) = Len(t.speech) + 1 /\ q \in Seq(SpokenText) BY <1>3
  <2>2. \A i \in 1..(Len(t.speech) + 1) : q[i] = IF i <= Len(t.speech) THEN t.speech[i] ELSE text
    BY <1>3
  <2> HIDE DEF q
  <2>3. ASSUME NEW i \in 1..Len(q) PROVE q[i] = text
               \/ \E k \in 1..Len(t.speech) : q[i] = t.speech[k]
    BY <2>1, <2>2
  <2> QED BY <2>1, <2>3
<1> HIDE DEF q
<1>6. Told(y) BY <1>2, <1>4, <1>3 DEF TurnSound, Told
<1> QED BY <1>1, <1>2, <1>6 DEF TurnSound, SameTurns, InOrder

\* The first text of a turn is a new request.
LEMMA NextRequestSound ==
  ASSUME NEW t, TurnSound(t), NEW y, SameTurns(t, y), y.native = t.native,
         y.tts.id = t.tts.id + 1, y.speech = t.speech, y.late = t.late
  PROVE  TurnSound(y)
<1>1. InOrder(y) BY DEF TurnSound, InOrder, SameTurns
<1>2. \A i \in 1..Len(t.speech) :
        t.speech[i].id <= t.tts.id + 1 /\ (t.speech[i].cancelled => t.speech[i].id < t.tts.id + 1)
  <2> SUFFICES ASSUME NEW i \in 1..Len(t.speech)
               PROVE  t.speech[i].id <= t.tts.id + 1 /\ t.speech[i].id < t.tts.id + 1
    OBVIOUS
  <2> DEFINE d == t.speech[i].id
             e == t.tts.id
  <2>1. d \in Nat /\ e \in Nat /\ d <= e
    <3>1. t.speech[i] \in SpokenText BY DEF TurnSound, Told
    <3> QED BY <3>1 DEF TurnSound, Told, SpokenText
  <2> HIDE DEF d, e
  <2>2. d <= e + 1 /\ d < e + 1 BY <2>1
  <2> QED BY <2>2 DEF d, e
<1>4. Told(y) BY <1>2 DEF TurnSound, Told
<1> QED BY <1>1, <1>4 DEF TurnSound, SameTurns

\* A text opens a turn, a request or neither.
LEMMA OnTextOutputSound ==
  ASSUME NEW t, TurnSound(t)
  PROVE  TurnSound(OnTextOutput(t))
<1> DEFINE a == Ensure(t)
           n == [a EXCEPT !.deferred = FALSE, !.tts.id = @ + 1, !.tts.hasText = TRUE,
                          !.tts.audio = FALSE]
           b == IF a.tts.hasText THEN a ELSE n
           s == Synthesize(b, b.current)
           y == [s EXCEPT !.phantom = @ \/ (~t.mode.ids /\ t.reply.phase = "cancelled")]
<1>1. TurnSound(a) BY EnsureSound DEF Ensure
<1>2. OnTextOutput(t) = y BY DEF OnTextOutput
<1> HIDE DEF a
<1>3. /\ SameTurns(a, n) /\ n.native = a.native /\ n.tts.id = a.tts.id + 1
      /\ n.speech = a.speech /\ n.late = a.late
  BY <1>1 DEF TurnSound, SameTurns, Framed, TalkFields
<1> HIDE DEF n
<1>4. TurnSound(b) BY <1>1, <1>3, NextRequestSound
<1> HIDE DEF b
<1>5. b.current \in Nat BY <1>4 DEF TurnSound, InOrder
<1>6. TurnSound(s) BY <1>4, <1>5, SynthesizeSound
<1> HIDE DEF s
<1>7. Alike(s, y) BY <1>6 DEF TurnSound, Alike, SameTurns, Framed, TalkFields
<1> QED BY <1>2, <1>6, <1>7, AlikeSound

\* A flush marks the texts of the current request.
LEMMA OnTextDoneSound ==
  ASSUME NEW t, TurnSound(t)
  PROVE  TurnSound(OnTextDone(t))
<1> DEFINE q == [i \in DOMAIN t.speech |-> IF t.speech[i].id = t.tts.id
                                           THEN [t.speech[i] EXCEPT !.flushed = TRUE] ELSE t.speech[i]]
           y == FlushSpeech(t)
<1>1. SameTurns(t, y) /\ y.native = t.native /\ y.tts = t.tts /\ y.speech = q /\ y.late = t.late
  BY DEF TurnSound, FlushSpeech, SameTurns, Framed, TalkFields
<1> HIDE DEF y
<1>2. \A i \in 1..Len(t.speech) :
        q[i] \in SpokenText /\ q[i].id = t.speech[i].id /\ q[i].cancelled = t.speech[i].cancelled
  <2> SUFFICES ASSUME NEW i \in 1..Len(t.speech)
               PROVE  q[i] \in SpokenText /\ q[i].id = t.speech[i].id
                      /\ q[i].cancelled = t.speech[i].cancelled
    OBVIOUS
  <2>1. t.speech[i] \in SpokenText /\ i \in DOMAIN t.speech BY DEF TurnSound, Told
  <2>2. q[i] = IF t.speech[i].id = t.tts.id THEN [t.speech[i] EXCEPT !.flushed = TRUE] ELSE t.speech[i]
    BY <2>1
  <2> HIDE DEF q
  <2> QED BY <2>1, <2>2 DEF SpokenText
<1>3. q \in Seq(SpokenText) /\ Len(q) = Len(t.speech)
  <2>1. DOMAIN q = DOMAIN t.speech /\ q = [i \in DOMAIN t.speech |-> q[i]] OBVIOUS
  <2> HIDE DEF q
  <2> QED BY <1>2, <2>1, TextsMarked DEF TurnSound, Told
<1> HIDE DEF q
<1>4. Told(y) BY <1>1, <1>2, <1>3 DEF TurnSound, Told
<1>6. TurnSound(y) BY <1>1, <1>4 DEF TurnSound, SameTurns, InOrder
<1> QED BY <1>6 DEF OnTextDone, y

\* Audio of the model opens a turn.
LEMMA HandleAudioOutputSound ==
  ASSUME NEW t, TurnSound(t)
  PROVE  TurnSound(HandleAudioOutput(t))
<1> DEFINE e == Ensure(t)
           d == [e EXCEPT !.audible = ~t.mode.gated]
           a == NoteAudioStarted(d)
           y == [a EXCEPT !.native.id = IF a.native.audio THEN @ ELSE @ + 1,
             !.native.audio = TRUE]
<1>1. TurnSound(e) BY EnsureSound DEF Ensure
<1>2. HandleAudioOutput(t) \in {t, a, y} BY DEF HandleAudioOutput
<1> HIDE DEF e
<1>3. Alike(e, d) BY <1>1 DEF TurnSound, Alike, SameTurns, Framed, TalkFields
<1> HIDE DEF d
<1>4. TurnSound(a) BY <1>1, <1>3, AlikeSound, AlikeGates DEF TurnSound
<1> HIDE DEF a
<1>5. Alike(a, y) BY <1>4 DEF TurnSound, Alike, SameTurns, Framed, TalkFields
<1> HIDE DEF y
<1>6. TurnSound(y) BY <1>4, <1>5, AlikeSound
<1> QED BY <1>2, <1>4, <1>6

\* Output is text or audio.
LEMMA OutputSound ==
  ASSUME NEW t, TurnSound(t)
  PROVE  TurnSound(Output(t))
<1> DEFINE a == [t EXCEPT !.model.emitted = TRUE]
<1>1. Alike(t, a) BY DEF TurnSound, Alike, SameTurns, Framed, TalkFields
<1>2. Output(t) \in {OnTextOutput(a), t, HandleAudioOutput(t)} BY DEF Output
<1> HIDE DEF a
<1> QED BY <1>1, <1>2, AlikeSound, OnTextOutputSound, HandleAudioOutputSound

\* The start of a response opens a turn and binds the greeting.
LEMMA OnModelTurnStartSound ==
  ASSUME NEW t, TurnSound(t)
  PROVE  TurnSound(OnModelTurnStart(t))
<1> DEFINE b == [t EXCEPT !.dispatched = FALSE, !.audible = FALSE]
           a == Ensure(b)
           turn == IF Trailing(t, ActiveServerTurn(t)) THEN 0 ELSE a.current
           g == BindGreeting(a, turn)
<1>1. Alike(t, b) BY DEF TurnSound, Alike, SameTurns, Framed, TalkFields
<1>2. OnModelTurnStart(t) = Recognized(g) BY DEF OnModelTurnStart
<1> HIDE DEF b
<1>3. TurnSound(a) BY <1>1, AlikeSound, EnsureSound DEF Ensure
<1> HIDE DEF a, turn
<1>4. TurnSound(g) BY <1>3, AlikeGates, AlikeSound DEF TurnSound
<1> QED BY <1>2, <1>4, EndSegmentSound

\* A tool call is remembered.
LEMMA OnToolCallSound ==
  ASSUME NEW t, TurnSound(t)
  PROVE  TurnSound(OnToolCall(t))
<1> DEFINE b == [t EXCEPT !.dispatched = t.mode.gated]
<1>1. Alike(t, b) BY DEF TurnSound, Alike, SameTurns, Framed, TalkFields
<1>2. OnToolCall(t) = Recognized(b) BY DEF OnToolCall
<1> HIDE DEF b
<1> QED BY <1>1, <1>2, AlikeSound, EndSegmentSound

-----------------------------------------------------------------------------
(* Gemini Live.                                                            *)

\* A generation begins a response.
LEMMA BeginGenerationSound ==
  ASSUME NEW t, TurnSound(t), NEW signal
  PROVE  TurnSound(BeginGeneration(t, signal))
<1> DEFINE e == EndGeneration(t)
           b == [e EXCEPT !.model.gen = "active"]
<1>1. Alike(t, e) BY AlikeModel DEF TurnSound
<1>2. BeginGeneration(t, signal) \in {t, OnModelTurnStart(b)} BY DEF BeginGeneration
<1> HIDE DEF e
<1>3. Alike(e, b) BY <1>1 DEF Alike, SameTurns, Framed, TalkFields
<1> HIDE DEF b
<1> QED BY <1>1, <1>2, <1>3, AlikeSound, OnModelTurnStartSound

\* The transport's books of its server turn.
LEMMA BeginServerTurnSound ==
  ASSUME NEW t, TurnSound(t)
  PROVE  TurnSound(BeginServerTurn(t)) /\ TurnSound(EndGeneration(t))
         /\ TurnSound(CloseServerTurn(t))
BY AlikeModel, AlikeSound DEF TurnSound

\* Content of the model.
LEMMA ServerContentSound ==
  ASSUME NEW t, TurnSound(t)
  PROVE  TurnSound(ServerContent(t))
BY BeginServerTurnSound, BeginGenerationSound, OutputSound DEF ServerContent

\* A tool call of the model.
LEMMA ServerToolCallSound ==
  ASSUME NEW t, TurnSound(t)
  PROVE  TurnSound(ServerToolCall(t))
<1> DEFINE a == BeginServerTurn(t)
           b == [a EXCEPT !.model.tool = TRUE]
<1>1. TurnSound(a) BY BeginServerTurnSound
<1>2. ServerToolCall(t) = OnToolCall(BeginGeneration(b, "toolCall")) BY DEF ServerToolCall
<1> HIDE DEF a
<1>3. Alike(a, b) BY <1>1 DEF TurnSound, Alike, SameTurns, Framed, TalkFields
<1> HIDE DEF b
<1> QED BY <1>1, <1>2, <1>3, AlikeSound, BeginGenerationSound, OnToolCallSound

\* The model was interrupted.
LEMMA ServerInterruptedSound ==
  ASSUME NEW t, TurnSound(t)
  PROVE  TurnSound(ServerInterrupted(t))
<1> DEFINE a == BeginServerTurn(t)
           d == [a EXCEPT !.model.windingDown = t.mode.tts \/ @]
           b == EndGeneration(d)
<1>1. TurnSound(a) BY BeginServerTurnSound
<1>2. ServerInterrupted(t) = HandleInterrupted(OnSpeechStarted(b), b.model.turn)
  BY DEF ServerInterrupted
<1> HIDE DEF a
<1>3. Alike(a, d) BY <1>1 DEF TurnSound, Alike, SameTurns, Framed, TalkFields
<1> HIDE DEF d
<1>4. TurnSound(b) BY <1>1, <1>3, AlikeSound, BeginServerTurnSound
<1> HIDE DEF b
<1> QED BY <1>2, <1>4, SpeechStartedSound, HandleInterruptedSound

\* The end of a generation ends a text turn early.
LEMMA ServerGenerationCompleteSound ==
  ASSUME NEW t, TurnSound(t)
  PROVE  TurnSound(ServerGenerationComplete(t))
<1> DEFINE a == EndGeneration(t)
           b == [a EXCEPT !.model.state = "ended_early", !.model.windingDown = TRUE]
<1>1. TurnSound(a) BY BeginServerTurnSound
<1>2. ServerGenerationComplete(t) \in {a, HandleTurnComplete(OnTextDone(b), a.model.turn)}
  BY DEF ServerGenerationComplete
<1> HIDE DEF a
<1>3. Alike(a, b) BY <1>1 DEF TurnSound, Alike, SameTurns, Framed, TalkFields
<1> HIDE DEF b
<1> QED BY <1>1, <1>2, HandleTurnCompleteSound, <1>3, AlikeSound, OnTextDoneSound

\* The end of a server turn, unless it had ended early.
LEMMA ServerTurnCompleteSound ==
  ASSUME NEW t, TurnSound(t)
  PROVE  TurnSound(ServerTurnComplete(t))
<1> DEFINE a == BeginServerTurn(t)
           d == [a EXCEPT !.model.gen = "draining"]
           b == IF a.model.gen = "active" THEN d ELSE a
           c == IF t.mode.tts THEN OnTextDone(b) ELSE b
           e == HandleTurnComplete(c, a.model.turn)
<1>1. TurnSound(a) BY BeginServerTurnSound
<1>2. ServerTurnComplete(t) = CloseServerTurn(IF a.model.state = "ended_early" THEN b ELSE e)
  BY DEF ServerTurnComplete
<1> HIDE DEF a
<1>3. Alike(a, d) BY <1>1 DEF TurnSound, Alike, SameTurns, Framed, TalkFields
<1> HIDE DEF d
<1>4. TurnSound(b) BY <1>1, <1>3, AlikeSound
<1> HIDE DEF b
<1>5. TurnSound(c) BY <1>4, OnTextDoneSound
<1> HIDE DEF c
<1>6. TurnSound(e) BY <1>5, HandleTurnCompleteSound
<1> QED BY <1>2, <1>4, <1>6, BeginServerTurnSound

-----------------------------------------------------------------------------
(* OpenAI Realtime.                                                        *)

\* A response begins.
LEMMA ResponseCreatedSound ==
  ASSUME NEW t, TurnSound(t)
  PROVE  TurnSound(ResponseCreated(t))
<1> DEFINE a == [t EXCEPT !.model.generating = TRUE, !.model.muted = FALSE]
<1>1. Alike(t, a) BY DEF TurnSound, Alike, SameTurns, Framed, TalkFields
<1>2. ResponseCreated(t) = OnModelTurnStart(a) BY DEF ResponseCreated
<1> HIDE DEF a
<1> QED BY <1>1, <1>2, AlikeSound, OnModelTurnStartSound

\* A response ends, or its cancel does.
LEMMA ResponseDoneSound ==
  ASSUME NEW t, TurnSound(t), NEW tool
  PROVE  TurnSound(ResponseDone(t, tool)) /\ TurnSound(ResponseCancelled(t))
<1> DEFINE a == IF tool THEN OnToolCall(t) ELSE t
           b == [a EXCEPT !.model.generating = FALSE]
           c == [t EXCEPT !.model.generating = FALSE]
<1>1. TurnSound(a) BY OnToolCallSound
<1>2. ResponseDone(t, tool) = ResumeTyped(HandleTurnComplete(b, 0))
      /\ ResponseCancelled(t) = ResumeTyped(c)
  BY DEF ResponseDone, ResponseCancelled
<1> HIDE DEF a
<1>3. Alike(a, b) /\ Alike(t, c) BY <1>1 DEF TurnSound, Alike, SameTurns, Framed, TalkFields
<1> HIDE DEF b, c
<1> QED BY <1>1, <1>2, <1>3, AlikeSound, HandleTurnCompleteSound, ResumeTypedSound

\* A provider that does not own the interrupt cancels the response itself.
LEMMA InputSpeechStartedSound ==
  ASSUME NEW t, TurnSound(t)
  PROVE  TurnSound(InputSpeechStarted(t))
<1> DEFINE a == OnSpeechStarted(t)
           b == [a EXCEPT !.model.muted = TRUE, !.model.generating = FALSE,
             !.reply.phase = "cancelled"]
<1>1. TurnSound(a) BY SpeechStartedSound
<1>2. InputSpeechStarted(t) \in {a, HandleInterrupted(b, 0)} BY DEF InputSpeechStarted
<1> HIDE DEF a
<1>3. Alike(a, b) BY <1>1 DEF TurnSound, Alike, SameTurns, Framed, TalkFields
<1> HIDE DEF b
<1> QED BY <1>1, <1>2, <1>3, AlikeSound, HandleInterruptedSound

\* A text that is done or dropped leaves the others as they were.
LEMMA UnsaidSound ==
  ASSUME NEW t, TurnSound(t), NEW i \in DOMAIN t.speech
  PROVE  LET a == Unsaid(t, i) IN
         TurnSound(a) /\ a.tts = t.tts /\ SameTurns(t, a) /\ a.late = t.late
<1> DEFINE s == t.speech
           q == RemoveAt(s, i)
           a == Unsaid(t, i)
<1>1. SameTurns(t, a) /\ a.native = t.native /\ a.tts = t.tts /\ a.speech = q /\ a.late = t.late
  BY DEF TurnSound, Unsaid, SameTurns, Framed, TalkFields
<1> HIDE DEF a
<1>2. s \in Seq(SpokenText) /\ Len(s) \in Nat /\ i \in 1..Len(s) BY DEF TurnSound, Told
<1> HIDE DEF s
<1>3. q = SubSeq(s, 1, i - 1) \o SubSeq(s, i + 1, Len(s)) BY DEF RemoveAt
<1> HIDE DEF q
<1>4. q \in Seq(SpokenText) /\ \A k \in 1..Len(q) : \E j \in 1..Len(s) : q[k] = s[j]
  <2> DEFINE u == SubSeq(s, 1, i - 1)
             v == SubSeq(s, i + 1, Len(s))
  <2>1. u \in Seq(SpokenText) /\ Len(u) = i - 1 /\ \A k \in 1..Len(u) : u[k] = s[k] BY <1>2
  <2>2. /\ v \in Seq(SpokenText) /\ Len(v) = Len(s) - i
        /\ \A k \in 1..Len(v) : v[k] = s[i + k]
    BY <1>2
  <2> HIDE DEF u, v
  <2>3. q = u \o v BY <1>3 DEF u, v
  <2>4. /\ q \in Seq(SpokenText) /\ Len(q) = Len(u) + Len(v)
        /\ \A k \in 1..(Len(u) + Len(v)) : q[k] = IF k <= Len(u) THEN u[k] ELSE v[k - Len(u)]
    BY <2>1, <2>2, <2>3, ConcatProperties
  <2>5. ASSUME NEW k \in 1..Len(q) PROVE \E j \in 1..Len(s) : q[k] = s[j]
    <3>1. CASE k <= Len(u)
      <4>1. k \in 1..(Len(u) + Len(v)) /\ q[k] = u[k] BY <2>4, <2>5, <3>1
      <4>2. Len(s) \in Nat /\ i \in 1..Len(s) /\ Len(u) = i - 1 BY <1>2, <2>1
      <4>3. k \in 1..Len(u) /\ k \in 1..Len(s) BY <4>1, <4>2, <3>1
      <4> QED BY <2>1, <4>1, <4>3
    <3>2. CASE ~(k <= Len(u))
      <4>0. /\ Len(s) \in Nat /\ i \in 1..Len(s) /\ Len(u) = i - 1 /\ Len(v) = Len(s) - i
            /\ Len(q) = Len(u) + Len(v)
        BY <1>2, <2>1, <2>2, <2>4
      <4>1. k \in 1..((i - 1) + (Len(s) - i)) /\ ~(k <= i - 1) BY <2>5, <3>2, <4>0
      <4>2. k - (i - 1) \in 1..(Len(s) - i) /\ i + (k - (i - 1)) \in 1..Len(s) BY <4>0, <4>1
      <4>3. q[k] = v[k - (i - 1)] BY <2>4, <2>5, <3>2, <4>0
      <4> QED BY <2>2, <4>0, <4>2, <4>3
    <3> QED BY <3>1, <3>2
  <2> QED BY <2>4, <2>5
<1>5. Told(a) BY <1>1, <1>4 DEF TurnSound, Told, s
<1> QED BY <1>1, <1>5 DEF TurnSound, SameTurns, a, InOrder

\* What the provider still says of a request is of the current one, uncancelled, or
\* goes unheard.
LEMMA CurrentText ==
  ASSUME NEW t, TurnSound(t), NEW i \in DOMAIN t.speech, t.speech[i].id = t.tts.id
  PROVE  t.speech[i].cancelled = FALSE
<1>1. i \in 1..Len(t.speech) /\ t.speech[i] \in SpokenText /\ t.tts.id \in Nat
  BY DEF TurnSound, Told
<1> QED BY <1>1 DEF TurnSound, Told, SpokenText

\* A chunk of audio.
LEMMA SpeechAudioStep ==
  ASSUME TurnSound(talk), NEW i \in DOMAIN talk.speech, SpeechAudio(i)
  PROVE  TurnSound(talk')
<1> DEFINE text == talk.speech[i]
           u == Unsaid(talk, i)
           w == [talk EXCEPT !.speech[i].spoken = TRUE]
           a == IF text.cancelled THEN u ELSE w
           n == NoteAudioStarted(a)
           y == [n EXCEPT !.tts.speaking = TRUE, !.tts.audio = TRUE, !.late = @ \/ text.cancelled]
<1>1. talk' = IF text.id # a.tts.id THEN a ELSE y BY DEF SpeechAudio
<1>2. TurnSound(w) /\ w.tts = talk.tts /\ w.late = talk.late
  <2> DEFINE q == [talk.speech EXCEPT ![i].spoken = TRUE]
  <2>1. /\ SameTurns(talk, w) /\ w.native = talk.native /\ w.tts = talk.tts /\ w.speech = q
        /\ w.late = talk.late
    BY DEF TurnSound, SameTurns, Framed, TalkFields
  <2> HIDE DEF w
  <2>2. \A k \in 1..Len(talk.speech) :
          q[k] \in SpokenText /\ q[k].id = talk.speech[k].id
            /\ q[k].cancelled = talk.speech[k].cancelled
    <3> SUFFICES ASSUME NEW k \in 1..Len(talk.speech)
                 PROVE  q[k] \in SpokenText /\ q[k].id = talk.speech[k].id
                        /\ q[k].cancelled = talk.speech[k].cancelled
      OBVIOUS
    <3>1. talk.speech[k] \in SpokenText /\ k \in DOMAIN talk.speech BY DEF TurnSound, Told
    <3>2. q[k] = IF k = i THEN [talk.speech[k] EXCEPT !.spoken = TRUE] ELSE talk.speech[k] BY <3>1
    <3> HIDE DEF q
    <3> QED BY <3>1, <3>2 DEF SpokenText
  <2>3. q \in Seq(SpokenText) /\ Len(q) = Len(talk.speech)
    <3>1. DOMAIN q = DOMAIN talk.speech /\ q = [k \in DOMAIN talk.speech |-> q[k]] OBVIOUS
    <3> HIDE DEF q
    <3> QED BY <2>2, <3>1, TextsMarked DEF TurnSound, Told
  <2> HIDE DEF q
  <2> QED BY <2>1, <2>2, <2>3 DEF TurnSound, SameTurns, Told, InOrder
<1>3. TurnSound(u) /\ u.tts = talk.tts /\ u.late = talk.late BY UnsaidSound
<1> HIDE DEF u, w
<1>4. TurnSound(a) /\ a.tts = talk.tts BY <1>2, <1>3
<1>5. CASE text.id # a.tts.id BY <1>1, <1>4, <1>5
<1>6. CASE text.id = a.tts.id
  <2>1. text.cancelled = FALSE BY <1>4, <1>6, CurrentText
  <2> HIDE DEF a, text
  <2>2. Alike(a, n) BY <1>4, AlikeGates DEF TurnSound
  <2> HIDE DEF n
  <2>4. Alike(n, y) BY <2>1, <2>2, <1>4 DEF Alike, SameTurns, Framed, TalkFields, TurnSound, Told
  <2> HIDE DEF y
  <2> QED BY <1>1, <1>4, <1>6, <2>2, <2>4, AlikeSound
<1> QED BY <1>5, <1>6

\* The end of a request.
LEMMA SpeechDoneStep ==
  ASSUME TurnSound(talk), NEW i \in DOMAIN talk.speech, SpeechDone(i)
  PROVE  TurnSound(talk')
<1> DEFINE a == Unsaid(talk, i)
           c == ClearTtsTimers(a)
           b == [c EXCEPT !.late = @ \/ talk.speech[i].cancelled]
           y == [b EXCEPT !.tts.timer = "fallback", !.player = a.tts.id]
<1>1. talk' = IF talk.speech[i].id # a.tts.id THEN a
              ELSE IF ~b.tts.audio THEN CompletePlayback(b) ELSE y
  BY DEF SpeechDone
<1>2. TurnSound(a) /\ a.tts = talk.tts BY UnsaidSound
<1> HIDE DEF a
<1>3. CASE talk.speech[i].id # a.tts.id BY <1>1, <1>2, <1>3
<1>4. CASE talk.speech[i].id = a.tts.id
  <2>1. talk.speech[i].cancelled = FALSE BY <1>2, <1>4, CurrentText
  <2>2. Alike(a, c) BY <1>2, AlikeGates DEF TurnSound
  <2> HIDE DEF c
  <2>4. Alike(c, b) BY <2>1, <2>2, <1>2 DEF Alike, SameTurns, Framed, TalkFields, TurnSound, Told
  <2> HIDE DEF b
  <2>5. Alike(b, y) BY <2>4 DEF Alike, SameTurns, Framed, TalkFields
  <2> HIDE DEF y
  <2> QED BY <1>1, <1>4, CompletePlaybackSound, <1>2, <2>2, <2>4, <2>5, AlikeSound
<1> QED BY <1>3, <1>4

\* A gate's timer rings.
LEMMA RingSound ==
  ASSUME NEW t, TurnSound(t), NEW kind
  PROVE  TurnSound(Ring(t, kind))
BY FinishOrDeferSound DEF Ring

\* The timer the gate holds.
LEMMA PlaybackTimerStep ==
  ASSUME TurnSound(talk), PlaybackTimer
  PROVE  TurnSound(talk')
<1> DEFINE a == IF talk.mode.tts THEN [talk EXCEPT !.tts.timer = "none"]
                ELSE [talk EXCEPT !.native.timer = "none"]
<1>1. Alike(talk, a) BY DEF TurnSound, Alike, SameTurns, Framed, TalkFields
<1>2. talk' \in {a, Ring(a, GateTimer(talk))} BY DEF PlaybackTimer
<1> HIDE DEF a
<1> QED BY <1>1, <1>2, AlikeSound, RingSound

\* A timer that arm() replaced without clearing it.
LEMMA ForgottenTimerStep ==
  ASSUME TurnSound(talk), NEW x, ForgottenTimer(x)
  PROVE  TurnSound(talk')
<1> DEFINE a == [talk EXCEPT !.native.forgotten = (@ \ {x}) \cup Running(talk),
                             !.native.timer = "none"]
<1>1. Alike(talk, a) BY DEF TurnSound, Alike, SameTurns, Framed, TalkFields
<1>2. talk' \in {a, Ring(a, x.kind)} BY DEF ForgottenTimer
<1> HIDE DEF a
<1> QED BY <1>1, <1>2, AlikeSound, RingSound

\* The hard cap retires the request.
LEMMA HardCapStep ==
  ASSUME TurnSound(talk), HardCap
  PROVE  TurnSound(talk')
<1> DEFINE n == [talk EXCEPT !.tts.hard = FALSE, !.tts.audioDone = TRUE,
                             !.tts.speaking = FALSE, !.tts.id = @ + 1,
                             !.deferred = FALSE]
<1>1. talk' = MaybeComplete(n) BY DEF HardCap
<1>2. /\ SameTurns(talk, n) /\ n.native = talk.native /\ n.tts.id = talk.tts.id + 1
      /\ n.speech = talk.speech /\ n.late = talk.late
  BY DEF TurnSound, SameTurns, Framed, TalkFields
<1> HIDE DEF n
<1> QED BY <1>1, <1>2, NextRequestSound, MaybeCompleteSound

\* What the model does.
LEMMA ModelStep ==
  ASSUME TurnSound(talk), ModelActs
  PROVE  TurnSound(talk')
<1>1. CASE ModelBegins
  <2> DEFINE n == NextReply(talk)
  <2>1. TurnSound(n) BY AlikeModel, AlikeSound DEF TurnSound
  <2> QED BY <1>1, <2>1, ResponseCreatedSound DEF ModelBegins
<1>2. CASE ModelSays
  <2> DEFINE p == Piece(talk)
             n == NextReply(talk)
             f == Piece(n)
  <2>1. TurnSound(p) /\ TurnSound(n) BY AlikeModel, AlikeSound DEF TurnSound
  <2>2. TurnSound(f)
    <3> HIDE DEF n
    <3> QED BY <2>1, AlikeModel, AlikeSound DEF TurnSound
  <2>3. talk' \in {ServerContent(p), Output(p), ServerContent(f)} BY <1>2 DEF ModelSays
  <2> HIDE DEF p, f
  <2> QED BY <2>1, <2>2, <2>3, ServerContentSound, OutputSound
<1>3. CASE TextIsDone
  <2> DEFINE p == [talk EXCEPT !.reply.textDone = TRUE]
  <2>1. Alike(talk, p) BY DEF TurnSound, Alike, SameTurns, Framed, TalkFields
  <2>2. talk' = OnTextDone(p) BY <1>3 DEF TextIsDone
  <2> HIDE DEF p
  <2> QED BY <2>1, <2>2, AlikeSound, OnTextDoneSound
<1>4. CASE ModelEnds
  <2> DEFINE p == Phase(talk, "idle")
  <2>1. TurnSound(p) BY AlikeModel, AlikeSound DEF TurnSound
  <2>2. talk' = ServerTurnComplete(p) \/ \E tool \in BOOLEAN : talk' = ResponseDone(p, tool)
    BY <1>4 DEF ModelEnds
  <2> HIDE DEF p
  <2> QED BY <2>1, <2>2, ServerTurnCompleteSound, ResponseDoneSound
<1>5. CASE ModelStaysSilent
  <2> DEFINE n == NextReply(talk)
             p == Phase(n, "idle")
  <2>1. TurnSound(n) BY AlikeModel, AlikeSound DEF TurnSound
  <2>2. talk' = ServerTurnComplete(p) BY <1>5 DEF ModelStaysSilent
  <2> HIDE DEF n
  <2>3. TurnSound(p) BY <2>1, AlikeModel, AlikeSound DEF TurnSound
  <2> QED BY <2>2, <2>3, ServerTurnCompleteSound
<1>6. CASE CancelIsDone
  <2> DEFINE p == Phase(talk, "idle")
  <2>1. TurnSound(p) BY AlikeModel, AlikeSound DEF TurnSound
  <2>2. talk' = ResponseCancelled(p) BY <1>6 DEF CancelIsDone
  <2> HIDE DEF p
  <2> QED BY <2>1, <2>2, ResponseDoneSound
<1>7. CASE ModelCallsTool BY <1>7, ServerToolCallSound DEF ModelCallsTool
<1>8. CASE GenerationEnds
  <2> DEFINE p == Phase(talk, "generated")
  <2>1. TurnSound(p) BY AlikeModel, AlikeSound DEF TurnSound
  <2>2. talk' = ServerGenerationComplete(p) BY <1>8 DEF GenerationEnds
  <2> HIDE DEF p
  <2> QED BY <2>1, <2>2, ServerGenerationCompleteSound
<1>9. CASE ModelInterrupted
  <2> DEFINE p == Phase(talk, "cancelled")
  <2>1. TurnSound(p) BY AlikeModel, AlikeSound DEF TurnSound
  <2>2. talk' = ServerInterrupted(p) BY <1>9 DEF ModelInterrupted
  <2> HIDE DEF p
  <2> QED BY <2>1, <2>2, ServerInterruptedSound
<1>10. CASE ModelHears BY <1>10, SpeechStartedSound, InputSpeechStartedSound DEF ModelHears
<1>11. CASE ConnectionLost
  <2> DEFINE e == EndGeneration(talk)
             d == [e EXCEPT
                    !.model = [@ EXCEPT !.state = "idle", !.gen = "idle", !.windingDown = FALSE,
                                        !.emitted = FALSE, !.tool = FALSE, !.silenced = 0,
                                        !.generating = FALSE, !.muted = FALSE],
                    !.lost = @ \/ ActiveTurn(talk) # 0]
             p == Phase(d, "idle")
  <2>1. TurnSound(e) BY BeginServerTurnSound
  <2>2. talk' = ResumeTyped(p) BY <1>11 DEF ConnectionLost
  <2> HIDE DEF e
  <2>3. Alike(e, d) BY <2>1 DEF TurnSound, Alike, SameTurns, Framed, TalkFields
  <2> HIDE DEF d
  <2>4. TurnSound(p) BY <2>1, <2>3, AlikeSound, AlikeModel DEF TurnSound
  <2> QED BY <2>2, <2>4, ResumeTypedSound
<1> QED BY <1>1, <1>2, <1>3, <1>4, <1>5, <1>6, <1>7, <1>8, <1>9, <1>10, <1>11 DEF ModelActs

\* What the TTS provider does.
LEMMA SpeechStep ==
  ASSUME TurnSound(talk), SpeechGoesOn
  PROVE  TurnSound(talk')
<1>1. PICK i \in DOMAIN talk.speech : SpeechAudio(i) \/ SpeechDone(i) \/ SpeechDropped(i)
  BY DEF SpeechGoesOn
<1>2. CASE SpeechDropped(i) BY <1>2, UnsaidSound DEF SpeechDropped
<1> QED BY <1>1, <1>2, SpeechAudioStep, SpeechDoneStep

\* What the timers do.
LEMMA TimersStep ==
  ASSUME TurnSound(talk), TimersRing
  PROVE  TurnSound(talk')
<1>1. CASE GraceEnds
  BY <1>1, AlikeSound DEF GraceEnds, TurnSound, Alike, SameTurns, Framed, TalkFields
<1>2. CASE NoStartTimeout
  BY AlikeGates, <1>2, AlikeSound DEF TurnSound, Alike, SameTurns, Framed, TalkFields,
      NoStartTimeout
<1>3. CASE WindingDownTimeout
  <2> DEFINE p == Phase(talk, "idle")
  <2>1. TurnSound(p) BY AlikeModel, AlikeSound DEF TurnSound
  <2>2. talk' = CloseServerTurn(p) BY <1>3 DEF WindingDownTimeout
  <2> HIDE DEF p
  <2> QED BY <2>1, <2>2, BeginServerTurnSound
<1>4. CASE TypedTimeout BY <1>4, ResumeTypedSound DEF TypedTimeout
<1> QED BY <1>1, <1>2, <1>3, <1>4, PlaybackTimerStep, HardCapStep,
           ForgottenTimerStep DEF TimersRing

\* What the user and the client do.
LEMMA UserStep ==
  ASSUME TurnSound(talk), UserActs
  PROVE  TurnSound(talk')
<1>1. CASE PlaybackEnded
  <2> DEFINE a == [talk EXCEPT !.player = 0]
  <2>1. Alike(talk, a) BY DEF TurnSound, Alike, SameTurns, Framed, TalkFields
  <2>2. talk' \in {a, FinishOrDeferForVad(a)} BY <1>1 DEF PlaybackEnded
  <2> HIDE DEF a
  <2> QED BY <2>1, <2>2, AlikeSound, FinishOrDeferSound
<1>2. CASE Greet
  <2> DEFINE r == ReleaseGreeting(talk)
  <2>1. Alike(talk, r) BY AlikeGates DEF TurnSound
  <2>2. talk' = [r EXCEPT
                  !.greet.grace = IF @ = "off" THEN "off" ELSE "sent",
                  !.greet.hold = talk.mode.hush, !.greet.live = talk.mode.hush,
                  !.greet.bindable = talk.mode.hush, !.greet.timer = talk.mode.hush]
    BY <1>2 DEF Greet
  <2> HIDE DEF r
  <2>3. Alike(r, talk') BY <2>1, <2>2 DEF Alike, SameTurns, Framed, TalkFields
  <2> QED BY <2>1, <2>3, AlikeSound
<1>3. CASE UserPauses BY <1>3, EndSegmentSound DEF UserPauses
<1>4. CASE UserTypes BY <1>4, HandleTextInputSound DEF UserTypes
<1>5. CASE \E loud, sustained \in BOOLEAN : UserSpeaks(loud, sustained)
  BY <1>5, VoicedFrameSound DEF UserSpeaks
<1> QED BY <1>1, <1>2, <1>3, <1>4, <1>5 DEF UserActs

\* No turn has been born at first.
LEMMA TurnsInitSound ==
  ASSUME TurnsInit
  PROVE  TurnSound(talk)
<1>1. Framed(talk) BY DEF TurnsInit, Framed, TalkFields
<1>2. InOrder(talk) BY DEF TurnsInit, InOrder
<1>3. Told(talk) BY DEF TurnsInit, Told
<1> QED BY <1>1, <1>2, <1>3 DEF TurnSound

\* The invariant is inductive, for any configurations and any number of responses,
\* outputs, segments, signals, greetings and losses (TurnManager, finalizeTurn).
THEOREM TurnsInductive == TurnsSpec => []TurnSound(talk)
<1>1. TurnsInit => TurnSound(talk) BY TurnsInitSound
<1>2. TurnSound(talk) /\ [TurnsNext]_turnsVars => TurnSound(talk)'
  <2> SUFFICES ASSUME TurnSound(talk), [TurnsNext]_turnsVars PROVE TurnSound(talk') OBVIOUS
  <2>1. CASE UNCHANGED turnsVars BY <2>1 DEF turnsVars
  <2> QED BY <2>1, ModelStep, SpeechStep, TimersStep, UserStep DEF TurnsNext
<1> QED BY <1>1, <1>2, PTL DEF TurnsSpec

\* Turns are born and finalized one at a time, each exactly once, whatever order a
\* completion, an interrupt, a gate's timer and the player's answer come in; and cut
\* speech is told from the current request's.
THEOREM TurnsInOrder == TurnsSpec => []TurnsEndInOrder
<1>1. TurnSound(talk) => TurnsEndInOrder BY DEF TurnSound, InOrder, Told, TurnsEndInOrder
<1> QED BY <1>1, TurnsInductive, PTL

-----------------------------------------------------------------------------
(* The user's speech and the shadow transcriber.                            *)

\* The fields of the microphone's record.
MicFields == {"replay", "frames", "active", "seg", "spoken", "quiet", "open", "routed", "cutting",
              "cut", "pre", "kept", "waiting", "mode", "external", "gate", "armed", "heard",
              "dictated", "from", "ends", "owed", "forced", "stale"}

\* The ends of two sequences agree as far as both go.
EndAlike(s, t) == \A k \in Nat : k < Len(s) /\ k < Len(t) => s[Len(s) - k] = t[Len(t) - k]

\* A sequence of frames in order, none after frame b.
Rising(s, b) ==
  /\ s \in Seq(Nat)
  /\ \A i \in 1..Len(s) : s[i] <= b
  /\ \A i, j \in 1..Len(s) : i < j => s[i] < s[j]

\* Numbers, flags and sequences.
MicTyped(m) ==
  /\ DOMAIN m = MicFields
  /\ m.frames \in Nat /\ m.seg \in Nat /\ m.ends \in Nat /\ m.from \in Nat
  /\ m.cut \in Seq(Nat) /\ m.pre \in Seq(Nat) /\ m.heard \in Seq(Nat)
  /\ m.kept.frames \in Seq(Nat) /\ m.kept.seg \in Nat
  /\ m.active \in BOOLEAN /\ m.open \in BOOLEAN
  /\ m.mode \in {"agent", "starting", "transcription", "stopping"}

\* The segments of the ledger, each ended once, and the retainer's.
Segments(m) ==
  /\ m.cutting => m.open
  /\ m.ends = (IF m.open THEN m.seg - 1 ELSE m.seg)
  /\ m.open => m.seg >= 1

\* What is cut and what is kept of a segment ends as what was heard of it.
Retained(m) ==
  /\ (~m.cutting => m.cut = <<>>) /\ EndAlike(m.cut, m.heard)
  /\ m.kept.seg # 0 /\ m.kept.seg = m.seg => ~m.open /\ EndAlike(m.kept.frames, m.heard)
  /\ m.kept.seg <= m.seg

\* The watchdog waits for a reply that is owed, or that ended the segment itself.
Awaited(m) == m.armed => m.owed \/ m.forced

\* The dictation and the transition buffer behind it, up to frame b.
Dictation(m, b) ==
  /\ Rising(m.dictated, b) /\ Rising(m.waiting, b) /\ m.from <= b
  /\ m.mode = "starting" => m.dictated = <<>>
  /\ ~m.stale => /\ \A i \in 1..Len(m.dictated) : m.dictated[i] > m.from
                 /\ \A i \in 1..Len(m.waiting) : m.waiting[i] > m.from
                 /\ m.mode # "starting" => m.waiting = <<>>

\* In the middle of a handler the detector may be ahead of the ledger.
MicSound(m, b) == MicTyped(m) /\ Segments(m) /\ Retained(m) /\ Awaited(m) /\ Dictation(m, b)

\* The inductive invariant of the microphone, between two handlers.
MicInv == MicSound(mic, mic.frames) /\ (mic.active <=> mic.open)

\* The turns of the transcripts kept are committed, and not corrected yet.
ShadowInv ==
  /\ DOMAIN shadow = {"turn", "live", "last", "snaps", "results", "fixed", "late"}
  /\ shadow.turn \in Nat /\ shadow.last \in Nat /\ shadow.last <= shadow.turn
  /\ IsFiniteSet(shadow.snaps) /\ Cardinality(shadow.snaps) <= MaxSnapshots
  /\ \A r \in shadow.snaps : r.turn \in Nat /\ r.turn <= shadow.last
  /\ DOMAIN shadow.fixed = 1..MaxShadowTurns
  /\ \A t \in 1..MaxShadowTurns :
       /\ shadow.fixed[t] \in {0, 1}
       /\ shadow.fixed[t] = 1 => t <= shadow.last /\ \A r \in shadow.snaps : r.turn # t
  /\ ~shadow.late

\* The newest n of a sequence are its last ones.
LEMMA NewestFacts ==
  ASSUME NEW s \in Seq(Nat), NEW n \in Nat
  PROVE  /\ Newest(s, n) \in Seq(Nat) /\ Len(Newest(s, n)) <= n /\ Len(Newest(s, n)) <= Len(s)
         /\ Len(Newest(s, n)) = (IF Len(s) <= n THEN Len(s) ELSE n)
         /\ \A i \in 1..Len(Newest(s, n)) : Newest(s, n)[i] = s[Len(s) - Len(Newest(s, n)) + i]
<1>1. Len(s) \in Nat BY LenProperties
<1>2. CASE Len(s) <= n BY <1>1, <1>2 DEF Newest
<1>3. CASE Len(s) > n
  <2>1. Newest(s, n) = SubSeq(s, Len(s) - n + 1, Len(s)) BY <1>1, <1>3 DEF Newest
  <2>2. /\ SubSeq(s, Len(s) - n + 1, Len(s)) \in Seq(Nat)
        /\ Len(SubSeq(s, Len(s) - n + 1, Len(s))) = n
        /\ \A i \in 1..n : SubSeq(s, Len(s) - n + 1, Len(s))[i] = s[Len(s) - n + i]
    BY <1>1, <1>3, SubSeqProperties
  <2> QED BY <1>1, <1>3, <2>1, <2>2
<1> QED BY <1>1, <1>2, <1>3

\* They are in order when the sequence is.
LEMMA NewestRising ==
  ASSUME NEW s, NEW b \in Nat, Rising(s, b), NEW n \in Nat
  PROVE  Rising(Newest(s, n), b)
<1> DEFINE t == Newest(s, n)
<1>1. s \in Seq(Nat) /\ Len(s) \in Nat BY LenProperties DEF Rising
<1>2. /\ t \in Seq(Nat) /\ Len(t) \in Nat /\ Len(t) <= Len(s)
      /\ \A i \in 1..Len(t) : t[i] = s[Len(s) - Len(t) + i]
  BY <1>1, NewestFacts, LenProperties
<1> HIDE DEF t
<1>3. \A i \in 1..Len(t) : Len(s) - Len(t) + i \in 1..Len(s) BY <1>1, <1>2
<1>4. \A i, j \in 1..Len(t) : i < j => Len(s) - Len(t) + i < Len(s) - Len(t) + j BY <1>1, <1>2
<1> QED BY <1>2, <1>3, <1>4 DEF Rising, t

\* A later frame keeps the order.
LEMMA AppendRising ==
  ASSUME NEW s, NEW b \in Nat, Rising(s, b), NEW f \in Nat, f > b
  PROVE  Rising(Append(s, f), f)
<1>1. s \in Seq(Nat) /\ Len(s) \in Nat BY LenProperties DEF Rising
<1> DEFINE t == Append(s, f)
<1>2. /\ t \in Seq(Nat) /\ Len(t) = Len(s) + 1 /\ t[Len(s) + 1] = f
      /\ \A i \in 1..Len(s) : t[i] = s[i]
  BY <1>1, AppendProperties
<1> HIDE DEF t
<1>3. \A i \in 1..Len(t) : i \in 1..Len(s) \/ i = Len(s) + 1 BY <1>1, <1>2
<1>4. \A i \in 1..Len(s) : t[i] = s[i] /\ s[i] <= b /\ s[i] \in Nat
  BY <1>1, <1>2, ElementOfSeq DEF Rising
<1>5. \A i \in 1..Len(s) : t[i] < f BY <1>4
<1>6. \A i \in 1..Len(t) : t[i] <= f BY <1>2, <1>3, <1>5, <1>4
<1>7. \A i, j \in 1..Len(t) : i < j => t[i] < t[j]
  <2> SUFFICES ASSUME NEW i \in 1..Len(t), NEW j \in 1..Len(t), i < j PROVE t[i] < t[j] OBVIOUS
  <2>1. i \in 1..Len(s) BY <1>1, <1>2
  <2>2. CASE j \in 1..Len(s) BY <1>4, <2>1, <2>2 DEF Rising
  <2>3. CASE j = Len(s) + 1 BY <1>2, <1>5, <2>1, <2>3
  <2> QED BY <1>3, <2>2, <2>3
<1> QED BY <1>2, <1>6, <1>7 DEF Rising, t

\* The bound may grow.
LEMMA LaterRising ==
  ASSUME NEW s, NEW b \in Nat, Rising(s, b), NEW f \in Nat, f >= b
  PROVE  Rising(s, f)
<1> QED BY ElementOfSeq DEF Rising

\* A frame joins what was heard, and the newest of what was cut.
LEMMA AlikeAppended ==
  ASSUME NEW s \in Seq(Nat), NEW t \in Seq(Nat), EndAlike(s, t), NEW f \in Nat,
         NEW n \in Nat \ {0}
  PROVE  EndAlike(Newest(Append(s, f), n), Append(t, f))
<1> DEFINE a == Append(s, f)
           c == Newest(a, n)
           d == Append(t, f)
<1>1. Len(s) \in Nat /\ Len(t) \in Nat BY LenProperties
<1>2. /\ a \in Seq(Nat) /\ Len(a) = Len(s) + 1 /\ a[Len(s) + 1] = f
           /\ \A i \in 1..Len(s) : a[i] = s[i]
      /\ Len(d) = Len(t) + 1 /\ d[Len(t) + 1] = f /\ \A i \in 1..Len(t) : d[i] = t[i]
  BY AppendProperties
<1>3. /\ Len(c) \in Nat /\ Len(c) <= Len(a)
      /\ \A i \in 1..Len(c) : c[i] = a[Len(a) - Len(c) + i]
  BY <1>2, NewestFacts, LenProperties
<1> HIDE DEF a, c, d
<1> SUFFICES ASSUME NEW k \in Nat, k < Len(c), k < Len(d) PROVE c[Len(c) - k] = d[Len(d) - k]
  BY DEF EndAlike, a, c, d
<1>4. c[Len(c) - k] = a[Len(a) - k]
  <2>1. Len(c) - k \in 1..Len(c) /\ Len(a) - Len(c) + (Len(c) - k) = Len(a) - k BY <1>1, <1>2, <1>3
  <2> QED BY <1>3, <2>1
<1>5. CASE k = 0 BY <1>1, <1>2, <1>4, <1>5
<1>6. CASE k # 0
  <2>0. Len(c) \in Nat /\ Len(c) <= Len(s) + 1 /\ Len(d) = Len(t) + 1 /\ Len(a) = Len(s) + 1
    BY <1>2, <1>3
  <2>1. k - 1 \in Nat /\ k - 1 < Len(s) /\ k - 1 < Len(t) BY <1>1, <1>6, <2>0
  <2>3. /\ Len(a) - k = Len(s) - (k - 1) /\ Len(d) - k = Len(t) - (k - 1)
        /\ Len(a) - k \in 1..Len(s) /\ Len(d) - k \in 1..Len(t)
    BY <1>1, <2>0, <2>1
  <2> QED BY <1>4, <2>1, <1>2, <2>3 DEF EndAlike
<1> QED BY <1>5, <1>6

\* Sequences whose ends agree end with one another.
LEMMA AlikeTails ==
  ASSUME NEW s \in Seq(Nat), NEW t \in Seq(Nat), EndAlike(s, t)
  PROVE  Tails(s, t)
<1> DEFINE n == Least(Len(s), Len(t))
           a == Newest(s, n)
           c == Newest(t, n)
<1>1. Len(s) \in Nat /\ Len(t) \in Nat BY LenProperties
<1>2. n \in Nat /\ n <= Len(s) /\ n <= Len(t) BY <1>1 DEF Least
<1> HIDE DEF n
<1>3. ASSUME NEW u \in Seq(Nat), Len(u) \in Nat, n <= Len(u)
      PROVE  /\ Newest(u, n) \in Seq(Nat) /\ Len(Newest(u, n)) = n
             /\ \A i \in 1..n : Newest(u, n)[i] = u[Len(u) - n + i]
  <2>2. Len(Newest(u, n)) = n BY <1>2, <1>3, NewestFacts
  <2> DEFINE w == Newest(u, n)
  <2>3. w \in Seq(Nat) /\ Len(w) = n /\ \A i \in 1..Len(w) : w[i] = u[Len(u) - Len(w) + i]
    BY <1>2, <2>2, NewestFacts
  <2> HIDE DEF w
  <2> QED BY <2>3 DEF w
<1>7. /\ a \in Seq(Nat) /\ Len(a) = n /\ \A i \in 1..n : a[i] = s[Len(s) - n + i]
      /\ c \in Seq(Nat) /\ Len(c) = n /\ \A i \in 1..n : c[i] = t[Len(t) - n + i]
  BY <1>1, <1>2, <1>3
<1> HIDE DEF a, c
<1>4. \A i \in 1..n : a[i] = c[i]
  <2> SUFFICES ASSUME NEW i \in 1..n PROVE s[Len(s) - n + i] = t[Len(t) - n + i] BY <1>7
  <2>1. n - i \in Nat /\ n - i < Len(s) /\ n - i < Len(t) BY <1>1, <1>2
  <2> QED BY <2>1, <1>1, <1>2 DEF EndAlike
<1>5. a = c BY <1>4, <1>7, SeqEqual
<1> QED BY <1>2, <1>5, <1>1 DEF Tails, a, c, n
\* A segment that is open ends, and its utterance may be kept.
LEMMA FinalizeKeeps ==
  ASSUME NEW m, NEW b \in Nat, MicSound(m, b),
         NEW cause \in {"silence", "model-activity-forced", "forced-reset"},
         NEW y, y = FinalizeSegment(m, cause)
  PROVE  MicSound(y, b) /\ ~y.open /\ (y.active <=> m.active) /\ y.frames = m.frames
<1>1. MicTyped(m) /\ Segments(m) /\ Retained(m) /\ Awaited(m) /\ Dictation(m, b) BY DEF MicSound
<1>2. CASE ~m.open BY <1>1, <1>2 DEF FinalizeSegment, MicTyped
<1>3. CASE m.open
  <2> DEFINE outcome == IF cause = "forced-reset" THEN "aborted"
                        ELSE IF m.spoken = 0 THEN "ignored" ELSE "completed"
             n == [m EXCEPT !.open = FALSE, !.ends = m.ends + 1]
  <2>1. y = ActuateTerminals(n, outcome, cause) BY <1>3 DEF FinalizeSegment
  <2>2. /\ DOMAIN n = MicFields /\ n.open = FALSE /\ n.ends = m.ends + 1
        /\ \A f \in MicFields \ {"open", "ends"} : n[f] = m[f]
    BY <1>1 DEF MicTyped, MicFields
  <2> HIDE DEF n, outcome
  <2> DEFINE arms == Arms(n, outcome)
             e == [n EXCEPT !.cutting = FALSE, !.cut = <<>>, !.armed = n.armed \/ arms,
                            !.forced = n.forced \/ (arms /\ cause = "model-activity-forced"),
                            !.owed = n.owed \/ (arms /\ cause = "silence")]
             kept == [seg |-> n.seg, frames |-> n.cut]
  <2>3. y = IF Seals(n, outcome, cause) /\ n.cut # <<>> THEN [e EXCEPT !.kept = kept] ELSE e
    BY <2>1 DEF ActuateTerminals
  <2>5. /\ DOMAIN e = MicFields /\ e.cutting = FALSE /\ e.cut = <<>>
        /\ e.armed = (n.armed \/ arms)
        /\ e.forced = (n.forced \/ (arms /\ cause = "model-activity-forced"))
        /\ e.owed = (n.owed \/ (arms /\ cause = "silence"))
        /\ \A f \in MicFields \ {"cutting", "cut", "armed", "forced", "owed"} : e[f] = n[f]
    BY <2>2 DEF MicFields
  <2> HIDE DEF e, kept, arms
  <2>6. /\ DOMAIN y = MicFields /\ \A f \in MicFields \ {"kept"} : y[f] = e[f]
        /\ y.kept = n.kept \/ y.kept = kept
    BY <2>3, <2>5 DEF MicFields
  <2>4. /\ y.open = FALSE /\ y.ends = m.ends + 1 /\ y.active = m.active /\ y.frames = m.frames
        /\ y.seg = m.seg /\ y.from = m.from /\ y.pre = m.pre /\ y.heard = m.heard
                /\ y.mode = m.mode
        /\ y.dictated = m.dictated /\ y.waiting = m.waiting /\ y.stale = m.stale
        /\ n.seg = m.seg /\ n.cut = m.cut /\ n.kept = m.kept
    BY <2>2, <2>5, <2>6 DEF MicFields
  <2> HIDE DEF kept
  <2>7. \/ y.kept = m.kept
        \/ y.kept.seg = m.seg /\ y.kept.frames = m.cut
    BY <2>4, <2>6 DEF kept
  <2>8. MicTyped(y)
    <3>1. m.ends \in Nat /\ m.ends + 1 \in Nat BY <1>1 DEF MicTyped
    <3>2. y.cut = <<>> /\ y.cut \in Seq(Nat) /\ DOMAIN y = MicFields
      BY <2>5, <2>6, EmptySeq DEF MicFields
    <3> QED BY <1>1, <2>4, <3>1, <3>2, <2>7 DEF MicTyped
  <2>9. y.cutting = FALSE /\ y.cut = <<>> BY <2>5, <2>6 DEF MicFields
  <2>11. Retained(y)
    <3>2. y.kept.seg # 0 /\ y.kept.seg = y.seg => EndAlike(y.kept.frames, y.heard)
      BY <1>1, <2>4, <2>7 DEF Retained
    <3> QED BY <2>4, <2>9, <3>2, <1>1, <2>7 DEF Retained, EndAlike, MicTyped
  <2>12. Awaited(y) BY <2>2, <2>5, <2>6, <1>1 DEF MicFields, arms, outcome, Arms, Awaited
  <2>14. Segments(y)
    <3> QED BY <2>4, <2>9, <1>1, <1>3 DEF Segments, MicTyped
  <2> QED BY <2>4, <2>8, <2>11, <2>12, <2>14, <1>1 DEF MicSound, Dictation
<1> QED BY <1>2, <1>3

\* A voiced frame opens or prolongs a segment, a late silent one ends it.
LEMMA ProcessKeeps ==
  ASSUME NEW m, NEW b \in Nat, MicSound(m, b), m.active <=> m.open,
         NEW y, \E voiced \in BOOLEAN : y = Process(m, voiced)
  PROVE  /\ MicSound(y, b) /\ y.frames = m.frames /\ (y.active => y.open)
         /\ (m.active /\ ~y.active) \/ (y.active <=> y.open)
<1> PICK voiced \in BOOLEAN : y = Process(m, voiced) OBVIOUS
<1>1. MicTyped(m) /\ Segments(m) /\ Retained(m) /\ Awaited(m) /\ Dictation(m, b) BY DEF MicSound
<1>2. CASE voiced /\ ~m.active
  <2> DEFINE cut == Newest(m.pre, MaxCut)
  <2>1. y = [m EXCEPT !.active = TRUE, !.seg = m.seg + 1, !.spoken = 0, !.quiet = 0,
                      !.cutting = TRUE, !.cut = cut, !.pre = <<>>,
                      !.open = TRUE, !.routed = {}, !.heard = <<>>]
    BY <1>2 DEF Process
  <2>2. cut \in Seq(Nat) /\ <<>> \in Seq(Nat)
    BY <1>1, UserSpeechAssumption, NewestFacts, EmptySeq DEF MicTyped
  <2> HIDE DEF cut
  <2>3. /\ DOMAIN y = MicFields /\ y.active = TRUE /\ y.open = TRUE /\ y.cutting = TRUE
        /\ y.seg = m.seg + 1 /\ y.cut = cut /\ y.pre = <<>> /\ y.heard = <<>>
        /\ y.frames = m.frames /\ y.ends = m.ends /\ y.from = m.from /\ y.kept = m.kept
        /\ y.mode = m.mode /\ y.armed = m.armed /\ y.owed = m.owed /\ y.forced = m.forced
        /\ y.dictated = m.dictated /\ y.waiting = m.waiting /\ y.stale = m.stale
    <3>1. DOMAIN m = MicFields BY <1>1 DEF MicTyped
    <3>5. y.active = TRUE /\ y.open = TRUE /\ y.cutting = TRUE BY <2>1, <3>1 DEF MicFields
    <3>3. /\ y.frames = m.frames /\ y.ends = m.ends /\ y.from = m.from /\ y.kept = m.kept
          /\ y.mode = m.mode /\ y.armed = m.armed
      BY <2>1, <3>1 DEF MicFields
    <3>4. /\ y.owed = m.owed /\ y.forced = m.forced
          /\ y.dictated = m.dictated /\ y.waiting = m.waiting /\ y.stale = m.stale
      BY <2>1, <3>1 DEF MicFields
    <3> QED BY <3>1, <3>3, <3>4, <3>5, <2>1 DEF MicFields
  <2>4. m.open = FALSE /\ m.ends = m.seg /\ m.seg \in Nat BY <1>1, <1>2 DEF Segments, MicTyped
  <2>5. MicTyped(y)
    <3>1. y.seg \in Nat /\ y.active \in BOOLEAN /\ y.open \in BOOLEAN
      <4>1. y.seg \in Nat BY <2>3, <2>4
      <4> QED BY <4>1, <2>3
    <3> QED BY <1>1, <3>1, <2>2, <2>3 DEF MicTyped
  <2>6. Segments(y) BY <2>3, <2>4 DEF Segments
  <2>7. Retained(y) BY <1>1, <2>3, <2>4 DEF Retained, MicTyped, EndAlike
  <2> QED BY <2>3, <2>5, <2>6, <2>7, <1>1 DEF MicSound, Awaited, Dictation
<1>3. CASE ~(voiced /\ ~m.active)
  <2>1. /\ DOMAIN y = MicFields
        /\ \A f \in MicFields \ {"active", "spoken", "quiet"} : y[f] = m[f]
        /\ y.active = m.active \/ (m.active = TRUE /\ y.active = FALSE)
    BY <1>1, <1>3 DEF Process, MicTyped, MicFields
  <2>2. /\ y.open = m.open /\ y.cutting = m.cutting /\ y.seg = m.seg /\ y.cut = m.cut
             /\ y.pre = m.pre
        /\ y.heard = m.heard /\ y.frames = m.frames /\ y.ends = m.ends /\ y.from = m.from
        /\ y.kept = m.kept /\ y.mode = m.mode /\ y.armed = m.armed /\ y.owed = m.owed
        /\ y.forced = m.forced /\ y.dictated = m.dictated /\ y.waiting = m.waiting
        /\ y.stale = m.stale
    BY <2>1 DEF MicFields
  <2>4. Retained(y) /\ Awaited(y) /\ Dictation(y, b) BY <1>1, <2>2 DEF Retained, Awaited, Dictation
  <2> QED BY <2>1, <2>2, <2>4, <1>1 DEF MicSound, MicTyped, Segments
<1> QED BY <1>2, <1>3
\* A frame the model is sent goes to the segment, or to the pre-roll.
LEMMA FeedKeeps ==
  ASSUME NEW m, NEW b \in Nat, MicSound(m, b), NEW f \in Nat, NEW y, y = Feed(m, f)
  PROVE  MicSound(y, b) /\ (y.open <=> m.open) /\ (y.active <=> m.active) /\ y.frames = m.frames
<1>1. MicTyped(m) /\ Segments(m) /\ Retained(m) /\ Awaited(m) /\ Dictation(m, b) BY DEF MicSound
<1> DEFINE cut == Newest(Append(m.cut, f), MaxCut)
           pre == Newest(Append(m.pre, f), PreRoll)
           heard == Append(m.heard, f)
<1>2. /\ m.cut \in Seq(Nat) /\ m.pre \in Seq(Nat) /\ m.heard \in Seq(Nat)
      /\ MaxCut \in Nat \ {0} /\ PreRoll \in Nat
  BY <1>1, UserSpeechAssumption DEF MicTyped
<1>3. /\ Append(m.cut, f) \in Seq(Nat) /\ Append(m.pre, f) \in Seq(Nat) /\ heard \in Seq(Nat)
  BY <1>2, AppendProperties
<1>4. cut \in Seq(Nat) /\ pre \in Seq(Nat) BY <1>2, <1>3, NewestFacts
<1>5. EndAlike(cut, heard) BY <1>1, <1>2, AlikeAppended DEF Retained
<1>6. /\ m.cutting => m.open
      /\ y = IF m.cutting THEN [m EXCEPT !.cut = cut, !.heard = heard]
             ELSE IF m.open THEN [m EXCEPT !.pre = pre, !.heard = heard]
             ELSE [m EXCEPT !.pre = pre]
  <2>1. m.cutting => m.open BY <1>1 DEF Segments
  <2>2. DOMAIN m = MicFields BY <1>1 DEF MicTyped
  <2>3. CASE m.cutting BY <2>1, <2>2, <2>3 DEF Feed, MicFields
  <2>4. CASE ~m.cutting BY <2>1, <2>2, <2>4 DEF Feed, MicFields
  <2> QED BY <2>1, <2>3, <2>4
<1> HIDE DEF cut, pre, heard
<1>7. /\ DOMAIN y = MicFields
      /\ \A g \in MicFields \ {"cut", "pre", "heard"} : y[g] = m[g]
      /\ IF m.cutting THEN y.cut = cut /\ y.pre = m.pre /\ y.heard = heard
         ELSE IF m.open THEN y.cut = m.cut /\ y.pre = pre /\ y.heard = heard
         ELSE y.cut = m.cut /\ y.pre = pre /\ y.heard = m.heard
  BY <1>1, <1>6 DEF MicTyped, MicFields
<1>8. /\ y.open = m.open /\ y.active = m.active /\ y.cutting = m.cutting /\ y.seg = m.seg
      /\ y.frames = m.frames /\ y.ends = m.ends /\ y.from = m.from
      /\ y.kept = m.kept /\ y.mode = m.mode /\ y.armed = m.armed /\ y.owed = m.owed
      /\ y.forced = m.forced /\ y.dictated = m.dictated /\ y.waiting = m.waiting
      /\ y.stale = m.stale
  BY <1>7 DEF MicFields
<1>9. MicTyped(y) BY <1>2, <1>3, <1>4, <1>7, <1>1, <1>8 DEF MicTyped
<1>11. Retained(y)
  <2>3. ~y.cutting => y.cut = <<>> BY <1>1, <1>7, <1>8 DEF Retained
  <2>4. EndAlike(y.cut, y.heard)
    <3>1. CASE m.cutting BY <1>5, <1>7, <3>1
    <3>2. CASE ~m.cutting BY <1>8, <2>3, <3>2 DEF EndAlike
    <3> QED BY <3>1, <3>2
  <2> QED BY <1>1, <1>8, <2>3, <2>4, <1>6, <1>7 DEF Retained
<1> QED BY <1>8, <1>9, <1>11, <1>1 DEF MicSound, Segments, Awaited, Dictation

\* The frame after the last goes to one consumer.
LEMMA RouteKeeps ==
  ASSUME NEW m, NEW b \in Nat, MicSound(m, b), NEW y,
         \E voiced \in BOOLEAN : y = RouteFrame(m, b + 1, voiced)
  PROVE  MicSound(y, b + 1) /\ (y.open <=> m.open) /\ (y.active <=> m.active)
         /\ y.frames = m.frames
<1> PICK voiced \in BOOLEAN : y = RouteFrame(m, b + 1, voiced) OBVIOUS
<1> DEFINE f == b + 1
<1>1. f \in Nat /\ f > b OBVIOUS
<1> HIDE DEF f
<1>2. ASSUME NEW z, DOMAIN z = MicFields,
             \A g \in MicFields \ {"routed", "waiting", "dictated"} : z[g] = m[g],
             Dictation(z, f)
      PROVE  MicSound(z, f) /\ (z.open <=> m.open) /\ (z.active <=> m.active)
             /\ z.frames = m.frames
  BY <1>2 DEF MicSound, MicFields, MicTyped, Segments, Retained, Awaited
<1>3. /\ DOMAIN m = MicFields /\ Dictation(m, b)
      /\ m.mode \in {"agent", "starting", "transcription", "stopping"}
  BY DEF MicSound, MicTyped
<1>4. Dictation(m, f) BY <1>1, <1>3, LaterRising DEF Dictation, MicSound, MicTyped
<1>5. ASSUME NEW route, NEW z, z = Notes(m, voiced, route)
      PROVE  MicSound(z, f) /\ (z.open <=> m.open) /\ (z.active <=> m.active)
             /\ z.frames = m.frames
             /\ DOMAIN z = MicFields /\ \A g \in MicFields \ {"routed"} : z[g] = m[g]
  BY <1>3, <1>5, <1>4, <1>2 DEF Notes, MicFields, Dictation
<1>6. CASE m.external BY <1>6, <1>5 DEF RouteFrame, f
<1>7. CASE ~m.external /\ m.mode \in {"agent", "stopping"}
  <2>1. y = RouteToAgent(m, f, voiced) BY <1>7 DEF RouteFrame, f
  <2>2. CASE m.gate BY <2>1, <2>2, <1>2, <1>3, <1>4 DEF RouteToAgent, f
  <2>3. CASE ~m.gate
    <3> DEFINE z == Notes(m, voiced, "llm")
    <3>1. y = Feed(z, f) BY <2>1, <2>3 DEF RouteToAgent
    <3>2. MicSound(z, f) /\ (z.open <=> m.open) /\ (z.active <=> m.active) /\ z.frames = m.frames
      BY <1>5
    <3> HIDE DEF z
    <3> QED BY <1>1, <3>1, <3>2, FeedKeeps DEF f
  <2> QED BY <2>2, <2>3
<1>8. CASE ~m.external /\ m.mode = "starting"
  <2> DEFINE z == Notes(m, voiced, "stt")
             waiting == Newest(Append(z.waiting, f), MaxTransition)
  <2>1. y = [z EXCEPT !.waiting = waiting] BY <1>8 DEF RouteFrame, f
  <2>2. DOMAIN z = MicFields /\ \A g \in MicFields \ {"routed"} : z[g] = m[g] BY <1>5
  <2> HIDE DEF z
  <2>3. z.waiting = m.waiting /\ z.dictated = m.dictated BY <2>2 DEF MicFields
  <2>5. Rising(waiting, f)
    BY <1>1, <2>3, NewestRising, <1>3, AppendRising, UserSpeechAssumption DEF Dictation
  <2>6. ~m.stale => \A i \in 1..Len(waiting) : waiting[i] > m.from
    <3> DEFINE a == Append(m.waiting, f)
    <3>1. /\ m.waiting \in Seq(Nat) /\ Len(m.waiting) \in Nat /\ m.from \in Nat /\ m.from <= b
      BY <1>3, LenProperties DEF Dictation, Rising, MicSound, MicTyped
    <3>2. /\ a \in Seq(Nat) /\ Len(a) = Len(m.waiting) + 1 /\ a[Len(m.waiting) + 1] = f
          /\ \A i \in 1..Len(m.waiting) : a[i] = m.waiting[i]
      BY <1>1, <3>1, AppendProperties
    <3>3. waiting = Newest(a, MaxTransition) BY <2>3
    <3> HIDE DEF a, waiting
    <3>4. f > m.from BY <1>1, <3>1
    <3>5. ~m.stale => \A i \in 1..Len(a) : a[i] > m.from
      <4>2. \A i \in 1..Len(a) : i \in 1..Len(m.waiting) \/ i = Len(m.waiting) + 1 BY <3>1, <3>2
      <4> QED BY <3>2, <3>4, <4>2, <1>3 DEF Dictation
    <3>6. /\ waiting \in Seq(Nat) /\ Len(waiting) <= Len(a)
          /\ \A i \in 1..Len(waiting) : waiting[i] = a[Len(a) - Len(waiting) + i]
      <4>2. a \in Seq(Nat) BY <3>2
      <4>3. /\ Newest(a, MaxTransition) \in Seq(Nat) /\ Len(Newest(a, MaxTransition)) <= Len(a)
            /\ \A i \in 1..Len(Newest(a, MaxTransition)) :
                 Newest(a, MaxTransition)[i] = a[Len(a) - Len(Newest(a, MaxTransition)) + i]
        BY <4>2, NewestFacts, UserSpeechAssumption
      <4> QED BY <3>3, <4>3
    <3>7. \A i \in 1..Len(waiting) : Len(a) - Len(waiting) + i \in 1..Len(a)
      BY <3>1, <3>2, <3>6, LenProperties
    <3> QED BY <3>5, <3>6, <3>7
  <2> HIDE DEF waiting
  <2> QED BY <1>2, <1>4, <1>8, <2>5, <2>6, <2>1, <2>2, <2>3 DEF f, Dictation, MicFields
<1>9. CASE ~m.external /\ m.mode = "transcription"
  <2> DEFINE z == Notes(m, voiced, "stt")
             dictated == Append(z.dictated, f)
  <2>1. y = [z EXCEPT !.dictated = dictated] BY <1>9 DEF RouteFrame, f
  <2>2. DOMAIN z = MicFields /\ \A g \in MicFields \ {"routed"} : z[g] = m[g] BY <1>5
  <2> HIDE DEF z
  <2>3. z.waiting = m.waiting /\ z.dictated = m.dictated BY <2>2 DEF MicFields
  <2>4. Rising(dictated, f) BY <1>1, <1>3, <2>3, AppendRising DEF Dictation
  <2>5. ~m.stale => \A i \in 1..Len(dictated) : dictated[i] > m.from
    <3> DEFINE a == Append(m.dictated, f)
    <3>1. /\ m.dictated \in Seq(Nat) /\ Len(m.dictated) \in Nat /\ m.from \in Nat /\ m.from <= b
      BY <1>3, LenProperties DEF Dictation, Rising, MicSound, MicTyped
    <3>2. /\ a \in Seq(Nat) /\ Len(a) = Len(m.dictated) + 1 /\ a[Len(m.dictated) + 1] = f
          /\ \A i \in 1..Len(m.dictated) : a[i] = m.dictated[i]
      BY <1>1, <3>1, AppendProperties
    <3>3. dictated = a BY <2>3
    <3> HIDE DEF a, dictated
    <3>4. f > m.from BY <1>1, <3>1
    <3>6. \A i \in 1..Len(a) : i \in 1..Len(m.dictated) \/ i = Len(m.dictated) + 1 BY <3>1, <3>2
    <3> QED BY <3>2, <3>3, <3>4, <3>6, <1>3 DEF Dictation
  <2> HIDE DEF dictated
  <2> QED BY <1>2, <1>4, <1>9, <2>4, <2>5, <2>1, <2>2, <2>3 DEF f, Dictation, MicFields
<1> QED BY <1>3, <1>6, <1>7, <1>8, <1>9

\* What the dictation does not read changes, and the retainer only forgets.
LEMMA LightKeeps ==
  ASSUME NEW m, NEW b \in Nat, MicSound(m, b), NEW y, DOMAIN y = MicFields,
         \A f \in {"open", "seg", "ends", "from", "heard", "mode", "dictated", "waiting",
           "stale"} :
           y[f] = m[f],
         y.frames \in Nat, y.active \in BOOLEAN, y.pre \in Seq(Nat),
         y.kept = m.kept \/ y.kept = Nothing, Awaited(y),
         (y.cutting = m.cutting /\ y.cut = m.cut) \/ (y.cutting = FALSE /\ y.cut = <<>>)
  PROVE  MicSound(y, b)
<1>1. MicTyped(m) /\ Segments(m) /\ Retained(m) /\ Dictation(m, b) BY DEF MicSound
<1>2. /\ y.open = m.open /\ y.seg = m.seg /\ y.ends = m.ends /\ y.from = m.from
      /\ y.heard = m.heard /\ y.mode = m.mode /\ y.dictated = m.dictated
      /\ y.waiting = m.waiting /\ y.stale = m.stale
  OBVIOUS
<1>3. Nothing.seg = 0 /\ Nothing.frames = <<>> /\ <<>> \in Seq(Nat) BY EmptySeq DEF Nothing
<1>4. MicTyped(y)
  <2>1. y.kept.frames \in Seq(Nat) /\ y.kept.seg \in Nat /\ y.cut \in Seq(Nat)
    <3>1. m.kept.frames \in Seq(Nat) /\ m.kept.seg \in Nat /\ m.cut \in Seq(Nat)
      BY <1>1 DEF MicTyped
    <3>2. y.kept.frames \in Seq(Nat) /\ y.kept.seg \in Nat
      <4>1. CASE y.kept = m.kept BY <3>1, <4>1
      <4>2. CASE y.kept = Nothing
        <5>1. y.kept.frames = <<>> /\ y.kept.seg = 0 BY <1>3, <4>2
        <5> QED BY <1>3, <5>1
      <4> QED BY <4>1, <4>2
    <3>4. y.cut \in Seq(Nat) BY <1>3, <3>1
    <3> QED BY <3>2, <3>4
  <2> QED BY <1>1, <1>2, <2>1 DEF MicTyped
<1>6. Retained(y)
  <2>1. EndAlike(<<>>, y.heard) BY DEF EndAlike
  <2>2. m.seg \in Nat BY <1>1 DEF MicTyped
  <2> QED BY <1>1, <1>2, <1>3, <2>1, <2>2 DEF Retained
<1> QED BY <1>4, <1>6, <1>1, <1>2 DEF MicSound, Segments, Dictation

\* The switch between the agent and the transcriber.
LEMMA SwitchKeeps ==
  ASSUME NEW m, NEW b \in Nat, MicSound(m, b), NEW y, DOMAIN y = MicFields,
         \A f \in MicFields \ {"mode", "from", "dictated", "waiting", "stale"} : y[f] = m[f],
         y.mode \in {"agent", "starting", "transcription", "stopping"}, y.from \in Nat,
         Dictation(y, b)
  PROVE  MicSound(y, b) /\ y.frames = m.frames /\ (y.active <=> m.active) /\ (y.open <=> m.open)
<1> QED BY DEF MicSound, MicTyped, Segments, Retained, Awaited, MicFields

\* A frame, from the detector to the terminal of its segment.
LEMMA FrameKeeps ==
  ASSUME UserSpeechAssumption, MicInv, NEW voiced \in BOOLEAN, HandleFromClient(voiced)
  PROVE  MicInv'
<1> DEFINE b == mic.frames
           m == [mic EXCEPT !.frames = b + 1]
           p == Process(m, voiced)
           r == RouteFrame(p, b + 1, voiced)
           y == FinalizeSegment(r, "silence")
<1>1. MicSound(mic, b) /\ MicTyped(mic) /\ (mic.active <=> mic.open) /\ b \in Nat /\ Awaited(mic)
  BY DEF MicInv, MicSound, MicTyped
<1>2. mic' = IF mic.active /\ ~p.active THEN y ELSE r BY DEF HandleFromClient
<1>3. /\ DOMAIN m = MicFields /\ m.frames = b + 1
      /\ \A f \in MicFields \ {"frames"} : m[f] = mic[f]
  BY <1>1 DEF MicTyped, MicFields
<1> HIDE DEF b, m
<1>4. /\ m.active = mic.active /\ m.open = mic.open /\ m.pre = mic.pre /\ m.kept = mic.kept
      /\ m.cutting = mic.cutting /\ m.cut = mic.cut
      /\ m.armed = mic.armed /\ m.owed = mic.owed /\ m.forced = mic.forced
      /\ \A f \in {"open", "seg", "ends", "from", "heard", "mode", "dictated", "waiting",
              "stale"} :
           m[f] = mic[f]
  BY <1>3 DEF MicFields
<1>5. MicSound(m, b)
  <2>1. m.frames \in Nat /\ m.active \in BOOLEAN /\ m.pre \in Seq(Nat) /\ Awaited(m)
    BY <1>1, <1>3, <1>4 DEF MicTyped, Awaited
  <2> QED BY <1>1, <1>3, <1>4, <2>1, LightKeeps
<1> HIDE DEF p
<1>6. /\ MicSound(p, b) /\ p.frames = b + 1
      /\ (m.active /\ ~p.active) \/ (p.active <=> p.open)
  BY <1>1, <1>4, <1>3, <1>5, ProcessKeeps DEF p
<1> HIDE DEF r
<1>7. MicSound(r, b + 1) /\ (r.open <=> p.open) /\ (r.active <=> p.active) /\ r.frames = b + 1
  BY <1>1, <1>6, RouteKeeps DEF r
<1>8. CASE mic.active /\ ~p.active
  <2> HIDE DEF y
  <2>1. MicSound(y, b + 1) /\ ~y.open /\ (y.active <=> r.active) /\ y.frames = r.frames
    <3> DEFINE c == "silence"
    <3>1. y = FinalizeSegment(r, c) /\ c \in {"silence", "model-activity-forced", "forced-reset"}
      BY DEF y
    <3>2. b + 1 \in Nat BY <1>1
    <3> HIDE DEF c
    <3> QED BY <1>7, <3>1, <3>2, FinalizeKeeps
  <2> QED BY <1>2, <1>7, <1>8, <2>1 DEF MicInv
<1>9. CASE ~(mic.active /\ ~p.active) BY <1>4, <1>6, <1>9, <1>2, <1>7 DEF MicInv
<1> QED BY <1>8, <1>9

\* The answer, or a reset, takes over from the detector.
LEMMA TakenOverKeeps ==
  ASSUME MicInv, NEW m, MicSound(m, mic.frames), m.active <=> mic.active, m.open <=> mic.open,
         m.frames = mic.frames, DOMAIN m = MicFields,
         NEW cause \in {"model-activity-forced", "forced-reset"},
         mic' = IF mic.active THEN FinalizeSegment([m EXCEPT !.active = FALSE, !.quiet = 0],
           cause) ELSE m
  PROVE  MicInv'
<1> DEFINE n == [m EXCEPT !.active = FALSE, !.quiet = 0]
           y == FinalizeSegment(n, cause)
<1>1. MicTyped(m) /\ Awaited(m) /\ mic.frames \in Nat /\ (mic.active <=> mic.open)
  BY DEF MicInv, MicSound, MicTyped
<1>2. /\ DOMAIN n = MicFields /\ n.active = FALSE
      /\ \A f \in MicFields \ {"active", "quiet"} : n[f] = m[f]
  BY <1>1 DEF MicTyped, MicFields
<1>3. mic' = IF mic.active THEN y ELSE m OBVIOUS
<1> HIDE DEF n
<1>4. /\ n.pre = m.pre /\ n.kept = m.kept /\ n.frames = m.frames /\ n.cutting = m.cutting
      /\ n.cut = m.cut /\ n.armed = m.armed /\ n.owed = m.owed /\ n.forced = m.forced
      /\ \A f \in {"open", "seg", "ends", "from", "heard", "mode", "dictated", "waiting",
              "stale"} :
           n[f] = m[f]
  BY <1>2 DEF MicFields
<1>5. MicSound(n, mic.frames) BY <1>1, <1>2, <1>4, LightKeeps DEF MicTyped, Awaited
<1> HIDE DEF y
<1>7. CASE mic.active BY <1>2, <1>3, <1>4, <1>7, <1>1, <1>5, FinalizeKeeps DEF MicInv, y
<1>8. CASE ~mic.active BY <1>1, <1>3, <1>8 DEF MicInv
<1> QED BY <1>7, <1>8

\* Every step of the microphone's way.
LEMMA MicKeeps ==
  ASSUME UserSpeechAssumption, MicInv, MicNext
  PROVE  MicInv'
<1>1. /\ MicSound(mic, mic.frames) /\ MicTyped(mic) /\ Awaited(mic) /\ Retained(mic)
      /\ Dictation(mic, mic.frames) /\ (mic.active <=> mic.open) /\ mic.frames \in Nat
  BY DEF MicInv, MicSound, MicTyped
<1>2. DOMAIN mic = MicFields /\ mic.pre \in Seq(Nat) /\ mic.active \in BOOLEAN
      /\ <<>> \in Seq(Nat)
  BY <1>1, EmptySeq DEF MicTyped
<1>3. ASSUME NEW y, DOMAIN y = MicFields,
             \A f \in MicFields \ {"quiet", "gate", "external", "armed", "owed", "forced", "kept",
                                    "pre", "cutting", "cut"} : y[f] = mic[f],
             y.pre \in Seq(Nat), y.kept = mic.kept \/ y.kept = Nothing, Awaited(y),
             (y.cutting = mic.cutting /\ y.cut = mic.cut) \/ (y.cutting = FALSE /\ y.cut = <<>>)
      PROVE  /\ MicSound(y, mic.frames) /\ y.frames = mic.frames
             /\ (y.active <=> mic.active) /\ (y.open <=> mic.open)
  BY <1>3, <1>1, <1>2, LightKeeps DEF MicFields
<1>4. CASE \E v \in BOOLEAN : HandleFromClient(v) BY <1>4, FrameKeeps
<1>5. ASSUME NEW trailing \in BOOLEAN, ModelTurnStarts(trailing) PROVE MicInv'
  <2> DEFINE m == IF trailing THEN mic
                  ELSE [mic EXCEPT !.armed = FALSE, !.owed = FALSE, !.forced = FALSE,
                                   !.kept = Nothing, !.pre = <<>>]
             cause == "model-activity-forced"
  <2>1. mic' = IF mic.active THEN FinalizeSegment([m EXCEPT !.active = FALSE, !.quiet = 0], cause)
               ELSE m
    BY <1>5 DEF ModelTurnStarts
  <2>2. /\ DOMAIN m = MicFields
        /\ \A f \in MicFields \ {"armed", "owed", "forced", "kept", "pre"} : m[f] = mic[f]
        /\ m.pre = mic.pre \/ m.pre = <<>>
        /\ m.kept = mic.kept \/ m.kept = Nothing
    BY <1>2 DEF MicFields
  <2>3. Awaited(m)
    <3>1. CASE trailing BY <1>1, <3>1
    <3>2. CASE ~trailing BY <1>2, <3>2 DEF MicFields, Awaited
    <3> QED BY <3>1, <3>2
  <2> HIDE DEF m, cause
  <2> QED BY <2>1, <2>2, TakenOverKeeps, <1>3, <2>3, <1>2 DEF cause, MicFields
<1>6. CASE ToolCallsArrive
  <2> DEFINE m == [mic EXCEPT !.armed = FALSE, !.owed = FALSE, !.forced = FALSE]
             cause == "model-activity-forced"
  <2>1. mic' = IF mic.active THEN FinalizeSegment([m EXCEPT !.active = FALSE, !.quiet = 0], cause)
               ELSE m
    BY <1>6 DEF ToolCallsArrive
  <2>2. /\ DOMAIN m = MicFields /\ m.armed = FALSE
        /\ \A f \in MicFields \ {"armed", "owed", "forced"} : m[f] = mic[f]
    BY <1>2 DEF MicFields
  <2> HIDE DEF m, cause
  <2>3. Awaited(m) BY <2>2 DEF Awaited
  <2> QED BY <2>1, <2>2, TakenOverKeeps, <1>3, <2>3, <1>2 DEF cause, MicFields
<1>7. CASE ResetSegment
  <2> DEFINE cause == "forced-reset"
  <2>1. mic' = IF mic.active THEN FinalizeSegment([mic EXCEPT !.active = FALSE, !.quiet = 0],
        cause)
               ELSE mic
    BY <1>7 DEF ResetSegment
  <2>2. cause \in {"model-activity-forced", "forced-reset"} OBVIOUS
  <2> HIDE DEF cause
  <2> QED BY <1>1, <1>2, <2>1, <2>2, TakenOverKeeps
<1>8. ASSUME TimePasses \/ GateMoves \/ ExternalMoves PROVE MicInv'
  <2>1. /\ DOMAIN mic' = MicFields
        /\ \A f \in MicFields \ {"quiet", "gate", "external"} : mic'[f] = mic[f]
    BY <1>2, <1>8 DEF TimePasses, GateMoves, ExternalMoves, MicFields
  <2> DEFINE y == mic'
  <2>2. DOMAIN y = MicFields /\ \A f \in MicFields \ {"quiet", "gate", "external"} : y[f] = mic[f]
    BY <2>1
  <2> HIDE DEF y
  <2> QED BY <1>1, <1>3, <2>2, <1>2 DEF MicInv, y, Awaited, MicFields
<1>9. CASE ArmedWatchdogFires
  <2> DEFINE y == mic'
  <2>1. /\ DOMAIN y = MicFields /\ y.armed = FALSE
        /\ \A f \in MicFields \ {"armed", "owed", "forced"} : y[f] = mic[f]
    BY <1>2, <1>9 DEF ArmedWatchdogFires, MicFields
  <2> HIDE DEF y
  <2> QED BY <1>1, <1>3, <2>1, <1>2 DEF MicInv, y, Awaited, MicFields
<1>10. CASE ClearRetained
  <2> DEFINE y == mic'
  <2>1. /\ DOMAIN y = MicFields /\ y.kept = Nothing /\ y.pre = <<>> /\ y.cutting = FALSE
             /\ y.cut = <<>>
        /\ \A f \in MicFields \ {"kept", "pre", "cutting", "cut"} : y[f] = mic[f]
    BY <1>2, <1>10 DEF ClearRetained, MicFields
  <2> HIDE DEF y
  <2> QED BY <1>1, <1>3, <2>1, <1>2 DEF MicInv, y, Awaited, MicFields
<1>11. ASSUME NEW y, y = mic', DOMAIN y = MicFields,
              \A f \in MicFields \ {"mode", "from", "dictated", "waiting", "stale"} :
                y[f] = mic[f],
              y.mode \in {"agent", "starting", "transcription", "stopping"}, y.from \in Nat,
              Dictation(y, mic.frames)
       PROVE  MicInv'
  BY <1>1, <1>11, SwitchKeeps DEF MicInv
<1>12. Rising(<<>>, mic.frames) /\ Len(<<>>) = 0 /\ mic.from \in Nat
  BY <1>1, EmptySeq, <1>2 DEF MicTyped, Rising
<1>13. CASE EnterTranscription
  <2> DEFINE y == mic'
  <2>1. /\ DOMAIN y = MicFields /\ y.mode = "starting" /\ y.dictated = <<>> /\ y.from = mic.frames
        /\ \A f \in MicFields \ {"mode", "dictated", "from"} : y[f] = mic[f]
    BY <1>2, <1>13 DEF EnterTranscription, MicFields
  <2>2. mic.mode = "agent" /\ y = mic' BY <1>13 DEF EnterTranscription
  <2> HIDE DEF y
  <2> QED BY <1>1, <1>11, <2>1, <2>2, <1>12 DEF Dictation, MicFields
<1>14. ASSUME NEW opens \in BOOLEAN, TranscriptionStarts(opens) PROVE MicInv'
  <2> DEFINE y == mic'
  <2>0. y = mic' /\ mic.mode = "starting" /\ mic.dictated = <<>>
    BY <1>1, <1>14 DEF TranscriptionStarts, Dictation
  <2>1. CASE opens
    <3>1. /\ DOMAIN y = MicFields /\ y.mode = "transcription" /\ y.waiting = <<>>
          /\ y.dictated = mic.dictated \o mic.waiting
          /\ \A f \in MicFields \ {"mode", "dictated", "waiting"} : y[f] = mic[f]
      BY <1>2, <1>14, <2>1 DEF TranscriptionStarts, MicFields
    <3> HIDE DEF y
    <3>2. y.from = mic.from /\ y.stale = mic.stale BY <3>1 DEF MicFields
    <3>4. Dictation(y, mic.frames)
      BY <1>1, <1>12, <3>1, <3>2, ConcatEmptySeq, <2>0 DEF Dictation, Rising
    <3> QED BY <1>11, <1>12, <2>0, <3>1, <3>2, <3>4
  <2>2. CASE ~opens
    <3>1. /\ DOMAIN y = MicFields /\ y.mode = "agent"
               /\ y.stale = (mic.stale \/ mic.waiting # <<>>)
          /\ \A f \in MicFields \ {"mode", "stale"} : y[f] = mic[f]
      BY <1>2, <1>14, <2>2 DEF TranscriptionStarts, MicFields
    <3> HIDE DEF y
    <3>2. y.from = mic.from /\ y.dictated = mic.dictated /\ y.waiting = mic.waiting
      BY <3>1 DEF MicFields
    <3> QED BY <1>11, <1>12, <2>0, <3>1, <3>2, <1>1 DEF Dictation
  <2> QED BY <2>1, <2>2
<1>15. CASE ExitTranscription
  <2> DEFINE y == mic'
  <2>1. /\ DOMAIN y = MicFields /\ y.mode \in {"stopping", "agent"}
        /\ \A f \in MicFields \ {"mode"} : y[f] = mic[f]
    BY <1>2, <1>15 DEF ExitTranscription, MicFields
  <2>2. y = mic' /\ mic.mode \in {"transcription", "stopping"} BY <1>15 DEF ExitTranscription
  <2> HIDE DEF y
  <2> QED BY <1>11, <1>12, <2>1, <2>2, <1>1 DEF Dictation, MicFields
<1> QED BY <1>4, <1>5, <1>6, <1>7, <1>8, <1>9, <1>10, <1>13, <1>14, <1>15 DEF MicNext

\* A set of natural numbers has a least member.
LEMMA LeastIn ==
  ASSUME NEW S, S \subseteq Nat, S # {}
  PROVE  \E j \in S : \A m \in S : j <= m
<1>1. PICK j \in S : \A m \in S : ~(<<m, j>> \in OpToRel(<, Nat)) BY NatLessThanWellFounded, WFMin
<1>2. ASSUME NEW m \in S PROVE j <= m
  <2>2. m \in Nat /\ j \in Nat /\ ~(m < j) BY <1>1 DEF OpToRel
  <2> QED BY <2>2
<1> QED BY <1>2

\* One transcript more, and the oldest goes where there is no room.
LEMMA BoundedKeeps ==
  ASSUME UserSpeechAssumption, NEW S, IsFiniteSet(S), Cardinality(S) <= MaxSnapshots, NEW x,
         \A r \in S : r.turn \in Nat, x.turn \in Nat
  PROVE  /\ Bounded(S \cup {x}) \subseteq S \cup {x} /\ IsFiniteSet(Bounded(S \cup {x}))
         /\ Cardinality(Bounded(S \cup {x})) <= MaxSnapshots
<1> DEFINE T == S \cup {x}
           B == Bounded(T)
<1>1. MaxSnapshots \in Nat /\ Cardinality(S) \in Nat BY FS_CardinalityType DEF UserSpeechAssumption
<1>2. IsFiniteSet(T) /\ Cardinality(T) \in Nat /\ Cardinality(T) <= Cardinality(S) + 1
  <2>1. IsFiniteSet(T) /\ (Cardinality(T) = Cardinality(S) \/ Cardinality(T) = Cardinality(S) + 1)
    BY FS_AddElement
  <2> QED BY <1>1, <2>1
<1>3. \A r \in T : r.turn \in Nat OBVIOUS
<1>4. x \in T /\ B \subseteq T BY DEF Bounded
<1> HIDE DEF T
<1>5. CASE Cardinality(T) <= MaxSnapshots BY <1>2, <1>4, <1>5 DEF Bounded, T
<1>6. CASE ~(Cardinality(T) <= MaxSnapshots)
  <2> DEFINE turns == {r.turn : r \in T}
  <2>1. turns \subseteq Nat /\ turns # {} BY <1>3, <1>4
  <2>2. \E n \in turns : \A y \in turns : n <= y BY <2>1, LeastIn
  <2>3. PICK o \in T : \A r \in T : o.turn <= r.turn BY <2>2
  <2>5. o \notin B BY <1>3, <2>3, <1>6 DEF Bounded
  <2>6. B \subseteq T \ {o} BY <1>4, <2>5
  <2> HIDE DEF B, turns
  <2>7. IsFiniteSet(T \ {o}) /\ Cardinality(T \ {o}) = Cardinality(T) - 1 BY <1>2, FS_RemoveElement
  <2>8. IsFiniteSet(B) /\ Cardinality(B) <= Cardinality(T \ {o}) /\ Cardinality(B) \in Nat
    BY <2>6, <2>7, FS_Subset, FS_CardinalityType
  <2>9. Cardinality(B) <= MaxSnapshots BY <1>1, <1>2, <2>7, <2>8
  <2> QED BY <1>4, <2>8, <2>9 DEF B, T
<1> QED BY <1>5, <1>6

\* Every step of the shadow.
LEMMA ShadowKeeps ==
  ASSUME UserSpeechAssumption, ShadowInv, ShadowNext
  PROVE  ShadowInv'
<1> DEFINE y == shadow'
           Fields == {"turn", "live", "last", "snaps", "results", "fixed", "late"}
<1>1. /\ DOMAIN shadow = Fields /\ shadow.turn \in Nat /\ shadow.last \in Nat
      /\ shadow.last <= shadow.turn /\ IsFiniteSet(shadow.snaps)
      /\ Cardinality(shadow.snaps) <= MaxSnapshots
      /\ \A r \in shadow.snaps : r.turn \in Nat /\ r.turn <= shadow.last
      /\ DOMAIN shadow.fixed = 1..MaxShadowTurns /\ ~shadow.late
      /\ \A t \in 1..MaxShadowTurns : shadow.fixed[t] \in {0, 1}
      /\ \A t \in 1..MaxShadowTurns :
           shadow.fixed[t] = 1 => t <= shadow.last /\ \A r \in shadow.snaps : r.turn # t
  BY DEF ShadowInv
<1>2. ASSUME DOMAIN y = Fields, y.turn \in Nat, y.last \in Nat, y.last <= y.turn,
             IsFiniteSet(y.snaps), Cardinality(y.snaps) <= MaxSnapshots,
             \A r \in y.snaps : r.turn \in Nat /\ r.turn <= y.last,
             DOMAIN y.fixed = 1..MaxShadowTurns, ~y.late,
             \A t \in 1..MaxShadowTurns : y.fixed[t] \in {0, 1},
             \A t \in 1..MaxShadowTurns :
               y.fixed[t] = 1 => t <= y.last /\ \A r \in y.snaps : r.turn # t
      PROVE  ShadowInv'
  BY <1>2 DEF ShadowInv
<1>3. CASE NoteLiveTranscript
  <2>1. /\ DOMAIN y = Fields /\ y.turn = shadow.turn /\ y.last = shadow.last
        /\ y.snaps = shadow.snaps /\ y.fixed = shadow.fixed /\ y.late = shadow.late
    BY <1>1, <1>3 DEF NoteLiveTranscript
  <2> HIDE DEF y
  <2> QED BY <1>1, <1>2, <2>1
<1>4. CASE ShadowTurnEnds
  <2>1. /\ DOMAIN y = Fields /\ y.turn = shadow.turn + 1 /\ y.last = shadow.last
        /\ y.snaps = shadow.snaps /\ y.fixed = shadow.fixed /\ y.late = shadow.late
    BY <1>1, <1>4 DEF ShadowTurnEnds
  <2> HIDE DEF y
  <2> QED BY <1>1, <1>2, <2>1
<1>5. CASE CommitShadow
  <2> DEFINE x == [turn |-> shadow.turn, said |-> shadow.live]
             S == shadow.snaps \cup {x}
  <2>1. /\ DOMAIN y = Fields /\ y.turn = shadow.turn /\ y.last = shadow.turn
        /\ y.snaps = Bounded(S) /\ y.fixed = shadow.fixed /\ y.late = shadow.late
        /\ shadow.last # shadow.turn
    BY <1>1, <1>5 DEF CommitShadow
  <2>2. x.turn = shadow.turn OBVIOUS
  <2> HIDE DEF x, y
  <2>3. /\ Bounded(S) \subseteq S /\ IsFiniteSet(Bounded(S))
        /\ Cardinality(Bounded(S)) <= MaxSnapshots
    BY <1>1, <2>2, BoundedKeeps
  <2>4. \A r \in y.snaps : r \in shadow.snaps \/ r = x BY <2>1, <2>3
  <2>5. shadow.last < shadow.turn BY <1>1, <2>1
  <2>6. \A r \in y.snaps : r.turn \in Nat /\ r.turn <= y.last
    <3> SUFFICES ASSUME NEW r \in y.snaps PROVE r.turn \in Nat /\ r.turn <= y.last OBVIOUS
    <3>1. CASE r \in shadow.snaps BY <1>1, <2>1, <2>5, <3>1
    <3>2. CASE r = x BY <1>1, <2>1, <2>2, <3>2
    <3> QED BY <2>4, <3>1, <3>2
  <2>7. \A t \in 1..MaxShadowTurns :
          y.fixed[t] = 1 => t <= y.last /\ \A r \in y.snaps : r.turn # t
    <3> SUFFICES ASSUME NEW t \in 1..MaxShadowTurns, y.fixed[t] = 1
                 PROVE  t <= y.last /\ \A r \in y.snaps : r.turn # t
      OBVIOUS
    <3>1. t <= shadow.last /\ \A r \in shadow.snaps : r.turn # t BY <1>1, <2>1
    <3>2. t <= y.last /\ t # shadow.turn BY <1>1, <2>1, <2>5, <3>1
    <3> QED BY <2>2, <2>4, <3>1, <3>2
  <2>8. /\ DOMAIN y = Fields /\ y.turn \in Nat /\ y.last \in Nat /\ y.last <= y.turn
        /\ IsFiniteSet(y.snaps) /\ Cardinality(y.snaps) <= MaxSnapshots
    BY <1>1, <2>1, <2>3
  <2> QED BY <1>2, <2>6, <2>7, <2>8, <1>1, <2>1
<1>6. ASSUME NEW t \in shadow.results, NEW differs \in BOOLEAN, NEW more \in BOOLEAN,
             HandleShadowTranscript(t, differs, more)
      PROVE  ShadowInv'
  <2> DEFINE said == \E r \in shadow.snaps : r.turn = t /\ r.said
             results == IF more THEN shadow.results ELSE shadow.results \ {t}
             snaps == {r \in shadow.snaps : r.turn # t}
             rest == [shadow EXCEPT !.results = results, !.snaps = snaps]
  <2>1. /\ differs => said
        /\ y = IF differs /\ t = shadow.turn THEN Corrected(rest, t) ELSE rest
    BY <1>6 DEF HandleShadowTranscript
  <2>2. /\ DOMAIN rest = Fields /\ rest.turn = shadow.turn /\ rest.last = shadow.last
        /\ rest.snaps = snaps /\ rest.fixed = shadow.fixed /\ rest.late = shadow.late
    BY <1>1
  <2>3. IsFiniteSet(snaps) /\ Cardinality(snaps) <= MaxSnapshots
    <3>1. snaps \subseteq shadow.snaps OBVIOUS
    <3> HIDE DEF snaps
    <3> QED BY <1>1, FS_CardinalityType, <3>1, FS_Subset DEF UserSpeechAssumption
  <2>4. \A r \in snaps : r \in shadow.snaps /\ r.turn # t OBVIOUS
  <2> HIDE DEF rest, snaps
  <2>5. CASE ~(differs /\ t = shadow.turn)
    <3>1. /\ DOMAIN y = Fields /\ y.turn = shadow.turn /\ y.last = shadow.last
          /\ y.snaps = snaps /\ y.fixed = shadow.fixed /\ y.late = shadow.late
      BY <2>1, <2>2, <2>5
    <3> HIDE DEF y, Fields
    <3> QED BY <1>1, <1>2, <2>3, <2>4, <3>1
  <2>6. CASE differs /\ t = shadow.turn
    <3>1. y = [rest EXCEPT !.fixed = [rest.fixed EXCEPT ![t] = rest.fixed[t] + 1],
                           !.late = rest.late \/ t # shadow.turn]
      BY <2>1, <2>6 DEF Corrected
    <3> DEFINE fixed == [shadow.fixed EXCEPT ![t] = shadow.fixed[t] + 1]
    <3>2. /\ DOMAIN y = Fields /\ y.turn = shadow.turn /\ y.last = shadow.last
          /\ y.snaps = snaps /\ y.fixed = fixed /\ ~y.late
      BY <1>1, <2>2, <2>6, <3>1
    <3> HIDE DEF y, Fields
    <3>3. PICK r \in shadow.snaps : r.turn = t BY <2>1, <2>6
    <3>4. t <= shadow.last /\ t \in Nat BY <1>1, <3>3
    <3>6. DOMAIN fixed = 1..MaxShadowTurns BY <1>1
    <3>7. \A u \in 1..MaxShadowTurns : u # t => fixed[u] = shadow.fixed[u] BY <1>1
    <3>8. t \in 1..MaxShadowTurns => fixed[t] = 1 BY <1>1, <3>3
    <3> HIDE DEF fixed
    <3>9. \A u \in 1..MaxShadowTurns : fixed[u] \in {0, 1} BY <1>1, <3>7, <3>8
    <3>10. \A u \in 1..MaxShadowTurns :
             fixed[u] = 1 => u <= shadow.last /\ \A q \in snaps : q.turn # u
      BY <1>1, <2>4, <3>4, <3>7
    <3> QED BY <1>1, <1>2, <2>3, <2>4, <3>2, <3>6, <3>9, <3>10
  <2> QED BY <2>5, <2>6
<1> QED BY <1>3, <1>4, <1>5, <1>6 DEF ShadowNext

\* Nothing has been said.
LEMMA UserSpeechStarts ==
  ASSUME UserSpeechAssumption, UserSpeechInit
  PROVE  MicInv /\ ShadowInv
<1>1. MicInv
  <2>1. /\ DOMAIN mic = MicFields /\ mic.frames = 0 /\ mic.active = FALSE /\ mic.seg = 0
        /\ mic.open = FALSE /\ mic.cutting = FALSE /\ mic.cut = <<>> /\ mic.pre = <<>>
        /\ mic.kept = Nothing /\ mic.waiting = <<>> /\ mic.mode = "agent" /\ mic.armed = FALSE
        /\ mic.heard = <<>> /\ mic.dictated = <<>> /\ mic.from = 0 /\ mic.ends = 0
    BY DEF UserSpeechInit, MicInit, MicFields
  <2>2. /\ Nothing.seg = 0 /\ Nothing.frames = <<>> /\ <<>> \in Seq(Nat) /\ Len(<<>>) = 0
        /\ 1..0 = {}
    BY EmptySeq DEF Nothing
  <2>3. MicTyped(mic) /\ Segments(mic)
    <3>2. MicTyped(mic)
      <4>3. mic.active \in BOOLEAN /\ mic.open \in BOOLEAN BY <2>1
      <4> QED BY <2>1, <4>3, <2>2 DEF MicTyped
    <3>3. Segments(mic) BY <2>1 DEF Segments
    <3> QED BY <3>2, <3>3
  <2>6. Dictation(mic, mic.frames) BY <2>1, <2>2 DEF Dictation, Rising
  <2> QED BY <2>1, <2>3, <2>6, <2>2 DEF MicInv, MicSound, Retained, Awaited, EndAlike
<1>2. ShadowInv BY FS_EmptySet DEF UserSpeechInit, ShadowInit, UserSpeechAssumption, ShadowInv
<1> QED BY <1>1, <1>2

\* The inductive invariant of the way of the microphone and of the shadow.
THEOREM UserSpeechInductive == UserSpeechSpec => [](MicInv /\ ShadowInv)
<1>1. UserSpeechInit => MicInv /\ ShadowInv BY UserSpeechStarts, UserSpeechAssumption
<1>2. (MicInv /\ ShadowInv) /\ [UserSpeechNext]_<<mic, shadow>> => (MicInv /\ ShadowInv)'
  <2> SUFFICES ASSUME MicInv, ShadowInv, [UserSpeechNext]_<<mic, shadow>>
               PROVE  (MicInv /\ ShadowInv)'
    OBVIOUS
  <2>1. CASE MicNext /\ UNCHANGED shadow BY <2>1, MicKeeps, UserSpeechAssumption DEF ShadowInv
  <2>2. CASE ShadowNext /\ UNCHANGED mic
    BY <2>2, ShadowKeeps, UserSpeechAssumption DEF MicInv, MicSound, MicTyped, Segments,
       Retained,
        Awaited, Dictation
  <2>3. CASE UNCHANGED <<mic, shadow>>
    BY <2>3 DEF MicInv, MicSound, MicTyped, Segments, Retained, Awaited, Dictation,
       ShadowInv
  <2> QED BY <2>1, <2>2, <2>3 DEF UserSpeechNext
<1> QED BY <1>1, <1>2, PTL DEF UserSpeechSpec

\* What the user said is booked once and corrected at most once: detector, ledger and
\* retainer agree on the segment, what is kept of it ends as the model heard it, and a
\* dictation hears its frames in order, whatever switches, resets and answers interleave.
THEOREM UserIsBooked == UserSpeechSpec => []UserIsHeard
<1>1. MicInv /\ ShadowInv => UserIsHeard
  <2> SUFFICES ASSUME MicInv, ShadowInv PROVE SpeechIsAccounted /\ ShadowCorrectsOnce
    BY DEF UserIsHeard
  <2>1. /\ MicTyped(mic) /\ Segments(mic) /\ Retained(mic) /\ Awaited(mic)
        /\ Dictation(mic, mic.frames) /\ (mic.active <=> mic.open)
    BY DEF MicInv, MicSound
  <2>4. /\ DOMAIN mic.dictated = 1..Len(mic.dictated)
        /\ \A i, j \in 1..Len(mic.dictated) : i < j => mic.dictated[i] < mic.dictated[j]
    BY <2>1, LenProperties DEF Dictation, Rising
  <2>6. SpeechIsAccounted
    BY <2>1, <2>4, AlikeTails DEF SpeechIsAccounted, Awaited, MicTyped, Segments, Retained,
        Dictation
  <2>7. ShadowCorrectsOnce BY DEF ShadowInv, ShadowCorrectsOnce
  <2> QED BY <2>6, <2>7
<1> QED BY <1>1, UserSpeechInductive, PTL
=============================================================================
