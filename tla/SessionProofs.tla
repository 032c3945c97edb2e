---------------------------- MODULE SessionProofs ---------------------------
(***************************************************************************)
(* What holds a session up. First a server of guarded connections, for any *)
(* number of them and any limits: each has a sound record, whatever its    *)
(* handlers interleave with, and stop() leaves none behind. Then the       *)
(* recovery of the upstream: one inductive invariant over the session      *)
(* record and the stack of synchronous code, kept by every action, from    *)
(* which the books of the reconnects follow and that a dial lands only     *)
(* where it began. Both are proved action by action, one lemma for each.   *)
(***************************************************************************)
EXTENDS HostedConnections, UpstreamRecovery, FiniteSetTheorems, TLAPS

(* Hosted connections: the server with its guards, and the manager.        *)

HostConnRecord ==
  [ws : {"none", "open", "closing", "closed"},
   stage : {"none", "validating", "disposing", "setup", "announcing", "settled"},
   pre : BOOLEAN, live : BOOLEAN, gone : BOOLEAN, listed : BOOLEAN, torn : BOOLEAN,
   claimed : BOOLEAN, releases : Nat, work : BOOLEAN]

HostSessionRecord ==
  [stage : {"none", "importing", "listed", "removed"},
   user : Users \cup {CHOOSE u \in Users : TRUE}, calls : Nat, closed : BOOLEAN]

\* What the application holds for a connection: nothing, its resources, or nothing
\* any more.
HostIdle(c) ==
  ~c.claimed /\ ~c.live /\ ~c.listed /\ ~c.torn /\ ~c.work /\ c.releases = 0
HostHeld(c) ==
  c.claimed /\ c.listed /\ ~c.torn /\ ~c.work /\ c.releases = 0
HostReleased(c) ==
  c.claimed /\ ~c.listed /\ c.releases = 1

HostConnSound(c) ==
  /\ c.stage \in {"none", "validating"} => HostIdle(c)
  /\ c.stage = "disposing" => HostReleased(c) /\ ~c.live
  /\ c.stage = "setup" => HostHeld(c) /\ ~c.live
  /\ c.stage = "announcing" => c.live
  /\ c.stage = "settled" => HostIdle(c) \/ c.live \/ HostReleased(c)
  /\ c.live => (HostHeld(c) /\ c.ws # "closed") \/ (HostReleased(c) /\ c.torn)
  /\ c.ws = "none" => c.stage = "none"

Late == stopping \in {"work", "server", "done"}

\* What stop() has waited for is over, and what it tore down stays released.
HostStopSound ==
  \A k \in HostConns :
    /\ stopping = "validations" /\ conn[k].stage \notin {"none", "settled"}
         => k \in awaitedSetups
    /\ Late => /\ conn[k].stage \in {"none", "settled"}
               /\ conn[k].claimed => HostReleased(conn[k])
    /\ stopping = "work" /\ conn[k].work => k \in awaitedSetups
    /\ stopping \in {"server", "done"} => ~conn[k].work

ServerInv ==
  /\ conn \in [HostConns -> HostConnRecord]
  /\ guarded \in BOOLEAN
  /\ stopping \in {"no", "validations", "work", "server", "done"}
  /\ \A k \in HostConns : HostConnSound(conn[k])
  /\ HostStopSound

BooksInv ==
  /\ session \in [Sessions -> HostSessionRecord]
  /\ BooksKeepOpenSessions

HostedInv == ServerInv /\ BooksInv

-----------------------------------------------------------------------------

\* What teardownOnce() does to a connection, the first time and again.
LEMMA HostTeardownFields ==
  ASSUME guarded \in BOOLEAN, NEW c \in HostConnRecord, NEW t, t = TeardownOnce(c)
  PROVE  /\ t \in HostConnRecord /\ t.ws = c.ws /\ t.stage = c.stage /\ t.live = c.live
         /\ t.claimed = c.claimed /\ t.torn
         /\ c.torn => t = c
         /\ ~c.torn => ~t.listed /\ t.releases = c.releases + 1
<1> DEFINE n == c.releases + 1
<1> DEFINE d == [c EXCEPT !.torn = TRUE, !.listed = FALSE, !.releases = n, !.work = guarded]
<1>1. n \in Nat BY DEF HostConnRecord
<1>2. t = IF c.torn THEN c ELSE d BY DEF TeardownOnce
<1> HIDE DEF n
<1>3. d \in HostConnRecord BY <1>1, Zenon DEF HostConnRecord
<1>4. /\ d.ws = c.ws /\ d.stage = c.stage /\ d.live = c.live /\ d.claimed = c.claimed
      /\ d.torn = TRUE /\ d.listed = FALSE /\ d.releases = n
  BY <1>1, Zenon DEF HostConnRecord
<1> HIDE DEF d
<1> QED BY <1>2, <1>3, <1>4 DEF n

\* Closing a socket touches nothing else.
LEMMA HostCloseWsFields ==
  ASSUME NEW c \in HostConnRecord, NEW t, t = CloseWs(c)
  PROVE  /\ t \in HostConnRecord /\ t.stage = c.stage /\ t.live = c.live
         /\ t.claimed = c.claimed /\ t.torn = c.torn /\ t.listed = c.listed
         /\ t.releases = c.releases /\ t.work = c.work /\ t.pre = c.pre /\ t.gone = c.gone
         /\ t.ws = IF c.ws = "open" THEN "closing" ELSE c.ws
BY DEF CloseWs, HostConnRecord

\* A step of one connection that leaves it sound, and starts nothing that stop()
\* does not know of, keeps the invariant.
LEMMA HostOneConnKeeps ==
  ASSUME HostedInv, NEW k \in HostConns, NEW d \in HostConnRecord,
         conn' = [conn EXCEPT ![k] = d],
         UNCHANGED <<guarded, stopping, awaitedSetups, managerVars>>,
         HostConnSound(d),
         d.stage \in {"none", "settled"} \/ conn[k].stage \notin {"none", "settled"}
           \/ stopping = "no",
         Late => /\ d.stage \in {"none", "settled"}
                 /\ d.claimed => HostReleased(d)
                 /\ d.work => conn[k].work
  PROVE  HostedInv'
<1> USE DEF HostedInv, ServerInv
<1>1. /\ conn' \in [HostConns -> HostConnRecord] /\ conn'[k] = d
      /\ \A j \in HostConns : j # k => conn'[j] = conn[j]
  OBVIOUS
<1>2. \A j \in HostConns : HostConnSound(conn'[j]) BY <1>1
<1>3. HostStopSound'
  <2> SUFFICES ASSUME NEW j \in HostConns
               PROVE  /\ stopping = "validations" /\ conn'[j].stage \notin {"none", "settled"}
                           => j \in awaitedSetups
                      /\ Late => /\ conn'[j].stage \in {"none", "settled"}
                                 /\ conn'[j].claimed => HostReleased(conn'[j])
                      /\ stopping = "work" /\ conn'[j].work => j \in awaitedSetups
                      /\ stopping \in {"server", "done"} => ~conn'[j].work
    BY Zenon DEF HostStopSound, Late
  <2>1. CASE j = k BY <1>1, <2>1 DEF HostStopSound, Late
  <2>2. CASE j # k BY <1>1, <2>2 DEF HostStopSound
  <2> QED BY <2>1, <2>2
<1>4. BooksInv' BY DEF BooksInv, managerVars, BooksKeepOpenSessions
<1> QED BY <1>1, <1>2, <1>3, <1>4

\* One lemma per action: each keeps the invariant.
LEMMA HostHandleKeeps == ASSUME HostedInv, NEW k \in HostConns,
  HandleConnection(k) PROVE HostedInv'
<1> DEFINE c == conn[k]
<1> DEFINE a == [c EXCEPT !.ws = "closing", !.stage = "settled"]
<1> DEFINE b == [c EXCEPT !.ws = "open", !.stage = "validating", !.pre = TRUE]
<1> DEFINE e == [c EXCEPT !.ws = "open", !.stage = "settled", !.live = TRUE, !.listed = TRUE,
                          !.claimed = TRUE]
<1> DEFINE d == IF stopping # "no" THEN a ELSE IF guarded THEN b ELSE e
<1>1. c \in HostConnRecord /\ c.stage = "none" /\ HostIdle(c)
  BY DEF HostedInv, ServerInv, HostConnSound, HandleConnection
<1>2. conn' = [conn EXCEPT ![k] = d] /\ UNCHANGED <<guarded, stopping, awaitedSetups,
      managerVars>>
  BY DEF HandleConnection
<1> HIDE DEF c
<1>3. a \in HostConnRecord /\ HostIdle(a) /\ a.stage = "settled" /\ a.ws = "closing"
  BY <1>1 DEF HostConnRecord, HostIdle
<1>4. b \in HostConnRecord /\ HostIdle(b) /\ b.stage = "validating" /\ b.ws = "open"
  BY <1>1 DEF HostConnRecord, HostIdle
<1>5. e \in HostConnRecord /\ HostHeld(e) /\ e.stage = "settled" /\ e.live /\ e.ws = "open"
  BY <1>1 DEF HostConnRecord, HostIdle, HostHeld
<1> HIDE DEF a, b, e
<1>6. d \in HostConnRecord /\ HostConnSound(d) BY <1>3, <1>4, <1>5 DEF HostConnSound, HostIdle
<1>7. stopping # "no" => d.stage = "settled" /\ HostIdle(d) BY <1>3
<1> HIDE DEF d
<1> QED BY <1>2, <1>6, <1>7, HostOneConnKeeps DEF HostIdle, Late

\* A guard that says no, or throws.
LEMMA HostValidationFailsKeeps ==
  ASSUME HostedInv, NEW k \in HostConns, ValidationFails(k) PROVE HostedInv'
<1> DEFINE c == conn[k]
<1> DEFINE a == [c EXCEPT !.stage = "settled", !.pre = FALSE]
<1> DEFINE d == CloseWs(a)
<1>1. c \in HostConnRecord /\ c.stage = "validating" /\ HostIdle(c) /\ c.ws # "none"
  BY DEF HostedInv, ServerInv, HostConnSound, ValidationFails
<1>2. conn' = [conn EXCEPT ![k] = d] /\ UNCHANGED <<guarded, stopping, awaitedSetups,
      managerVars>>
  BY DEF ValidationFails
<1>3. ~Late BY <1>1 DEF HostedInv, ServerInv, HostStopSound
<1> HIDE DEF c
<1>4. a \in HostConnRecord /\ HostIdle(a) /\ a.stage = "settled" /\ a.ws = c.ws
  BY <1>1 DEF HostConnRecord, HostIdle
<1> HIDE DEF a
<1>5. d \in HostConnRecord /\ HostIdle(d) /\ d.stage = "settled" /\ d.ws # "none"
  BY <1>1, <1>4, HostCloseWsFields DEF HostIdle
<1> HIDE DEF d
<1>6. HostConnSound(d) BY <1>5 DEF HostConnSound, HostIdle
<1> QED BY <1>2, <1>3, <1>5, <1>6, HostOneConnKeeps

\* A guard that says yes to a socket that may have gone meanwhile.
LEMMA HostValidationSucceedsKeeps ==
  ASSUME HostedInv, NEW k \in HostConns, ValidationSucceeds(k) PROVE HostedInv'
<1> DEFINE c == conn[k]
<1> DEFINE n == c.releases + 1
<1> DEFINE a == [c EXCEPT !.claimed = TRUE, !.stage = "disposing", !.pre = FALSE,
                          !.releases = n, !.work = TRUE]
<1> DEFINE b == [c EXCEPT !.claimed = TRUE, !.stage = "setup", !.listed = TRUE]
<1> DEFINE d == IF ConnLost(c) THEN a ELSE b
<1>1. c \in HostConnRecord /\ c.stage = "validating" /\ HostIdle(c) /\ c.ws # "none"
  BY DEF HostedInv, ServerInv, HostConnSound, ValidationSucceeds
<1>2. conn' = [conn EXCEPT ![k] = d] /\ UNCHANGED <<guarded, stopping, awaitedSetups,
      managerVars>>
  BY DEF ValidationSucceeds
<1>3. ~Late /\ conn[k].stage = "validating" BY <1>1 DEF HostedInv, ServerInv, HostStopSound
<1>4. n = 1 BY <1>1 DEF HostIdle
<1> HIDE DEF c, n
<1>5. a \in HostConnRecord /\ HostReleased(a) /\ ~a.live /\ a.stage = "disposing" /\ a.ws = c.ws
  BY <1>1, <1>4 DEF HostConnRecord, HostIdle, HostReleased
<1>6. b \in HostConnRecord /\ HostHeld(b) /\ ~b.live /\ b.stage = "setup" /\ b.ws = c.ws
  BY <1>1 DEF HostConnRecord, HostIdle, HostHeld
<1> HIDE DEF a, b
<1>7. d \in HostConnRecord /\ HostConnSound(d) BY <1>1, <1>5, <1>6 DEF HostConnSound
<1> HIDE DEF d
<1> QED BY <1>2, <1>3, <1>7, HostOneConnKeeps

\* The disposal of resources nobody waits for any more.
LEMMA HostDisposalKeeps ==
  ASSUME HostedInv, NEW k \in HostConns, DisposalSettles(k) PROVE HostedInv'
<1> DEFINE c == conn[k]
<1> DEFINE a == [c EXCEPT !.stage = "settled", !.work = FALSE]
<1> DEFINE d == CloseWs(a)
<1>1. c \in HostConnRecord /\ c.stage = "disposing" /\ HostReleased(c) /\ ~c.live /\ c.ws # "none"
  BY DEF HostedInv, ServerInv, HostConnSound, DisposalSettles
<1>2. conn' = [conn EXCEPT ![k] = d] /\ UNCHANGED <<guarded, stopping, awaitedSetups,
      managerVars>>
  BY DEF DisposalSettles
<1>3. ~Late BY <1>1 DEF HostedInv, ServerInv, HostStopSound
<1> HIDE DEF c
<1>4. a \in HostConnRecord /\ HostReleased(a) /\ ~a.live /\ a.stage = "settled" /\ a.ws = c.ws
  BY <1>1 DEF HostConnRecord, HostReleased
<1> HIDE DEF a
<1>5. d \in HostConnRecord /\ HostReleased(d) /\ ~d.live /\ d.stage = "settled" /\ d.ws # "none"
  BY <1>1, <1>4, HostCloseWsFields DEF HostReleased
<1> HIDE DEF d
<1>6. HostConnSound(d) BY <1>5 DEF HostConnSound
<1> QED BY <1>2, <1>3, <1>5, <1>6, HostOneConnKeeps

\* The setup completes, for a live socket or for one that has closed.
LEMMA HostSetupKeeps == ASSUME HostedInv, NEW k \in HostConns, SetupSettles(k) PROVE HostedInv'
<1> DEFINE c == conn[k]
<1> DEFINE a == [c EXCEPT !.stage = "settled", !.pre = FALSE]
<1> DEFINE t == TeardownOnce(a)
<1> DEFINE x == CloseWs(t)
<1> DEFINE b == [c EXCEPT !.stage = "announcing", !.pre = FALSE, !.live = TRUE]
<1>1. c \in HostConnRecord /\ c.stage = "setup" /\ HostHeld(c) /\ ~c.live /\ c.ws # "none"
      /\ guarded \in BOOLEAN
  BY DEF HostedInv, ServerInv, HostConnSound, SetupSettles
<1>2. PICK ok \in BOOLEAN : conn' = [conn EXCEPT ![k] = IF ConnLost(c) \/ ~ok THEN x ELSE b]
  BY DEF SetupSettles
<1>3. UNCHANGED <<guarded, stopping, awaitedSetups, managerVars>> BY DEF SetupSettles
<1>4. ~Late /\ conn[k].stage = "setup" BY <1>1 DEF HostedInv, ServerInv, HostStopSound
<1> DEFINE d == IF ConnLost(c) \/ ~ok THEN x ELSE b
<1> HIDE DEF c
<1>5. a \in HostConnRecord /\ HostHeld(a) /\ ~a.live /\ a.stage = "settled" /\ a.ws = c.ws
  BY <1>1 DEF HostConnRecord, HostHeld
<1>6. b \in HostConnRecord /\ HostHeld(b) /\ b.live /\ b.stage = "announcing" /\ b.ws = c.ws
  BY <1>1 DEF HostConnRecord, HostHeld
<1> HIDE DEF a, b
<1>7. t \in HostConnRecord /\ HostReleased(t) /\ ~t.live /\ t.stage = "settled" /\ t.ws = c.ws
  BY <1>1, <1>5, HostTeardownFields DEF HostHeld, HostReleased
<1> HIDE DEF t
<1>8. x \in HostConnRecord /\ HostReleased(x) /\ ~x.live /\ x.stage = "settled" /\ x.ws # "none"
  BY <1>1, <1>7, HostCloseWsFields DEF HostReleased
<1> HIDE DEF x
<1>10. d \in HostConnRecord /\ HostConnSound(d) BY <1>1, <1>6, <1>8 DEF HostConnSound, ConnLost
<1> HIDE DEF d
<1> QED BY <1>2, <1>3, <1>4, <1>10, HostOneConnKeeps DEF d, c

\* The application is told of the connection.
LEMMA HostAnnouncementKeeps ==
  ASSUME HostedInv, NEW k \in HostConns, AnnouncementSettles(k) PROVE HostedInv'
<1> DEFINE c == conn[k]
<1> DEFINE d == [c EXCEPT !.stage = "settled"]
<1>1. c \in HostConnRecord /\ HostConnSound(c) /\ c.live /\ c.ws # "none"
      /\ c.stage = "announcing"
  BY DEF HostedInv, ServerInv, HostConnSound, AnnouncementSettles
<1>2. conn' = [conn EXCEPT ![k] = d] /\ UNCHANGED <<guarded, stopping, awaitedSetups,
      managerVars>>
  BY DEF AnnouncementSettles, HostedInv, ServerInv
<1>3. ~Late BY <1>1 DEF HostedInv, ServerInv, HostStopSound
<1> HIDE DEF c
<1>4. /\ d \in HostConnRecord /\ d.stage = "settled" /\ d.ws = c.ws /\ d.live = c.live
      /\ d.claimed = c.claimed /\ d.listed = c.listed /\ d.torn = c.torn
      /\ d.work = c.work /\ d.releases = c.releases
  BY <1>1 DEF HostConnRecord
<1> HIDE DEF d
<1>5. HostConnSound(d) BY <1>1, <1>4 DEF HostConnSound, HostIdle, HostHeld, HostReleased
<1> QED BY <1>2, <1>3, <1>4, <1>5, HostOneConnKeeps

\* A teardown that was guarded completes.
LEMMA HostTeardownKeeps ==
  ASSUME HostedInv, NEW k \in HostConns, TeardownSettles(k) PROVE HostedInv'
<1> DEFINE c == conn[k]
<1> DEFINE d == [c EXCEPT !.work = FALSE]
<1>1. c \in HostConnRecord /\ HostConnSound(c) /\ c.stage # "disposing"
  BY DEF HostedInv, ServerInv, TeardownSettles
<1>2. conn' = [conn EXCEPT ![k] = d] /\ UNCHANGED <<guarded, stopping, awaitedSetups,
      managerVars>>
  BY DEF TeardownSettles, HostedInv, ServerInv
<1>3. Late => c.stage \in {"none", "settled"} /\ (c.claimed => HostReleased(c))
  BY DEF HostedInv, ServerInv, HostStopSound
<1> HIDE DEF c
<1>4. /\ d \in HostConnRecord /\ d.stage = c.stage /\ d.ws = c.ws /\ d.live = c.live
      /\ d.claimed = c.claimed /\ d.listed = c.listed /\ d.torn = c.torn
      /\ ~d.work /\ d.releases = c.releases
  BY <1>1 DEF HostConnRecord
<1>5. c = conn[k] BY DEF c
<1> HIDE DEF d
<1> QED BY <1>2, <1>3, <1>4, <1>5, HostOneConnKeeps, <1>1 DEF HostReleased, HostConnSound, HostIdle,
      HostHeld

\* The peer closes its socket.
LEMMA HostPeerKeeps == ASSUME HostedInv, NEW k \in HostConns, PeerCloses(k) PROVE HostedInv'
<1> DEFINE c == conn[k]
<1> DEFINE d == [c EXCEPT !.ws = "closing"]
<1>1. c \in HostConnRecord /\ HostConnSound(c) /\ c.ws = "open"
  BY DEF HostedInv, ServerInv, PeerCloses
<1>2. conn' = [conn EXCEPT ![k] = d] /\ UNCHANGED <<guarded, stopping, awaitedSetups,
      managerVars>>
  BY DEF PeerCloses, HostedInv, ServerInv
<1>3. Late => c.stage \in {"none", "settled"} /\ (c.claimed => HostReleased(c))
  BY DEF HostedInv, ServerInv, HostStopSound
<1> HIDE DEF c
<1>4. /\ d \in HostConnRecord /\ d.stage = c.stage /\ d.ws = "closing" /\ d.live = c.live
      /\ d.claimed = c.claimed /\ d.listed = c.listed /\ d.torn = c.torn
      /\ d.work = c.work /\ d.releases = c.releases
  BY <1>1 DEF HostConnRecord
<1>5. c = conn[k] BY DEF c
<1> HIDE DEF d
<1> QED BY <1>2, <1>3, <1>4, <1>5, HostOneConnKeeps, <1>1 DEF HostReleased, HostConnSound, HostIdle,
      HostHeld

\* What the end of a live socket does to its connection.
LEMMA HostLiveTeardown ==
  ASSUME guarded \in BOOLEAN, NEW c \in HostConnRecord, NEW t, t = TeardownOnce(c), c.live,
         c.stage \in {"announcing", "settled"}, c.ws # "none",
         HostHeld(c) \/ (HostReleased(c) /\ c.torn)
  PROVE  t \in HostConnRecord /\ HostConnSound(t) /\ t.stage = c.stage /\ HostReleased(t)
<1>1. /\ t \in HostConnRecord /\ t.ws = c.ws /\ t.stage = c.stage /\ t.live = c.live
      /\ t.claimed = c.claimed /\ t.torn
      /\ c.torn => t = c
      /\ ~c.torn => ~t.listed /\ t.releases = c.releases + 1
  <2>1. t = TeardownOnce(c) /\ guarded \in BOOLEAN OBVIOUS
  <2>5. c.torn => t = c BY <2>1, HostTeardownFields
  <2>6. ~c.torn => ~t.listed /\ t.releases = c.releases + 1 BY <2>1, HostTeardownFields
  <2> QED BY <2>5, <2>6, <2>1, HostTeardownFields
<1>2. CASE c.torn BY <1>1, <1>2 DEF HostHeld, HostConnSound
<1>3. CASE ~c.torn BY <1>3, <1>1 DEF HostHeld, HostReleased, HostConnSound
<1> QED BY <1>2, <1>3

\* The close event, before and after the announcement.
LEMMA HostCloseKeeps == ASSUME HostedInv, NEW k \in HostConns, CloseEvent(k) PROVE HostedInv'
<1> DEFINE c == conn[k]
<1> DEFINE g == c.gone \/ c.pre
<1> DEFINE e == [c EXCEPT !.ws = "closed", !.gone = g]
<1> DEFINE t == TeardownOnce(e)
<1>1. c \in HostConnRecord /\ HostConnSound(c) /\ c.ws = "closing" /\ guarded \in BOOLEAN
  BY DEF HostedInv, ServerInv, CloseEvent
<1>2. conn' = [conn EXCEPT ![k] = IF e.live THEN t ELSE e]
      /\ UNCHANGED <<guarded, stopping, awaitedSetups, managerVars>>
  BY DEF CloseEvent
<1>3. Late => c.stage \in {"none", "settled"} /\ (c.claimed => HostReleased(c))
  BY DEF HostedInv, ServerInv, HostStopSound
<1>4. g \in BOOLEAN OBVIOUS
<1>0. c = conn[k] OBVIOUS
<1> HIDE DEF c, g
<1>5. /\ e \in HostConnRecord /\ e.stage = c.stage /\ e.ws = "closed" /\ e.live = c.live
      /\ e.claimed = c.claimed /\ e.listed = c.listed /\ e.torn = c.torn
      /\ e.work = c.work /\ e.releases = c.releases
  BY <1>1, <1>4 DEF HostConnRecord
<1> HIDE DEF e
<1>6. CASE c.live
  <2>1. /\ e.live /\ e.stage \in {"announcing", "settled"}
        /\ HostHeld(e) \/ (HostReleased(e) /\ e.torn)
    BY <1>1, <1>5, <1>6 DEF HostConnSound, HostHeld, HostReleased, HostIdle, HostConnRecord
  <2>2. t \in HostConnRecord /\ HostConnSound(t) /\ t.stage = e.stage /\ HostReleased(t)
    BY <1>1, <1>5, <2>1, HostLiveTeardown
  <2>4. Late => t = e
    BY <1>1, <1>5, HostTeardownFields, <1>3, <1>6 DEF HostConnSound, HostHeld, HostReleased
  <2>5. conn' = [conn EXCEPT ![k] = t] BY <1>2, <2>1
  <2> HIDE DEF t
  <2>7. Late => /\ t.stage \in {"none", "settled"}
                /\ t.claimed => HostReleased(t)
                /\ t.work => conn[k].work
    BY <1>0, <1>2, <1>3, <1>5, <2>2, <2>4
  <2> QED BY <1>0, <1>2, <1>3, <2>2, <2>5, <2>7, HostOneConnKeeps, <1>5
<1>7. CASE ~c.live
  BY <1>1, <1>5, <1>7, <1>2, <1>3, <1>0, HostOneConnKeeps DEF HostConnSound, HostIdle, HostHeld,
      HostReleased
<1> QED BY <1>6, <1>7

\* The error event.
LEMMA HostErrorKeeps == ASSUME HostedInv, NEW k \in HostConns, ErrorEvent(k) PROVE HostedInv'
<1> DEFINE c == conn[k]
<1> DEFINE g == c.gone \/ c.pre
<1> DEFINE b == [c EXCEPT !.gone = g]
<1> DEFINE e == CloseWs(b)
<1> DEFINE t == TeardownOnce(e)
<1>0. c = conn[k] OBVIOUS
<1>1. c \in HostConnRecord /\ HostConnSound(c) /\ c.ws \in {"open", "closing"}
      /\ guarded \in BOOLEAN
  BY DEF HostedInv, ServerInv, ErrorEvent
<1>2. conn' = [conn EXCEPT ![k] = IF guarded /\ e.live THEN t ELSE e]
      /\ UNCHANGED <<guarded, stopping, awaitedSetups, managerVars>>
  BY DEF ErrorEvent
<1>3. Late => c.stage \in {"none", "settled"} /\ (c.claimed => HostReleased(c))
  BY DEF HostedInv, ServerInv, HostStopSound
<1>4. g \in BOOLEAN OBVIOUS
<1> HIDE DEF c, g
<1>5. /\ b \in HostConnRecord /\ b.stage = c.stage /\ b.ws = c.ws /\ b.live = c.live
      /\ b.claimed = c.claimed /\ b.listed = c.listed /\ b.torn = c.torn
      /\ b.work = c.work /\ b.releases = c.releases
  BY <1>1, <1>4 DEF HostConnRecord
<1> HIDE DEF b
<1>6. /\ e \in HostConnRecord /\ e.stage = c.stage /\ e.ws = "closing" /\ e.live = c.live
      /\ e.claimed = c.claimed /\ e.listed = c.listed /\ e.torn = c.torn
      /\ e.work = c.work /\ e.releases = c.releases
  BY <1>1, <1>5, HostCloseWsFields
<1> HIDE DEF e
<1>7. CASE guarded /\ c.live
  <2>1. /\ e.live /\ e.stage \in {"announcing", "settled"}
        /\ HostHeld(e) \/ (HostReleased(e) /\ e.torn)
    BY <1>1, <1>6, <1>7 DEF HostConnSound, HostHeld, HostReleased, HostIdle, HostConnRecord
  <2>2. t \in HostConnRecord /\ HostConnSound(t) /\ t.stage = e.stage /\ HostReleased(t)
    BY <1>1, <1>6, <2>1, HostLiveTeardown
  <2>4. Late => t = e
    BY <1>1, <1>6, HostTeardownFields, <1>3, <1>7 DEF HostConnSound, HostHeld, HostReleased
  <2>5. conn' = [conn EXCEPT ![k] = t] BY <1>2, <1>7, <2>1
  <2> HIDE DEF t
  <2>7. Late => /\ t.stage \in {"none", "settled"}
                /\ t.claimed => HostReleased(t)
                /\ t.work => conn[k].work
    BY <1>0, <1>2, <1>3, <1>6, <2>2, <2>4
  <2> QED BY <1>0, <1>2, <1>3, <2>2, <2>5, <2>7, HostOneConnKeeps, <1>6
<1>8. CASE ~(guarded /\ c.live)
  <2>1. HostConnSound(e) BY <1>1, <1>6 DEF HostConnSound, HostIdle, HostHeld, HostReleased
  <2> QED BY <1>0, <1>2, <1>3, <1>6, <2>1, HostOneConnKeeps, <1>8 DEF HostReleased
<1> QED BY <1>7, <1>8

-----------------------------------------------------------------------------

\* stop() begins: it closes the server to newcomers.
LEMMA HostStopKeeps == ASSUME HostedInv, StopHosted PROVE HostedInv'
BY DEF StopHosted, HostedInv, ServerInv, HostStopSound, Late, BooksInv,
   BooksKeepOpenSessions,
       managerVars, serverVars

\* A connection that stop() finds in its loop is settled; what is held is released.
LEMMA HostSwept ==
  ASSUME guarded \in BOOLEAN, NEW c \in HostConnRecord, HostConnSound(c),
         c.stage \in {"none", "settled"},
         NEW d, d = IF c.listed THEN [TeardownOnce(CloseWs(c)) EXCEPT !.listed = FALSE] ELSE c
  PROVE  d \in HostConnRecord /\ HostConnSound(d) /\ d.stage = c.stage
         /\ (d.claimed => HostReleased(d))
<1>1. CASE ~c.listed BY <1>1 DEF HostConnSound, HostIdle, HostHeld, HostReleased
<1>2. CASE c.listed
  <2> DEFINE e == CloseWs(c)
  <2> DEFINE t == TeardownOnce(e)
  <2>1. c.stage = "settled" /\ c.live /\ HostHeld(c) /\ c.ws \notin {"none", "closed"}
    BY <1>2 DEF HostConnSound, HostIdle, HostHeld, HostReleased
  <2>2. /\ e \in HostConnRecord /\ e.stage = "settled" /\ e.live /\ HostHeld(e)
        /\ e.ws = "closing"
    BY <2>1, HostCloseWsFields DEF HostHeld, HostConnRecord
  <2> HIDE DEF e
  <2>3. t \in HostConnRecord /\ HostConnSound(t) /\ t.stage = e.stage /\ HostReleased(t)
    BY <2>2, HostLiveTeardown
  <2>4. t.torn /\ t.ws = e.ws BY <2>2, HostTeardownFields
  <2>5. d = [t EXCEPT !.listed = FALSE] BY <1>2 DEF e
  <2> HIDE DEF t
  <2>6. d = t BY <2>3, <2>5 DEF HostConnRecord, HostReleased
  <2> QED BY <2>1, <2>2, <2>3, <2>6
<1> QED BY <1>1, <1>2

\* The sweep of stop() over the connections that are listed.
LEMMA HostStopConnectionsKeeps == ASSUME HostedInv, StopConnections PROVE HostedInv'
<1> USE DEF HostedInv, ServerInv
<1>2. conn' = [k \in HostConns |->
        IF conn[k].listed THEN [TeardownOnce(CloseWs(conn[k])) EXCEPT !.listed = FALSE]
        ELSE conn[k]]
  BY DEF StopConnections
<1>3. ASSUME NEW k \in HostConns
      PROVE  /\ conn'[k] \in HostConnRecord /\ HostConnSound(conn'[k])
             /\ conn'[k].stage \in {"none", "settled"}
             /\ conn'[k].claimed => HostReleased(conn'[k])
  BY <1>2, HostSwept DEF StopConnections, HostStopSound
<1> QED BY <1>3, <1>2 DEF StopConnections, BooksInv, BooksKeepOpenSessions, managerVars, HostStopSound,
      Late

\* The rest of stop().
LEMMA HostServerKeeps == ASSUME HostedInv, StopServer \/ Stopped PROVE HostedInv'
BY DEF StopServer, Stopped, HostedInv, ServerInv, HostStopSound, Late, BooksInv,
       BooksKeepOpenSessions, managerVars

\* Every step of a connection keeps the invariant.
LEMMA HostConnKeeps == ASSUME HostedInv, NEW k \in HostConns, ConnStep(k) PROVE HostedInv'
BY HostHandleKeeps, HostValidationFailsKeeps, HostValidationSucceedsKeeps,
   HostDisposalKeeps, HostSetupKeeps,
   HostAnnouncementKeeps, HostTeardownKeeps, HostPeerKeeps, HostCloseKeeps,
     HostErrorKeeps DEF ConnStep

-----------------------------------------------------------------------------

\* A step of the manager changes nothing of the server.
LEMMA HostServerAlone == ASSUME HostedInv, UNCHANGED serverVars PROVE ServerInv'
BY DEF HostedInv, ServerInv, serverVars, HostStopSound, Late

\* And so does every step of the session manager.
LEMMA HostManagerKeeps == ASSUME HostedInv, ManagerStep PROVE HostedInv'
<1>0. session \in [Sessions -> HostSessionRecord] /\ BooksKeepOpenSessions
  BY DEF HostedInv, BooksInv
<1>1. ServerInv'
  BY HostServerAlone DEF ManagerStep, CreateSession, SessionCreated, CloseSession,
     SessionCloseSettles, HostShutdown, HostShutdownEnds
<1>2. ASSUME NEW t \in Sessions, NEW r \in HostSessionRecord,
             session' = [session EXCEPT ![t] = r],
             r.stage = "removed" => r.closed
      PROVE  BooksInv'
  BY <1>0, <1>2 DEF BooksInv, BooksKeepOpenSessions
<1>3. ASSUME NEW t \in Sessions, NEW u \in Users, CreateSession(t, u) PROVE BooksInv'
  <2> DEFINE r == [session[t] EXCEPT !.stage = "importing", !.user = u]
  <2>1. session' = [session EXCEPT ![t] = r] BY <1>0, <1>3 DEF CreateSession
  <2>2. r \in HostSessionRecord /\ r.stage = "importing" BY <1>0 DEF HostSessionRecord
  <2> HIDE DEF r
  <2> QED BY <1>2, <2>1, <2>2
<1>4. ASSUME NEW t \in Sessions, SessionCreated(t) PROVE BooksInv'
  <2> DEFINE r == [session[t] EXCEPT !.stage = "listed"]
  <2>1. session' = [session EXCEPT ![t] = r] BY <1>0, <1>4 DEF SessionCreated
  <2>2. r \in HostSessionRecord /\ r.stage = "listed" BY <1>0 DEF HostSessionRecord
  <2> HIDE DEF r
  <2> QED BY <1>2, <2>1, <2>2
<1>5. ASSUME NEW t \in Sessions, CloseSession(t) PROVE BooksInv'
  <2> DEFINE n == session[t].calls + 1
  <2> DEFINE r == [session[t] EXCEPT !.calls = n]
  <2>1. session' = [session EXCEPT ![t] = r] /\ session[t].stage = "listed"
    BY <1>0, <1>5 DEF CloseSession
  <2>2. n \in Nat BY <1>0 DEF HostSessionRecord
  <2> HIDE DEF n
  <2>3. r \in HostSessionRecord /\ r.stage = "listed" BY <1>0, <2>1, <2>2 DEF HostSessionRecord
  <2> HIDE DEF r
  <2> QED BY <1>2, <2>1, <2>3
<1>6. ASSUME NEW t \in Sessions, SessionCloseSettles(t) PROVE BooksInv'
  <2> DEFINE n == session[t].calls - 1
  <2> DEFINE r == [session[t] EXCEPT !.calls = n, !.closed = TRUE, !.stage = "removed"]
  <2>1. session' = [session EXCEPT ![t] = r] BY <1>0, <1>6 DEF SessionCloseSettles
  <2>2. n \in Nat BY <1>0, <1>6 DEF HostSessionRecord, SessionCloseSettles
  <2> HIDE DEF n
  <2>3. r \in HostSessionRecord /\ r.closed BY <1>0, <2>2 DEF HostSessionRecord
  <2> HIDE DEF r
  <2> QED BY <1>2, <2>1, <2>3
<1>7. ASSUME HostShutdown PROVE BooksInv'
  <2>1. session' = [t \in Sessions |->
          IF t \in ListedSessions THEN [session[t] EXCEPT !.calls = session[t].calls + 1]
          ELSE session[t]]
    BY <1>7 DEF HostShutdown
  <2>2. ASSUME NEW t \in Sessions
        PROVE  session'[t] \in HostSessionRecord
               /\ (session'[t].stage = "removed" => session'[t].closed)
    <3> DEFINE n == session[t].calls + 1
    <3> DEFINE r == [session[t] EXCEPT !.calls = n]
    <3>1. session'[t] = IF t \in ListedSessions THEN r ELSE session[t] BY <2>1
    <3>2. n \in Nat BY <1>0 DEF HostSessionRecord
    <3> HIDE DEF n
    <3>3. r \in HostSessionRecord /\ r.stage = session[t].stage BY <1>0, <3>2 DEF HostSessionRecord
    <3>4. t \in ListedSessions => session[t].stage = "listed" BY DEF ListedSessions
    <3> HIDE DEF r
    <3> QED BY <1>0, <3>1, <3>3, <3>4 DEF BooksKeepOpenSessions
  <2> QED BY <2>1, <2>2 DEF BooksInv, BooksKeepOpenSessions
<1>8. ASSUME HostShutdownEnds PROVE BooksInv'
  BY <1>0, <1>8 DEF HostShutdownEnds, BooksInv, BooksKeepOpenSessions
<1> QED BY <1>1, <1>3, <1>4, <1>5, <1>6, <1>7, <1>8 DEF HostedInv, ManagerStep

-----------------------------------------------------------------------------

\* The invariant of the server and of the manager holds in every state, for any number
\* of connections, sessions and users, and any limits.
THEOREM HostedInductive == ASSUME HostedAssumption PROVE HostedSpec => []HostedInv
<1>1. ASSUME HostedInit PROVE HostedInv
  BY <1>1 DEF NewHostConn, HostConnRecord, HostIdle, NewSession, HostSessionRecord, HostedInit,
      HostConnSound, BooksInv, BooksKeepOpenSessions, HostedAssumption, HostStopSound, Late,
      HostedInv, ServerInv
<1>2. ASSUME HostedInv, [HostedNext]_hostedVars PROVE HostedInv'
  <2>1. CASE UNCHANGED hostedVars
    BY <1>2, <2>1 DEF HostedInv, ServerInv, BooksInv, HostStopSound, Late,
       BooksKeepOpenSessions,
       hostedVars
  <2>2. CASE HostedNext
    BY <1>2, <2>2, HostConnKeeps, HostStopKeeps, HostStopConnectionsKeeps,
       HostServerKeeps, HostManagerKeeps
       DEF HostedNext
  <2> QED BY <1>2, <2>1, <2>2
<1> QED BY <1>1, <1>2, PTL DEF HostedSpec

\* What a connection claimed is released exactly once, at the latest when stop() returns,
\* and the manager counts the open sessions of a user: PlacesAreCounted, for all of them.
THEOREM PlacesCounted == ASSUME HostedAssumption PROVE HostedSpec => []PlacesAreCounted
<1>1. ASSUME HostedInv PROVE PlacesAreCounted
  <2>1. BooksKeepOpenSessions BY <1>1 DEF HostedInv, BooksInv
  <2>2. ASSUME NEW k \in HostConns
        PROVE  /\ conn[k].releases <= 1
               /\ conn[k].claimed /\ conn[k].stage = "settled" /\ conn[k].ws = "closed"
                    => conn[k].releases = 1
               /\ conn[k].claimed /\ stopping \in {"server", "done"}
                    => conn[k].releases = 1 /\ ~conn[k].work
    <3> DEFINE c == conn[k]
    <3>1. c \in HostConnRecord /\ HostConnSound(c) BY <1>1 DEF HostedInv, ServerInv
    <3>2. c.releases = 0 \/ c.releases = 1
      BY <3>1 DEF HostConnSound, HostConnRecord, HostIdle, HostHeld, HostReleased
    <3>3. c.claimed /\ c.stage = "settled" /\ c.ws = "closed" => c.releases = 1
      BY <3>1 DEF HostConnSound, HostIdle, HostReleased
    <3>4. c.claimed /\ stopping \in {"server", "done"} => c.releases = 1 /\ ~c.work
      BY <1>1 DEF HostedInv, ServerInv, HostStopSound, Late, HostReleased
    <3> HIDE DEF c
    <3>5. c.releases <= 1 BY <3>2
    <3> QED BY <3>3, <3>4, <3>5 DEF c
  <2> QED BY <2>1, <2>2 DEF PlacesAreCounted, ReleasedOnce
<1> QED BY <1>1, HostedInductive, PTL

-----------------------------------------------------------------------------
(* The recovery of the upstream.                                           *)

\* The fields of the session record.
Fields ==
  {"policy", "credentialed", "state", "closing", "handle", "attempts", "backoff", "token",
   "attemptInFlight", "clientBuffering", "disposed", "inFlight", "recoveries",
   "replacedFirstDial", "gen", "link", "alive", "calls", "buffering", "dialWindow",
   "tornDown", "lossSpent"}

\* The frames of a host recovery, of all the code, and what they and calls hold.
HostKinds == {"boundary", "aborted", "announced", "activated", "drained"}
Kinds == HostKinds \cup Unguarded \cup {"first", "freshPlanned", "freshDial", "expired", "failed",
  "parked"}
FrameRecord == [kind : Kinds, id : Nat, plan : Plans]
CallRecord == [by : {"first", "auto", "host", "transfer"}, id : Nat,
               phase : {"closing", "dialing"}, gen : Nat, plan : Plans]
RecoveryRecord == [epoch : Nat, outcome : {"pending", "rejected", "activated"},
                   settled : BOOLEAN, owns : BOOLEAN]

\* The frames on a stack, those below the top one, and the kind of the top one.
All(k) == {k[i] : i \in 1..Len(k)}
Below(k) == {k[i] : i \in 2..Len(k)}

Top(k, kinds) == k # <<>> /\ Head(k).kind \in kinds
\* The top frame is of one of these kinds, and of the recovery in flight.
Live(x, k, kinds) == Top(k, kinds) /\ Head(k).id = x.inFlight

\* The types of the session record and of the stack, and what the ids in them name.
Typed(x, k) ==
  /\ DOMAIN x = Fields
  /\ x.state \in States
  /\ x.gen \in Nat /\ x.token \in Nat /\ x.link \in Nat /\ x.lossSpent \in Nat
  /\ x.attempts \in 0..MaxAttempts /\ (Top(k, {"window"}) => x.attempts < MaxAttempts)
  /\ x.backoff \subseteq Plans /\ x.clientBuffering \in BOOLEAN
  /\ x.calls \subseteq CallRecord
  /\ x.recoveries \in Seq(RecoveryRecord)
  /\ x.inFlight \in {0, Len(x.recoveries)}
  /\ k \in Seq(FrameRecord)
  /\ \A f \in All(k) : f.kind \in HostKinds \cup {"failed"} => f.id \in 1..Len(x.recoveries)
  /\ \A c \in x.calls : c.by = "host" => c.id \in 1..Len(x.recoveries)
  /\ \A c \in x.calls : c.phase = "closing" => c.by \in {"auto", "transfer"}
  /\ x.disposed \/ x.state = "CLOSED" => x.closing

\* Dials of the automatic reconnect, and no driver of a redial at work.
AutoCalls(x) == {c \in x.calls : c.by = "auto"}
Quiet(x) == x.inFlight = 0 /\ ~x.attemptInFlight /\ x.backoff = {}

\* The automatic reconnect: at most one attempt or backoff drives it, never beside a
\* host recovery, and its own frames are on top with nothing else at work.
Attempts(x, k) ==
  /\ \A c \in AutoCalls(x) : c.id <= x.token
  /\ \A c, d \in AutoCalls(x) : c.id = d.id => c = d
  /\ x.attemptInFlight <=> (\E c \in AutoCalls(x) : c.id = x.token)
  /\ \A p, q \in x.backoff : p = q
  /\ x.attemptInFlight \/ x.backoff # {} => x.state \in {"RECONNECTING", "CLOSED"}
          /\ x.inFlight = 0
  /\ ~(x.attemptInFlight /\ x.backoff # {})
  /\ Top(k, {"window", "planned"}) => x.state = "RECONNECTING"
  /\ Top(k, {"report"}) => x.state \in {"RECONNECTING", "CLOSED"}
  /\ Top(k, Unguarded) =>
       Quiet(x) /\ \A f \in All(k) : f.kind = "freshDial" => f.id # x.token
  /\ \A f \in Below(k) : f.kind \notin Unguarded
  /\ \A f \in All(k) : f.kind = "freshDial" =>
       f.id <= x.token /\ (f.id = x.token => Quiet(x)
         /\ x.state \in {"RECONNECTING", "UPSTREAM_LOST"})

\* The recovery in flight has its frame on top or its dial under way, in the state that
\* belongs to it; a failed one reports with nothing but host frames around.
Recoveries(x, k) ==
  /\ x.inFlight # 0 =>
       \/ Live(x, k, HostKinds)
       \/ /\ x.state \in {"RECONNECTING", "CLOSED"}
          /\ \E c \in x.calls : c.by = "host" /\ c.id = x.inFlight
  /\ Live(x, k, {"boundary", "aborted"}) =>
       x.state \in {"CONNECTING", "ACTIVE", "RECONNECTING", "UPSTREAM_LOST"}
  /\ Live(x, k, {"announced"}) => x.state = "RECONNECTING"
  /\ Live(x, k, {"activated", "drained"}) => x.state = "ACTIVE"
  /\ \A f \in Below(k) : f.kind \in HostKinds => f.id # x.inFlight
  /\ \A f \in All(k) : f.kind = "failed" =>
       /\ f.id # x.inFlight /\ x.state # "CONNECTING"
       /\ \A g \in All(k) : g.kind \in HostKinds \cup {"parked", "failed"}

\* A session that waits for a redial has somebody to do it.
Driven(x, k) ==
  ~x.closing /\ x.state = "RECONNECTING" =>
    \/ x.backoff # {} \/ x.attemptInFlight \/ x.inFlight # 0
    \/ Top(k, Unguarded)
    \/ \E f \in All(k) : f.kind = "failed" \/ (f.kind = "freshDial" /\ f.id = x.token)

\* At most one frame goes on with the first dial.
Once(k) == \A i, j \in 1..Len(k) : k[i].kind = "first" /\ k[j].kind = "first" => i = j

\* start() dials once, unless a recovery replaced it, and a transfer once.
Starts(x, k) ==
  /\ \A c, d \in x.calls : c.by = "transfer" /\ d.by = "transfer" => c = d
  /\ \A c \in x.calls : c.by = "transfer" => x.state \in {"TRANSFERRING", "CLOSED"}
  /\ \A c, d \in x.calls : c.by = "first" /\ d.by = "first" => c = d
  /\ \A f \in All(k) : f.kind = "first" =>
       /\ \A c \in x.calls : c.by # "first"
       /\ x.state # "CREATED" /\ (x.replacedFirstDial \/ x.state = "CONNECTING")
  /\ \A c \in x.calls : c.by = "first" => x.state # "CREATED"
  /\ x.inFlight # 0 /\ x.state = "CONNECTING" => x.replacedFirstDial
  /\ Once(k)

\* The generation that the recovery of a frame promised when it began.
Epoch(x, f) == x.recoveries[f.id].epoch

\* A call that could still be set up although its owner has gone on without it.
Stray(x, c) ==
  /\ c.gen = x.gen
  /\ \/ c.by = "auto" /\ c.id # x.token
     \/ c.by = "first" /\ x.state \notin {"CONNECTING", "CLOSED"}

\* Every dial bears the generation it was given, a stray one survives only until the
\* boundary that aborts it, and a recovery goes from its promise to its link.
Generations(x, k) ==
  /\ \A c \in x.calls : c.gen <= x.gen
  /\ \A c \in x.calls : Stray(x, c) =>
       \E f \in All(k) : f.kind = "boundary" /\ ~x.recoveries[f.id].settled
         /\ Epoch(x, f) = x.gen + 2
  /\ Live(x, k, {"boundary"}) => Epoch(x, Head(k)) = x.gen + 2
  /\ Live(x, k, {"aborted"}) => \A c \in x.calls : c.gen < x.gen
  /\ Live(x, k, {"aborted", "announced"}) => Epoch(x, Head(k)) = x.gen + 1
  /\ Live(x, k, {"activated", "drained"}) => Epoch(x, Head(k)) = x.link
  /\ \A c \in x.calls : c.by = "host" => c.gen = x.recoveries[c.id].epoch
  /\ \A r \in 1..Len(x.recoveries) :
       /\ x.recoveries[r].epoch <= x.gen + 2
       /\ x.recoveries[r].settled => x.recoveries[r].epoch <= x.gen + 1
  /\ \A r, q \in 1..Len(x.recoveries) : r <= q => x.recoveries[r].epoch <= x.recoveries[q].epoch
  /\ x.inFlight # 0 /\ ~x.recoveries[x.inFlight].settled => Live(x, k, {"boundary"})

\* Whoever opened the reconnect window still owns it.
Buffers(x, k) ==
  /\ x.clientBuffering => x.state \in {"RECONNECTING", "CLOSED"} /\ x.inFlight = 0
  /\ x.buffering =>
       \/ x.clientBuffering \/ x.state \in {"TRANSFERRING", "CLOSED"}
       \/ x.inFlight # 0 /\ x.recoveries[x.inFlight].owns
       \/ \E f \in All(k) : f.kind = "failed" /\ x.recoveries[f.id].owns
  /\ Live(x, k, {"activated", "drained"}) => ~x.recoveries[x.inFlight].owns

\* Notifications are held while the session is parked or a recovery is not yet over.
Holds(x, k) ==
  x.dialWindow <=> \/ x.state = "UPSTREAM_LOST"
                   \/ x.inFlight # 0 /\ ~Live(x, k, {"drained"})
                   \/ x.state = "RECONNECTING" /\ \E f \in All(k) : f.kind = "failed"

\* What a waiting retry has spent beside what losses spent.
Sound(x, p) ==
  IF p.planned THEN x.link = 0 /\ x.attempts = x.lossSpent + p.spent
  ELSE p.spent = 0 /\ x.attempts = x.lossSpent

\* The budget is what losses spent, and what the retries of a planned reconnect did.
Budget(x, k) ==
  /\ x.state \in {"CREATED", "CONNECTING", "ACTIVE", "TRANSFERRING"} /\ ~Live(x, k, {"activated"})
       => x.attempts = x.lossSpent
  /\ \A p \in x.backoff : Sound(x, p)
  /\ \A c \in AutoCalls(x) : c.id = x.token => Sound(x, c.plan)
  /\ \A f \in All(k) : f.kind = "freshDial" /\ f.id = x.token => Sound(x, f.plan)
  /\ Top(k, {"window", "planned"}) => x.attempts = x.lossSpent
  /\ Top(k, {"planned"}) => Head(k).plan.spent = 0

\* The inductive invariant.
RecInv(x, k) ==
  /\ Typed(x, k) /\ Attempts(x, k) /\ Recoveries(x, k) /\ Driven(x, k) /\ Starts(x, k)
  /\ Generations(x, k) /\ Buffers(x, k)
  /\ ~x.closing => Holds(x, k) /\ Budget(x, k)

\* y is x but for the fields of F.
Same(x, y, F) == DOMAIN y = Fields /\ \A f \in Fields \ F : y[f] = x[f]

\* What the functions of the transport and the reconnector change. Detaching first.
LEMMA DetachIs ==
  ASSUME NEW x, DOMAIN x = Fields
  PROVE  Same(x, Detach(x), {"link", "alive"}) /\ Detach(x).link = 0
BY DEF Same, Detach, Fields

\* abortIncumbent detaches and advances the generation.
LEMMA AbortIs ==
  ASSUME NEW x, DOMAIN x = Fields
  PROVE  /\ Same(x, AbortIncumbent(x), {"link", "alive", "gen"})
         /\ AbortIncumbent(x).link = 0 /\ AbortIncumbent(x).gen = x.gen + 1
BY DetachIs DEF Same, AbortIncumbent, Fields

\* A disconnect advances it only when it retires a pending setup.
LEMMA DisconnectIs ==
  ASSUME NEW x, DOMAIN x = Fields
  PROVE  /\ Same(x, DisconnectTransport(x), {"link", "alive", "gen"})
         /\ DisconnectTransport(x).link = 0
         /\ DisconnectTransport(x).gen \in {x.gen, x.gen + 1}
BY DetachIs DEF Same, DisconnectTransport, Fields

\* The record of a call of connect().
NewCall(by, id, ph, g, plan) ==
  [by |-> by, id |-> id, phase |-> ph, gen |-> g, plan |-> plan]

\* connect() mints the next generation for its call.
LEMMA ConnectIs ==
  ASSUME NEW x, DOMAIN x = Fields, NEW by, NEW id, NEW plan
  PROVE  LET y == Connect(x, by, id, plan)
         IN /\ Same(x, y, {"gen", "calls"}) /\ y.gen = x.gen + 1
            /\ y.calls = x.calls \cup {NewCall(by, id, "dialing", x.gen + 1, plan)}
BY DEF Same, Connect, Fields, NewCall

\* A disconnect and a connect: the call waits for the close, or dials.
LEMMA DialIs ==
  ASSUME NEW x, DOMAIN x = Fields, x.gen \in Nat, NEW by, NEW id, NEW plan
  PROVE  LET y == DisconnectThenConnect(x, by, id, plan)
         IN /\ Same(x, y, {"link", "alive", "gen", "calls"}) /\ y.link = 0
            /\ y.gen \in {x.gen, x.gen + 1, x.gen + 2}
            /\ \E ph \in {"closing", "dialing"} :
                 y.calls = x.calls \cup {NewCall(by, id, ph, y.gen, plan)}
<1> DEFINE z == DisconnectTransport(x)
           y == DisconnectThenConnect(x, by, id, plan)
<1>1. /\ Same(x, z, {"link", "alive", "gen"}) /\ z.link = 0 /\ z.gen \in {x.gen, x.gen + 1}
  BY DisconnectIs
<1> HIDE DEF z
<1>2. CASE x.link = 0
  <2>2. DOMAIN z = Fields BY <1>1 DEF Same
  <2>3. Same(z, y, {"gen", "calls"}) /\ y.gen = z.gen + 1
        /\ y.calls = z.calls \cup {NewCall(by, id, "dialing", z.gen + 1, plan)}
    BY <2>2, ConnectIs, <1>2 DEF z, DisconnectThenConnect
  <2> HIDE DEF y
  <2> QED BY <2>3, <1>1 DEF y, Same, Fields
<1>3. CASE x.link # 0
  <2> DEFINE c == NewCall(by, id, "closing", z.gen, plan)
  <2>1. y = [z EXCEPT !.calls = @ \cup {c}] BY <1>3 DEF z, DisconnectThenConnect, NewCall
  <2>2. DOMAIN z = Fields /\ z.calls = x.calls BY <1>1 DEF Same, Fields
  <2> HIDE DEF c
  <2>3. Same(z, y, {"calls"}) /\ y.calls = x.calls \cup {c} BY <2>1, <2>2 DEF Same, Fields
  <2> HIDE DEF y
  <2> QED BY <1>1, <2>3 DEF y, c, Same, Fields
<1> QED BY <1>2, <1>3

\* Abandoning an attempt takes its token away as well.
LEMMA AbandonIs ==
  ASSUME NEW x, DOMAIN x = Fields
  PROVE  LET y == AbandonAttempt(x) IN
         /\ Same(x, y, {"link", "alive", "gen", "token", "attemptInFlight"})
         /\ y.link = 0 /\ y.gen = x.gen + 1 /\ y.token = x.token + 1 /\ y.attemptInFlight = FALSE
<1> DEFINE z == [x EXCEPT !.token = @ + 1, !.attemptInFlight = FALSE]
<1>1. Same(x, z, {"token", "attemptInFlight"}) /\ z.token = x.token + 1
      /\ z.attemptInFlight = FALSE
  BY DEF Same, Fields
<1>2. AbandonAttempt(x) = AbortIncumbent(z) BY DEF AbandonAttempt
<1> HIDE DEF z
<1> QED BY <1>1, <1>2, AbortIs DEF Same, Fields

\* Discarding the client's buffering touches nothing else.
LEMMA DiscardIs ==
  ASSUME NEW x, DOMAIN x = Fields
  PROVE  LET y == DiscardClientBuffering(x) IN
         /\ Same(x, y, {"clientBuffering", "buffering"})
         /\ ~y.clientBuffering /\ (x.clientBuffering \in BOOLEAN => y.clientBuffering = FALSE)
         /\ x.clientBuffering => ~y.buffering
         /\ ~x.clientBuffering => y.buffering = x.buffering
BY DEF DiscardClientBuffering, Same, Fields

\* When the park is not refused.
Parks(x) == ~x.disposed /\ x.state \in {"CONNECTING", "ACTIVE", "RECONNECTING"}

\* parkUpstreamLost, where it is refused and where it is not.
LEMMA ParkIs ==
  ASSUME NEW x, DOMAIN x = Fields
  PROVE  LET y == ParkUpstreamLost(x) IN
         /\ ~Parks(x) => y = x
         /\ Parks(x) =>
              /\ Same(x, y, {"link", "alive", "gen", "token", "attemptInFlight", "backoff",
                             "clientBuffering", "buffering", "state", "dialWindow"})
              /\ y.state = "UPSTREAM_LOST" /\ y.dialWindow = TRUE /\ y.backoff = {}
              /\ ~y.clientBuffering /\ ~y.attemptInFlight
              /\ x.clientBuffering \in BOOLEAN => y.clientBuffering = FALSE
              /\ x.clientBuffering => ~y.buffering
              /\ ~x.clientBuffering => y.buffering = x.buffering
              /\ x.attemptInFlight => y.link = 0 /\ y.gen = x.gen + 1 /\ y.token = x.token + 1
              /\ ~x.attemptInFlight => y.link = x.link /\ y.gen = x.gen /\ y.token = x.token
<1> SUFFICES ASSUME Parks(x)
             PROVE  LET y == ParkUpstreamLost(x) IN
              /\ Same(x, y, {"link", "alive", "gen", "token", "attemptInFlight", "backoff",
                             "clientBuffering", "buffering", "state", "dialWindow"})
              /\ y.state = "UPSTREAM_LOST" /\ y.dialWindow = TRUE /\ y.backoff = {}
              /\ ~y.clientBuffering /\ ~y.attemptInFlight
              /\ x.clientBuffering \in BOOLEAN => y.clientBuffering = FALSE
              /\ x.clientBuffering => ~y.buffering
              /\ ~x.clientBuffering => y.buffering = x.buffering
              /\ x.attemptInFlight => y.link = 0 /\ y.gen = x.gen + 1 /\ y.token = x.token + 1
              /\ ~x.attemptInFlight => y.link = x.link /\ y.gen = x.gen /\ y.token = x.token
  BY DEF ParkUpstreamLost, Parks
<1> DEFINE b == [x EXCEPT !.backoff = {}]
           z == IF b.attemptInFlight THEN AbandonAttempt(b) ELSE b
           d == DiscardClientBuffering(z)
<1>1. Same(x, b, {"backoff"}) /\ b.backoff = {} BY DEF Same, Fields
<1>2. ParkUpstreamLost(x) = [d EXCEPT !.state = "UPSTREAM_LOST", !.dialWindow = TRUE]
  BY DEF ParkUpstreamLost, Parks
<1> HIDE DEF b
<1>3. DOMAIN b = Fields /\ b.gen = x.gen /\ b.token = x.token
      /\ b.attemptInFlight = x.attemptInFlight
      /\ b.link = x.link
  BY <1>1 DEF Same, Fields
<1>4. /\ Same(b, z, {"link", "alive", "gen", "token", "attemptInFlight"})
      /\ x.attemptInFlight => z.link = 0 /\ z.gen = x.gen + 1 /\ z.token = x.token + 1
      /\ ~x.attemptInFlight => z.link = x.link /\ z.gen = x.gen /\ z.token = x.token
      /\ ~z.attemptInFlight
  BY <1>3, AbandonIs DEF Same
<1> HIDE DEF z
<1>5. DOMAIN z = Fields /\ z.clientBuffering = x.clientBuffering /\ z.buffering = x.buffering
      /\ z.backoff = {}
  BY <1>1, <1>4 DEF Same, Fields
<1>6. /\ Same(z, d, {"clientBuffering", "buffering"}) /\ ~d.clientBuffering
      /\ x.clientBuffering \in BOOLEAN => d.clientBuffering = FALSE
      /\ x.clientBuffering => ~d.buffering
      /\ ~x.clientBuffering => d.buffering = x.buffering
  BY <1>5, DiscardIs
<1> HIDE DEF d
<1>7. DOMAIN d = Fields BY <1>6 DEF Same
<1>8. Same(x, d, {"link", "alive", "gen", "token", "attemptInFlight", "backoff",
      "clientBuffering", "buffering"})
  BY <1>1, <1>4, <1>6 DEF Same, Fields
<1>9. /\ d.link = z.link /\ d.gen = z.gen /\ d.token = z.token
           /\ d.attemptInFlight = z.attemptInFlight
      /\ d.backoff = {}
  BY <1>5, <1>6 DEF Same, Fields
<1> DEFINE p == [d EXCEPT !.state = "UPSTREAM_LOST", !.dialWindow = TRUE]
<1>10. Same(d, p, {"state", "dialWindow"}) /\ p.state = "UPSTREAM_LOST" /\ p.dialWindow = TRUE
  BY <1>7 DEF Same, Fields
<1>11. ParkUpstreamLost(x) = p BY <1>2
<1> HIDE DEF p
<1> QED BY <1>4, <1>6, <1>9, <1>10, <1>11, <1>8 DEF Same, Fields

\* A close is recorded once.
LEMMA CloseReasonIs ==
  ASSUME NEW x, DOMAIN x = Fields
  PROVE  LET y == CloseWithReason(x) IN
         /\ x.state = "CLOSED" => y = x
         /\ x.state # "CLOSED" => Same(x, y, {"closing"}) /\ y.closing = TRUE
BY DEF CloseWithReason, Same, Fields

\* close() gives up an attempt that is in flight.
LEMMA CloseIs ==
  ASSUME NEW x, DOMAIN x = Fields
  PROVE  LET y == Close(x) IN
         /\ Same(x, y, {"link", "alive", "gen", "token", "attemptInFlight", "backoff", "closing",
                 "disposed"})
         /\ y.backoff = {} /\ ~y.attemptInFlight /\ y.disposed = TRUE
         /\ y.closing = TRUE \/ (x.state = "CLOSED" /\ y.closing = x.closing)
         /\ x.attemptInFlight => y.link = 0 /\ y.gen = x.gen + 1 /\ y.token = x.token + 1
         /\ ~x.attemptInFlight => y.link = x.link /\ y.gen = x.gen /\ y.token = x.token
<1> DEFINE b == [x EXCEPT !.disposed = TRUE]
           z == IF b.attemptInFlight THEN AbandonAttempt(b) ELSE b
           d == [z EXCEPT !.backoff = {}]
<1>1. Same(x, b, {"disposed"}) /\ b.disposed = TRUE BY DEF Same, Fields
<1>2. Close(x) = CloseWithReason(d) BY DEF Close
<1> HIDE DEF b
<1>3. DOMAIN b = Fields /\ b.gen = x.gen /\ b.token = x.token
      /\ b.attemptInFlight = x.attemptInFlight
      /\ b.link = x.link
  BY <1>1 DEF Same, Fields
<1>4. /\ Same(b, z, {"link", "alive", "gen", "token", "attemptInFlight"})
      /\ x.attemptInFlight => z.link = 0 /\ z.gen = x.gen + 1 /\ z.token = x.token + 1
      /\ ~x.attemptInFlight => z.link = x.link /\ z.gen = x.gen /\ z.token = x.token
      /\ ~z.attemptInFlight
  BY <1>3, AbandonIs DEF Same
<1> HIDE DEF z
<1>5. DOMAIN z = Fields BY <1>4 DEF Same
<1>6. Same(z, d, {"backoff"}) /\ d.backoff = {} BY <1>5 DEF Same, Fields
<1> HIDE DEF d
<1>7. DOMAIN d = Fields BY <1>6 DEF Same
<1>10. /\ d.state = "CLOSED" => CloseWithReason(d) = d
       /\ d.state # "CLOSED" => Same(d, CloseWithReason(d), {"closing"})
               /\ CloseWithReason(d).closing = TRUE
  BY <1>7, CloseReasonIs
<1> QED BY <1>2, <1>4, <1>6, <1>10, <1>1 DEF Same, Fields

\* A retry is charged and begins to wait.
LEMMA ScheduleIs ==
  ASSUME NEW x, DOMAIN x = Fields, NEW plan
  PROVE  LET y == ScheduleBudgetedDial(x, plan)
             p == [plan EXCEPT !.spent = IF plan.planned THEN @ + 1 ELSE @]
         IN /\ Same(x, y, {"attempts", "lossSpent", "backoff"})
            /\ y.attempts = x.attempts + 1
            /\ y.lossSpent = IF plan.planned THEN x.lossSpent ELSE x.lossSpent + 1
            /\ y.backoff = x.backoff \cup {p}
BY DEF ScheduleBudgetedDial, Same, Fields

\* An attempt begins, under a new token.
LEMMA RunIs ==
  ASSUME NEW x, DOMAIN x = Fields, x.gen \in Nat, NEW plan
  PROVE  LET y == RunReconnect(x, plan) IN
         /\ Same(x, y, {"token", "attemptInFlight", "link", "alive", "gen", "calls"})
         /\ y.token = x.token + 1 /\ y.attemptInFlight = TRUE /\ y.link = 0
         /\ y.gen \in {x.gen, x.gen + 1, x.gen + 2}
         /\ \E ph \in {"closing", "dialing"} :
              y.calls = x.calls
                \cup {NewCall("auto", x.token + 1, ph, y.gen, [plan EXCEPT !.fresh = FALSE])}
<1> DEFINE z == [x EXCEPT !.token = @ + 1, !.attemptInFlight = TRUE]
           run == [plan EXCEPT !.fresh = FALSE]
           y == DisconnectThenConnect(z, "auto", x.token + 1, run)
<1>1. Same(x, z, {"token", "attemptInFlight"}) /\ z.token = x.token + 1
      /\ z.attemptInFlight = TRUE
  BY DEF Same, Fields
<1>2. RunReconnect(x, plan) = y BY DEF RunReconnect
<1> HIDE DEF z, run
<1>3. DOMAIN z = Fields /\ z.gen = x.gen /\ z.calls = x.calls BY <1>1 DEF Same, Fields
<1>4. /\ Same(z, y, {"link", "alive", "gen", "calls"}) /\ y.link = 0
      /\ y.gen \in {z.gen, z.gen + 1, z.gen + 2}
      /\ \E ph \in {"closing", "dialing"} :
           y.calls = z.calls \cup {NewCall("auto", x.token + 1, ph, y.gen, run)}
  BY <1>3, DialIs
<1> HIDE DEF y
<1> QED BY <1>2, <1>3, <1>4, <1>1 DEF run, Same, Fields

\* The reconnect window buffers the client's audio.
LEMMA WindowIs ==
  ASSUME NEW x, DOMAIN x = Fields
  PROVE  /\ Same(x, OpenWindow(x), {"buffering", "clientBuffering"})
         /\ OpenWindow(x).clientBuffering = TRUE
BY DEF OpenWindow, Same, Fields

\* A recovery that is in flight no longer is.
LEMMA ReleaseIs ==
  ASSUME NEW x, DOMAIN x = Fields, NEW r
  PROVE  /\ Same(x, Release(x, r), {"inFlight"})
         /\ Release(x, r).inFlight = IF x.inFlight = r THEN 0 ELSE x.inFlight
BY DEF Release, Same, Fields

\* The same recoveries but for the fields of F of recovery r.
SameRecs(a, b, r, F) ==
  /\ b \in Seq(RecoveryRecord) /\ Len(b) = Len(a)
  /\ \A q \in 1..Len(a) : \A f \in {"epoch", "outcome", "settled", "owns"} :
       b[q][f] = a[q][f] \/ (q = r /\ f \in F)

\* The four ways in which the record of a recovery changes.
LEMMA RecordIs ==
  ASSUME NEW a \in Seq(RecoveryRecord), NEW r \in 1..Len(a)
  PROVE  /\ LET b == [a EXCEPT ![r].owns = FALSE]
            IN SameRecs(a, b, r, {"owns"}) /\ b[r].owns = FALSE
         /\ LET b == [a EXCEPT ![r].outcome = "rejected"]
            IN SameRecs(a, b, r, {"outcome"}) /\ b[r].outcome = "rejected"
         /\ LET b == [a EXCEPT ![r].outcome = "activated"]
            IN SameRecs(a, b, r, {"outcome"}) /\ b[r].outcome = "activated"
         /\ LET b == [a EXCEPT ![r].settled = TRUE]
            IN SameRecs(a, b, r, {"settled"}) /\ b[r].settled = TRUE
<1>0. a[r] \in RecoveryRecord OBVIOUS
<1>1. ASSUME NEW v \in RecoveryRecord
      PROVE  /\ [a EXCEPT ![r] = v] \in Seq(RecoveryRecord) /\ Len([a EXCEPT ![r] = v]) = Len(a)
             /\ [a EXCEPT ![r] = v][r] = v
             /\ \A q \in 1..Len(a) : q # r => [a EXCEPT ![r] = v][q] = a[q]
  OBVIOUS
<1>2. LET b == [a EXCEPT ![r].owns = FALSE]
      IN SameRecs(a, b, r, {"owns"}) /\ b[r].owns = FALSE
  <2> DEFINE v == [a[r] EXCEPT !.owns = FALSE]
  <2>1. v \in RecoveryRecord /\ v.owns = FALSE /\ v.epoch = a[r].epoch /\ v.settled = a[r].settled
        /\ v.outcome = a[r].outcome
    BY <1>0 DEF RecoveryRecord
  <2> HIDE DEF v
  <2> QED BY <1>1, <2>1 DEF v, SameRecs
<1>3. LET b == [a EXCEPT ![r].outcome = "rejected"]
      IN SameRecs(a, b, r, {"outcome"}) /\ b[r].outcome = "rejected"
  <2> DEFINE v == [a[r] EXCEPT !.outcome = "rejected"]
  <2>1. v \in RecoveryRecord /\ v.outcome = "rejected" /\ v.epoch = a[r].epoch
        /\ v.settled = a[r].settled
        /\ v.owns = a[r].owns
    BY <1>0 DEF RecoveryRecord
  <2> HIDE DEF v
  <2> QED BY <1>1, <2>1 DEF v, SameRecs
<1>4. LET b == [a EXCEPT ![r].outcome = "activated"]
      IN SameRecs(a, b, r, {"outcome"}) /\ b[r].outcome = "activated"
  <2> DEFINE v == [a[r] EXCEPT !.outcome = "activated"]
  <2>1. v \in RecoveryRecord /\ v.outcome = "activated" /\ v.epoch = a[r].epoch
        /\ v.settled = a[r].settled
        /\ v.owns = a[r].owns
    BY <1>0 DEF RecoveryRecord
  <2> HIDE DEF v
  <2> QED BY <1>1, <2>1 DEF v, SameRecs
<1>5. LET b == [a EXCEPT ![r].settled = TRUE]
      IN SameRecs(a, b, r, {"settled"}) /\ b[r].settled = TRUE
  <2> DEFINE v == [a[r] EXCEPT !.settled = TRUE]
  <2>1. v \in RecoveryRecord /\ v.settled = TRUE /\ v.epoch = a[r].epoch
        /\ v.outcome = a[r].outcome
        /\ v.owns = a[r].owns
    BY <1>0 DEF RecoveryRecord
  <2> HIDE DEF v
  <2> QED BY <1>1, <2>1 DEF v, SameRecs
<1> QED BY <1>2, <1>3, <1>4, <1>5

\* endClientBuffering, for its owner only.
LEMMA EndIs ==
  ASSUME NEW x, DOMAIN x = Fields, x.recoveries \in Seq(RecoveryRecord),
         NEW r \in 1..Len(x.recoveries)
  PROVE  LET y == EndClientBuffering(x, r) IN
         /\ Same(x, y, {"recoveries", "buffering"})
         /\ SameRecs(x.recoveries, y.recoveries, r, {"owns"}) /\ y.recoveries[r].owns = FALSE
         /\ x.recoveries[r].owns => ~y.buffering
         /\ ~x.recoveries[r].owns => y.buffering = x.buffering
<1> DEFINE b == [x.recoveries EXCEPT ![r].owns = FALSE]
           y == EndClientBuffering(x, r)
<1>1. SameRecs(x.recoveries, b, r, {"owns"}) /\ b[r].owns = FALSE BY RecordIs
<1>2. CASE x.recoveries[r].owns
  <2>1. y = [x EXCEPT !.recoveries = b, !.buffering = FALSE] BY <1>2 DEF EndClientBuffering
  <2> HIDE DEF b
  <2> QED BY <1>1, <1>2, <2>1 DEF Same, Fields
<1>3. CASE ~x.recoveries[r].owns
  <2>1. y = x BY <1>3 DEF EndClientBuffering
  <2> QED BY <1>3, <2>1 DEF Same, SameRecs, RecoveryRecord
<1> QED BY <1>2, <1>3

\* A rejected recovery owns no buffering.
LEMMA RejectIs ==
  ASSUME NEW x, DOMAIN x = Fields, x.recoveries \in Seq(RecoveryRecord),
         NEW r \in 1..Len(x.recoveries)
  PROVE  LET y == RejectAttempt(x, r) IN
         /\ Same(x, y, {"recoveries", "buffering"})
         /\ SameRecs(x.recoveries, y.recoveries, r, {"owns", "outcome"})
         /\ y.recoveries[r].owns = FALSE /\ y.recoveries[r].outcome = "rejected"
         /\ x.recoveries[r].owns => ~y.buffering
         /\ ~x.recoveries[r].owns => y.buffering = x.buffering
<1> DEFINE b == [x.recoveries EXCEPT ![r].outcome = "rejected"]
           z == [x EXCEPT !.recoveries = b]
           y == RejectAttempt(x, r)
<1>1. SameRecs(x.recoveries, b, r, {"outcome"}) /\ b[r].outcome = "rejected" BY RecordIs
<1>2. y = EndClientBuffering(z, r) BY DEF RejectAttempt
<1> HIDE DEF b, y
<1>3. Same(x, z, {"recoveries"}) /\ z.recoveries = b /\ z.buffering = x.buffering
  BY DEF Same, Fields
<1> HIDE DEF z
<1>4. /\ DOMAIN z = Fields /\ z.recoveries \in Seq(RecoveryRecord) /\ r \in 1..Len(z.recoveries)
      /\ z.recoveries[r].owns = x.recoveries[r].owns
  BY <1>1, <1>3 DEF Same, SameRecs
<1>5. /\ Same(z, y, {"recoveries", "buffering"})
      /\ SameRecs(z.recoveries, y.recoveries, r, {"owns"}) /\ y.recoveries[r].owns = FALSE
      /\ z.recoveries[r].owns => ~y.buffering
      /\ ~z.recoveries[r].owns => y.buffering = z.buffering
  <2> DEFINE e == EndClientBuffering(z, r)
  <2>1. /\ Same(z, e, {"recoveries", "buffering"})
        /\ SameRecs(z.recoveries, e.recoveries, r, {"owns"}) /\ e.recoveries[r].owns = FALSE
        /\ z.recoveries[r].owns => ~e.buffering
        /\ ~z.recoveries[r].owns => e.buffering = z.buffering
    BY <1>4, EndIs
  <2>2. y = e BY <1>2
  <2> HIDE DEF e
  <2> QED BY <2>1, <2>2
<1> QED BY <1>3, <1>4, <1>5, <1>1 DEF y, SameRecs, Same, Fields

\* What stopIfSuperseded leaves, once there is a reason to stop.
Superseded(x, r, y) ==
  /\ Same(x, y, {"inFlight", "link", "alive", "gen", "recoveries", "buffering"})
  /\ y.inFlight = IF x.inFlight = r THEN 0 ELSE x.inFlight
  /\ IF x.recoveries[r].settled \/ y.inFlight # 0
     THEN y.link = x.link /\ y.gen = x.gen ELSE y.link = 0 /\ y.gen = x.gen + 1
  /\ SameRecs(x.recoveries, y.recoveries, r, {"owns", "outcome", "settled"})
  /\ ~y.recoveries[r].owns /\ y.recoveries[r].outcome = "rejected" /\ y.recoveries[r].settled
  /\ x.recoveries[r].owns => ~y.buffering
  /\ ~x.recoveries[r].owns => y.buffering = x.buffering

\* And what Stop does is that.
LEMMA StopIs ==
  ASSUME NEW x, DOMAIN x = Fields, x.recoveries \in Seq(RecoveryRecord),
         NEW r \in 1..Len(x.recoveries)
  PROVE  Superseded(x, r, Stop(x, r))
<1> DEFINE a == Release(x, r)
           z == IF a.recoveries[r].settled \/ a.inFlight # 0 THEN a ELSE AbortIncumbent(a)
           b == [z.recoveries EXCEPT ![r].settled = TRUE]
           d == [z EXCEPT !.recoveries = b]
           y == RejectAttempt(d, r)
<1>1. Same(x, a, {"inFlight"}) /\ a.inFlight = IF x.inFlight = r THEN 0 ELSE x.inFlight
  BY ReleaseIs
<1>2. Stop(x, r) = y BY DEF Stop
<1> HIDE DEF a
<1>3. DOMAIN a = Fields /\ a.recoveries = x.recoveries /\ a.link = x.link /\ a.gen = x.gen
      /\ a.buffering = x.buffering
  BY <1>1 DEF Same, Fields
<1>4. /\ Same(a, z, {"link", "alive", "gen"})
      /\ IF x.recoveries[r].settled \/ a.inFlight # 0
         THEN z.link = x.link /\ z.gen = x.gen ELSE z.link = 0 /\ z.gen = x.gen + 1
  BY <1>3, AbortIs DEF Same
<1> HIDE DEF z
<1>5. DOMAIN z = Fields /\ z.recoveries = x.recoveries /\ z.buffering = x.buffering
      /\ z.inFlight = a.inFlight
  BY <1>3, <1>4 DEF Same, Fields
<1>6. SameRecs(x.recoveries, b, r, {"settled"}) /\ b[r].settled = TRUE BY <1>5, RecordIs
<1> HIDE DEF b
<1>7. Same(z, d, {"recoveries"}) /\ d.recoveries = b BY <1>5 DEF Same, Fields
<1> HIDE DEF d
<1>8. /\ DOMAIN d = Fields /\ d.recoveries \in Seq(RecoveryRecord) /\ r \in 1..Len(d.recoveries)
      /\ d.recoveries[r].owns = x.recoveries[r].owns /\ d.buffering = x.buffering
      /\ d.inFlight = a.inFlight /\ d.gen = z.gen /\ d.link = z.link
  BY <1>5, <1>6, <1>7 DEF Same, SameRecs, Fields
<1>9. /\ Same(d, y, {"recoveries", "buffering"})
      /\ SameRecs(d.recoveries, y.recoveries, r, {"owns", "outcome"})
      /\ y.recoveries[r].owns = FALSE /\ y.recoveries[r].outcome = "rejected"
      /\ d.recoveries[r].owns => ~y.buffering
      /\ ~d.recoveries[r].owns => y.buffering = d.buffering
  BY <1>8, RejectIs
<1> HIDE DEF y
<1> QED BY <1>1, <1>2, <1>4, <1>8, <1>9, <1>7, <1>6 DEF Superseded, Same, Fields, SameRecs

\* beginHostRecovery forgets every automatic attempt.
LEMMA BeginIs ==
  ASSUME NEW x, DOMAIN x = Fields
  PROVE  LET y == BeginHostRecovery(x) IN
         /\ Same(x, y, {"backoff", "token", "attemptInFlight", "clientBuffering"})
         /\ y.backoff = {} /\ y.token = x.token + 1 /\ ~y.attemptInFlight
                 /\ y.clientBuffering = FALSE
BY DEF BeginHostRecovery, Same, Fields

-----------------------------------------------------------------------------
\* The stack: taking the top frame off,
LEMMA Popped ==
  ASSUME NEW k \in Seq(FrameRecord), k # <<>>
  PROVE  /\ Tail(k) \in Seq(FrameRecord) /\ All(Tail(k)) = Below(k)
         /\ All(k) = {Head(k)} \cup Below(k) /\ Below(Tail(k)) \subseteq Below(k)
         /\ Tail(k) # <<>> => Head(Tail(k)) \in Below(k)
         /\ Head(k) \in FrameRecord /\ All(k) \subseteq FrameRecord
<1>1. /\ Tail(k) \in Seq(FrameRecord) /\ Len(Tail(k)) = Len(k) - 1 /\ Head(k) = k[1]
           /\ Len(k) \in Nat
      /\ Len(k) >= 1 /\ k[1] \in FrameRecord
      /\ \A i \in 1..Len(Tail(k)) : Tail(k)[i] = k[i + 1]
      /\ \A i \in 1..Len(k) : k[i] \in FrameRecord
  OBVIOUS
<1>2. ASSUME NEW i \in 2..Len(k) PROVE i - 1 \in 1..Len(Tail(k)) /\ Tail(k)[i - 1] = k[i]
  <2> DEFINE j == i - 1
  <2>1. j \in 1..Len(Tail(k)) /\ j + 1 = i BY <1>1
  <2> HIDE DEF j
  <2>2. Tail(k)[j] = k[i] BY <1>1, <2>1
  <2> QED BY <2>1, <2>2 DEF j
<1>3. All(Tail(k)) = Below(k) BY <1>1, <1>2 DEF All, Below
<1>4. All(k) = {Head(k)} \cup Below(k) BY <1>1 DEF All, Below
<1>5. Below(Tail(k)) \subseteq Below(k) BY <1>1 DEF Below
<1>6. Tail(k) # <<>> => Head(Tail(k)) \in Below(k)
  <2> SUFFICES ASSUME Tail(k) # <<>> PROVE Head(Tail(k)) \in Below(k) OBVIOUS
  <2> QED BY <1>1 DEF Below
<1> QED BY <1>1, <1>3, <1>4, <1>5, <1>6 DEF All

\* putting one on,
LEMMA Pushed ==
  ASSUME NEW k \in Seq(FrameRecord), NEW f \in FrameRecord
  PROVE  LET l == <<f>> \o k IN
         /\ l \in Seq(FrameRecord) /\ l # <<>> /\ Head(l) = f /\ Tail(l) = k
         /\ Below(l) = All(k) /\ All(l) = {f} \cup All(k)
<1> DEFINE l == <<f>> \o k
<1>1. /\ l \in Seq(FrameRecord) /\ Len(l) = Len(k) + 1 /\ l[1] = f /\ Len(k) \in Nat
      /\ \A i \in 1..Len(k) : l[i + 1] = k[i]
      /\ l # <<>> /\ Head(l) = f
  OBVIOUS
<1>2. Tail(l) = k OBVIOUS
<1> HIDE DEF l
<1> QED BY <1>1, <1>2, Popped DEF l

\* with none,
LEMMA Emptied == All(<<>>) = {} /\ Below(<<>>) = {} /\ <<>> \in Seq(FrameRecord)
BY DEF All, Below

\* and with one.
LEMMA Single ==
  ASSUME NEW f \in FrameRecord
  PROVE  /\ <<f>> \in Seq(FrameRecord) /\ <<f>> # <<>> /\ Head(<<f>>) = f /\ Tail(<<f>>) = <<>>
         /\ All(<<f>>) = {f} /\ Below(<<f>>) = {}
BY DEF All, Below

\* At most one frame of a first dial, before and after.

\* At most one frame of a first dial, before and after a frame is taken off,
LEMMA OncePopped ==
  ASSUME NEW k \in Seq(FrameRecord), k # <<>>, Once(k)
  PROVE  Once(Tail(k)) /\ (Head(k).kind = "first" => \A f \in Below(k) : f.kind # "first")
<1> QED BY DEF Once, Below

\* and put on.
LEMMA OncePushed ==
  ASSUME NEW k \in Seq(FrameRecord), NEW f \in FrameRecord, Once(k), f.kind # "first"
  PROVE  Once(<<f>> \o k)
<1> DEFINE l == <<f>> \o k
<1>1. /\ Len(l) = Len(k) + 1 /\ l[1] = f /\ Len(k) \in Nat /\ \A i \in 1..Len(k) : l[i + 1] = k[i]
  OBVIOUS
<1>2. ASSUME NEW i \in 1..Len(l), l[i].kind = "first" PROVE i - 1 \in 1..Len(k) /\ l[i] = k[i - 1]
  <2> DEFINE j == i - 1
  <2>1. i # 1 BY <1>1, <1>2
  <2>2. j \in 1..Len(k) /\ j + 1 = i BY <1>1, <2>1
  <2> HIDE DEF j
  <2>3. l[i] = k[j] BY <1>1, <2>2
  <2> QED BY <2>2, <2>3 DEF j
<1> HIDE DEF l
<1>3. ASSUME NEW i \in 1..Len(l), NEW j \in 1..Len(l), l[i].kind = "first", l[j].kind = "first"
      PROVE  i = j
  BY <1>2, <1>3 DEF Once
<1> QED BY <1>3 DEF Once, l

\* No recovery in flight has its frame on top, and no subscriber of the reconnect runs.
Calm(x, k) == ~Live(x, k, HostKinds) /\ ~Top(k, Unguarded)

\* Fields that no conjunct of the invariant depends on, and that a step may change.
Unread == {"handle", "alive", "tornDown", "credentialed", "policy"}

\* What does not depend on whether the session is closing.
Core(x, k) ==
  /\ Typed(x, k) /\ Attempts(x, k) /\ Recoveries(x, k) /\ Starts(x, k)
  /\ Generations(x, k) /\ Buffers(x, k)

\* The types of what the records hold.
LEMMA TypeFacts ==
  ASSUME NEW x, NEW k, Typed(x, k)
  PROVE  /\ \A c \in x.calls : c \in CallRecord /\ c.id \in Nat /\ c.gen \in Nat
              /\ c.plan \in Plans
         /\ \A r \in 1..Len(x.recoveries) :
              /\ x.recoveries[r] \in RecoveryRecord /\ x.recoveries[r].epoch \in Nat
              /\ x.recoveries[r].settled \in BOOLEAN /\ x.recoveries[r].owns \in BOOLEAN
         /\ \A f \in All(k) : f \in FrameRecord /\ f.id \in Nat /\ f.plan \in Plans
         /\ Len(x.recoveries) \in Nat
<1>2. \A r \in 1..Len(x.recoveries) : x.recoveries[r] \in RecoveryRecord BY DEF Typed
<1>3. \A f \in All(k) : f \in FrameRecord BY DEF Typed, All
<1>4. Len(x.recoveries) \in Nat BY DEF Typed
<1> QED BY <1>2, <1>3, <1>4 DEF RecoveryRecord, FrameRecord, Typed, CallRecord

\* A change of those fields alone.
LEMMA UnreadKeeps ==
  ASSUME NEW x, NEW y, NEW k, RecInv(x, k), Same(x, y, Unread)
  PROVE  RecInv(y, k)
<1>1. Typed(x, k) /\ Attempts(x, k) /\ Recoveries(x, k) /\ Driven(x, k) /\ Starts(x, k)
      /\ Generations(x, k) /\ Buffers(x, k) /\ (~x.closing => Holds(x, k) /\ Budget(x, k))
  BY DEF RecInv
<1>2. /\ DOMAIN y = Fields
      /\ y.state = x.state /\ y.closing = x.closing /\ y.attempts = x.attempts
      /\ y.backoff = x.backoff /\ y.token = x.token /\ y.attemptInFlight = x.attemptInFlight
      /\ y.clientBuffering = x.clientBuffering /\ y.disposed = x.disposed
      /\ y.inFlight = x.inFlight /\ y.recoveries = x.recoveries
      /\ y.replacedFirstDial = x.replacedFirstDial /\ y.gen = x.gen /\ y.link = x.link
      /\ y.calls = x.calls /\ y.buffering = x.buffering /\ y.dialWindow = x.dialWindow
      /\ y.lossSpent = x.lossSpent
  BY DEF Same, Fields, Unread
<1>3. Typed(y, k) BY <1>1, <1>2 DEF Typed
<1>4. Attempts(y, k) BY <1>1, <1>2 DEF Attempts, AutoCalls, Quiet
<1>5. Recoveries(y, k) BY <1>1, <1>2 DEF Recoveries, Live
<1>6. Driven(y, k) BY <1>1, <1>2 DEF Driven
<1>7. Starts(y, k) BY <1>1, <1>2 DEF Starts
<1>8. Generations(y, k) BY <1>1, <1>2 DEF Generations, Live, Stray, Epoch
<1>9. Buffers(y, k) BY <1>1, <1>2 DEF Buffers, Live
<1>10. ~y.closing => Holds(y, k) BY <1>1, <1>2 DEF Holds, Live
<1>11. ~y.closing => Budget(y, k) BY <1>1, <1>2 DEF Budget, Live, AutoCalls, Sound
<1> QED BY <1>3, <1>4, <1>5, <1>6, <1>7, <1>8, <1>9, <1>10, <1>11 DEF RecInv

\* The connection goes, and perhaps the generation advances.
LEMMA DetachKeeps ==
  ASSUME NEW x, NEW y, NEW k, RecInv(x, k), Calm(x, k), Same(x, y, {"link", "alive", "gen"}),
         y.link = 0, y.gen \in {x.gen, x.gen + 1}
  PROVE  RecInv(y, k)
<1>1. Typed(x, k) /\ Attempts(x, k) /\ Recoveries(x, k) /\ Driven(x, k) /\ Starts(x, k)
      /\ Generations(x, k) /\ Buffers(x, k) /\ (~x.closing => Holds(x, k) /\ Budget(x, k))
  BY DEF RecInv
<1>2. /\ DOMAIN y = Fields
      /\ y.state = x.state /\ y.closing = x.closing /\ y.attempts = x.attempts
      /\ y.backoff = x.backoff /\ y.token = x.token /\ y.attemptInFlight = x.attemptInFlight
      /\ y.clientBuffering = x.clientBuffering /\ y.disposed = x.disposed
      /\ y.inFlight = x.inFlight /\ y.recoveries = x.recoveries
      /\ y.replacedFirstDial = x.replacedFirstDial
      /\ y.calls = x.calls /\ y.buffering = x.buffering /\ y.dialWindow = x.dialWindow
      /\ y.lossSpent = x.lossSpent
  BY DEF Same, Fields
<1>3. Typed(y, k) BY <1>1, <1>2 DEF Typed
<1>4. Attempts(y, k) BY <1>1, <1>2 DEF Attempts, AutoCalls, Quiet
<1>5. Recoveries(y, k) BY <1>1, <1>2 DEF Recoveries, Live
<1>6. Driven(y, k) BY <1>1, <1>2 DEF Driven
<1>7. Starts(y, k) BY <1>1, <1>2 DEF Starts
<1>8. Generations(y, k)
  <2>1. ~Live(y, k, {"boundary"}) /\ ~Live(y, k, {"aborted"})
        /\ ~Live(y, k, {"aborted", "announced"})
        /\ ~Live(y, k, {"activated", "drained"})
    BY <1>2 DEF Calm, Live, HostKinds, Top
  <2>2. ~Live(x, k, {"boundary"}) BY <1>2 DEF Calm, Live, HostKinds, Top
  <2>3. x.gen \in Nat /\ \A c \in x.calls : c.gen \in Nat BY <1>1, TypeFacts DEF Typed
  <2>4. \A r \in 1..Len(x.recoveries) : x.recoveries[r].epoch \in Nat BY <1>1, TypeFacts
  <2>5. \A c \in y.calls : c.gen <= y.gen /\ (Stray(y, c) => y.gen = x.gen /\ Stray(x, c))
    BY <1>1, <1>2, <2>3 DEF Generations, Stray
  <2>6. \A c \in y.calls : Stray(y, c) =>
          \E f \in All(k) : f.kind = "boundary" /\ ~y.recoveries[f.id].settled
            /\ Epoch(y, f) = y.gen + 2
    BY <1>1, <1>2, <2>5 DEF Generations, Epoch
  <2>7. \A r \in 1..Len(y.recoveries) :
       /\ y.recoveries[r].epoch <= y.gen + 2
       /\ y.recoveries[r].settled => y.recoveries[r].epoch <= y.gen + 1
    <3> SUFFICES ASSUME NEW r \in 1..Len(x.recoveries)
                 PROVE  /\ x.recoveries[r].epoch <= y.gen + 2
                        /\ x.recoveries[r].settled => x.recoveries[r].epoch <= y.gen + 1
      BY <1>2
    <3> DEFINE e == x.recoveries[r].epoch
    <3>1. e \in Nat /\ e <= x.gen + 2 /\ (x.recoveries[r].settled => e <= x.gen + 1)
      BY <1>1, <2>4 DEF Generations
    <3> HIDE DEF e
    <3> QED BY <1>2, <2>3, <3>1 DEF e
  <2> QED BY <1>1, <1>2, <2>1, <2>2, <2>5, <2>6, <2>7 DEF Generations
<1>9. Buffers(y, k) BY <1>1, <1>2 DEF Buffers, Live
<1>10. ~y.closing => Holds(y, k) BY <1>1, <1>2 DEF Holds, Live
<1>11. ~y.closing => Budget(y, k) BY <1>1, <1>2 DEF Budget, Live, AutoCalls, Sound
<1> QED BY <1>3, <1>4, <1>5, <1>6, <1>7, <1>8, <1>9, <1>10, <1>11 DEF RecInv

\* A frame that holds nothing goes.
LEMMA PopCore ==
  ASSUME NEW x, NEW k, Core(x, k), k # <<>>, Head(k).kind \notin HostKinds,
         Head(k).kind = "failed" => ~x.recoveries[Head(k).id].owns
  PROVE  /\ Core(x, Tail(k)) /\ Calm(x, Tail(k))
         /\ All(Tail(k)) = Below(k) /\ All(k) = {Head(k)} \cup Below(k)
<1> DEFINE l == Tail(k)
<1>1. Typed(x, k) /\ Attempts(x, k) /\ Recoveries(x, k) /\ Starts(x, k)
      /\ Generations(x, k) /\ Buffers(x, k)
  BY DEF Core
<1>2. /\ l \in Seq(FrameRecord) /\ All(l) = Below(k)
      /\ All(k) = {Head(k)} \cup Below(k) /\ Below(l) \subseteq Below(k)
      /\ l # <<>> => Head(l) \in Below(k)
  BY <1>1, Popped DEF Typed
<1>a. Once(l) BY <1>1, OncePopped DEF Typed, Starts
<1> HIDE DEF l
<1>b. Calm(x, l) BY <1>1, <1>2 DEF Calm, Live, Top, Recoveries, Attempts
<1>c. ~Top(l, Unguarded) /\ ~Live(x, l, HostKinds) BY <1>b DEF Calm
<1>d. ~Top(l, {"window"}) /\ ~Top(l, {"planned"}) /\ ~Top(l, {"report"})
      /\ ~Top(l, {"window", "planned"})
  BY <1>c DEF Top, Unguarded
<1>e. /\ ~Live(x, l, {"boundary", "aborted"}) /\ ~Live(x, l, {"announced"})
      /\ ~Live(x, l, {"activated", "drained"}) /\ ~Live(x, l, {"boundary"})
              /\ ~Live(x, l, {"aborted"})
      /\ ~Live(x, l, {"aborted", "announced"})
      /\ ~Live(x, k, HostKinds) /\ ~Live(x, k, {"boundary"})
  BY <1>c DEF Live, Top, HostKinds
<1>3. Typed(x, l) BY <1>1, <1>2, <1>d DEF Typed
<1>4. Attempts(x, l) BY <1>1, <1>2, <1>c, <1>d DEF Attempts
<1>5. Recoveries(x, l) BY <1>1, <1>2, <1>e DEF Recoveries
<1>7. Starts(x, l) BY <1>1, <1>2, <1>a DEF Starts
<1>8. Generations(x, l) BY <1>1, <1>2, <1>e DEF Generations, HostKinds
<1>9. Buffers(x, l) BY <1>1, <1>2, <1>e DEF Buffers
<1> QED BY <1>2, <1>b, <1>3, <1>4, <1>5, <1>7, <1>8, <1>9 DEF Core, l

\* The same with the whole invariant: it holds for the rest of the stack.
LEMMA PopKeeps ==
  ASSUME NEW x, NEW k, RecInv(x, k), k # <<>>,
         Head(k).kind \in {"first", "freshPlanned", "expired", "parked", "freshDial"},
         Head(k).kind = "freshDial" => Head(k).id # x.token \/ x.state # "RECONNECTING"
  PROVE  RecInv(x, Tail(k)) /\ Calm(x, Tail(k))
<1> DEFINE l == Tail(k)
<1>1. Core(x, k) /\ Driven(x, k) /\ (~x.closing => Holds(x, k) /\ Budget(x, k)) BY DEF RecInv, Core
<1>2. Core(x, l) /\ Calm(x, l) /\ All(l) = Below(k) /\ All(k) = {Head(k)} \cup Below(k)
  BY <1>1, PopCore DEF HostKinds
<1> HIDE DEF l
<1>3. /\ ~Top(k, Unguarded) /\ ~Top(k, {"window", "planned"}) /\ ~Live(x, k, {"drained"})
      /\ ~Live(x, k, {"activated"})
      /\ ~Top(l, {"window", "planned"}) /\ ~Live(x, l, {"drained"}) /\ ~Live(x, l, {"activated"})
      /\ ~Top(l, {"planned"})
  BY <1>2 DEF Calm, Live, Top, HostKinds, Unguarded
<1> QED BY <1>2, <1>1, <1>3 DEF RecInv, Core, l, Holds, Driven, Budget

\* A close is recorded.
LEMMA ClosingKeeps ==
  ASSUME NEW x, NEW k, Core(x, k)
  PROVE  RecInv(CloseWithReason(x), k)
<1> DEFINE y == CloseWithReason(x)
<1>1. Typed(x, k) /\ Attempts(x, k) /\ Recoveries(x, k) /\ Starts(x, k)
      /\ Generations(x, k) /\ Buffers(x, k) /\ DOMAIN x = Fields
  BY DEF Core, Typed
<1>2. CASE x.state = "CLOSED" BY <1>1, <1>2, CloseReasonIs DEF Typed, RecInv, Driven
<1>3. CASE x.state # "CLOSED"
  <2>1. Same(x, y, {"closing"}) /\ y.closing = TRUE BY <1>1, <1>3, CloseReasonIs
  <2> HIDE DEF y
  <2>2. /\ DOMAIN y = Fields
        /\ y.state = x.state /\ y.attempts = x.attempts
        /\ y.backoff = x.backoff /\ y.token = x.token /\ y.attemptInFlight = x.attemptInFlight
        /\ y.clientBuffering = x.clientBuffering /\ y.disposed = x.disposed
        /\ y.inFlight = x.inFlight /\ y.recoveries = x.recoveries
        /\ y.replacedFirstDial = x.replacedFirstDial /\ y.gen = x.gen /\ y.link = x.link
        /\ y.calls = x.calls /\ y.buffering = x.buffering /\ y.dialWindow = x.dialWindow
        /\ y.lossSpent = x.lossSpent
    BY <2>1 DEF Same, Fields
  <2>3. Typed(y, k) BY <1>1, <2>1, <2>2 DEF Typed
  <2>4. Attempts(y, k) BY <1>1, <2>2 DEF Attempts, AutoCalls, Quiet
  <2>5. Recoveries(y, k) BY <1>1, <2>2 DEF Recoveries, Live
  <2>7. Starts(y, k) BY <1>1, <2>2 DEF Starts
  <2>8. Generations(y, k) BY <1>1, <2>2 DEF Generations, Live, Stray, Epoch
  <2>9. Buffers(y, k) BY <1>1, <2>2 DEF Buffers, Live
  <2> QED BY <2>1, <2>3, <2>4, <2>5, <2>7, <2>8, <2>9 DEF RecInv, Driven, y
<1> QED BY <1>2, <1>3

\* The fresh dial that waits for its boundary has a sound plan.
FreshSound(x, k) ==
  ~x.closing => \A f \in All(k) : f.kind = "freshDial" /\ f.id = x.token => Sound(x, f.plan)

\* The park: whatever was under way for the reconnect is over.
LEMMA ParkKeeps ==
  ASSUME NEW x, NEW k, Core(x, k), FreshSound(x, k), Calm(x, k), x.inFlight = 0,
         ~Parks(x) => RecInv(x, k),
         x.state = "CONNECTING" => k = <<>> /\ \A c \in x.calls : c.by # "first"
  PROVE  RecInv(ParkUpstreamLost(x), k)
<1> DEFINE y == ParkUpstreamLost(x)
<1>1. Typed(x, k) /\ Attempts(x, k) /\ Recoveries(x, k) /\ Starts(x, k)
      /\ Generations(x, k) /\ Buffers(x, k) /\ DOMAIN x = Fields
  BY DEF Core, Typed
<1>2. CASE ~Parks(x) BY <1>1, <1>2, ParkIs
<1>3. CASE Parks(x)
  <2>1. /\ Same(x, y, {"link", "alive", "gen", "token", "attemptInFlight", "backoff",
                             "clientBuffering", "buffering", "state", "dialWindow"})
        /\ y.state = "UPSTREAM_LOST" /\ y.dialWindow = TRUE /\ y.backoff = {}
        /\ ~y.clientBuffering /\ ~y.attemptInFlight
        /\ x.clientBuffering \in BOOLEAN => y.clientBuffering = FALSE
        /\ x.clientBuffering => ~y.buffering
        /\ ~x.clientBuffering => y.buffering = x.buffering
        /\ x.attemptInFlight => y.link = 0 /\ y.gen = x.gen + 1 /\ y.token = x.token + 1
        /\ ~x.attemptInFlight => y.link = x.link /\ y.gen = x.gen /\ y.token = x.token
    BY <1>1, <1>3, ParkIs
  <2> HIDE DEF y
  <2>2. /\ DOMAIN y = Fields
        /\ y.closing = x.closing /\ y.attempts = x.attempts /\ y.disposed = x.disposed
        /\ y.inFlight = x.inFlight /\ y.recoveries = x.recoveries
        /\ y.replacedFirstDial = x.replacedFirstDial /\ y.calls = x.calls
        /\ y.lossSpent = x.lossSpent
    BY <2>1 DEF Same, Fields
  <2>a. /\ x.state \in {"CONNECTING", "ACTIVE", "RECONNECTING"} /\ ~x.disposed BY <1>3 DEF Parks
  <2>b. /\ ~Top(k, Unguarded) /\ ~Top(k, {"window"}) /\ ~Top(k, {"window", "planned"})
             /\ ~Top(k, {"report"})
        /\ ~Top(k, {"planned"})
        /\ \A h \in SUBSET HostKinds : ~Live(x, k, h) /\ ~Live(y, k, h)
    BY <2>2 DEF Calm, Live, Top, HostKinds, Unguarded
  <2>c. /\ ~Live(y, k, {"boundary"}) /\ ~Live(y, k, {"aborted"}) /\ ~Live(y, k, {"announced"})
        /\ ~Live(y, k, {"aborted", "announced"}) /\ ~Live(y, k, {"activated", "drained"})
        /\ ~Live(y, k, {"boundary", "aborted"}) /\ ~Live(y, k, {"drained"})
                /\ ~Live(y, k, {"activated"})
    BY <2>b DEF HostKinds
  <2>t. x.gen \in Nat /\ x.token \in Nat /\ x.link \in Nat BY <1>1 DEF Typed
  <2>e. y.clientBuffering \in BOOLEAN BY <1>1, <2>1 DEF Typed
  <2>3. Typed(y, k) BY <1>1, <2>1, <2>2, <2>a, <2>b, <2>e, <2>t DEF Typed, States
  <2>4. Attempts(y, k) BY <1>1, <2>1, <2>2, <2>b, <2>t, TypeFacts DEF Attempts, AutoCalls, Quiet
  <2>5. Recoveries(y, k) BY <1>1, <2>1, <2>2, <2>c DEF Recoveries
  <2>6. Driven(y, k) BY <2>1 DEF Driven
  <2>7. Starts(y, k) BY <1>1, <2>1, <2>2, <2>a, Emptied DEF Starts
  <2>8. Generations(y, k)
    <3>4. y.gen \in {x.gen, x.gen + 1} BY <2>1
    <3>5. \A c \in y.calls : c.gen <= y.gen /\ (Stray(y, c) => y.gen = x.gen /\ Stray(x, c))
      BY <1>1, <2>1, <2>2, <2>t, <2>a, TypeFacts DEF Generations, Stray
    <3> QED BY <1>1, <2>2, <2>c, <3>5, <2>b, <2>t, <3>4, TypeFacts DEF Generations, HostKinds, Epoch
  <2>9. Buffers(y, k) BY <1>1, <2>1, <2>2, <2>a, <2>c DEF Buffers
  <2>10. Holds(y, k) BY <2>1 DEF Holds
  <2>11. ~y.closing => Budget(y, k)
    BY <1>1, <2>1, <2>2, <2>b, <2>t, TypeFacts DEF Budget, FreshSound, Attempts,
       AutoCalls, Sound
  <2> QED BY <2>3, <2>4, <2>5, <2>6, <2>7, <2>8, <2>9, <2>10, <2>11 DEF RecInv, y
<1> QED BY <1>2, <1>3

\* The generations when no recovery is live, and calls come and go.
LEMMA GenKeeps ==
  ASSUME NEW x, NEW y, NEW k, NEW l, Typed(x, k), Generations(x, k), ~Live(x, k, {"boundary"}),
         ~Live(y, l, {"boundary"}), ~Live(y, l, {"aborted"}),
           ~Live(y, l, {"aborted", "announced"}),
         ~Live(y, l, {"activated", "drained"}),
         y.recoveries = x.recoveries, y.inFlight \in {0, x.inFlight},
         y.gen \in {x.gen, x.gen + 1, x.gen + 2},
         \A c \in y.calls :
           \/ c \in x.calls /\ (y.gen = x.gen /\ Stray(y, c) => Stray(x, c))
           \/ c.by # "host" /\ c.gen = y.gen /\ ~Stray(y, c),
         \A f \in All(k) : f.kind = "boundary" => f \in All(l)
  PROVE  Generations(y, l)
<1>1. x.gen \in Nat /\ \A c \in x.calls : c.gen \in Nat BY TypeFacts DEF Typed
<1>2. \A r \in 1..Len(x.recoveries) : x.recoveries[r].epoch \in Nat BY TypeFacts
<1>5. \A r \in 1..Len(y.recoveries) :
     /\ y.recoveries[r].epoch <= y.gen + 2
     /\ y.recoveries[r].settled => y.recoveries[r].epoch <= y.gen + 1
  BY <1>1, <1>2 DEF Generations
<1>6. \A c \in y.calls : c.by = "host" => c.gen = y.recoveries[c.id].epoch BY DEF Generations
<1>7. ASSUME NEW c \in y.calls, Stray(y, c)
      PROVE  \E f \in All(l) : f.kind = "boundary" /\ ~y.recoveries[f.id].settled
               /\ Epoch(y, f) = y.gen + 2
  <2>1. c \in x.calls /\ (y.gen = x.gen => Stray(x, c)) /\ c.gen = y.gen BY <1>7 DEF Stray
  <2>2. c.gen <= x.gen BY <2>1 DEF Generations
  <2>3. y.gen = x.gen BY <1>1, <2>1, <2>2
  <2>4. Stray(x, c) BY <2>1, <2>3
  <2>5. PICK f \in All(k) : f.kind = "boundary" /\ ~x.recoveries[f.id].settled
               /\ Epoch(x, f) = x.gen + 2
    BY <2>1, <2>4 DEF Generations
  <2> QED BY <2>3, <2>5 DEF Epoch
<1>8. \A c \in y.calls : c.gen <= y.gen
  <2>1. \A c \in x.calls : c.gen <= x.gen BY DEF Generations
  <2> QED BY <1>1, <2>1
<1>9. ~(y.inFlight # 0 /\ ~y.recoveries[y.inFlight].settled) BY DEF Generations
<1>10. \A r, q \in 1..Len(y.recoveries) :
         r <= q => y.recoveries[r].epoch <= y.recoveries[q].epoch
  BY DEF Generations
<1> QED BY <1>5, <1>6, <1>7, <1>8, <1>9, <1>10 DEF Generations

\* What a calm stack is not.
LEMMA CalmFacts ==
  ASSUME NEW x, NEW k, Calm(x, k)
  PROVE  /\ ~Live(x, k, {"boundary"}) /\ ~Live(x, k, {"aborted"}) /\ ~Live(x, k, {"announced"})
         /\ ~Live(x, k, {"aborted", "announced"}) /\ ~Live(x, k, {"activated", "drained"})
         /\ ~Live(x, k, {"boundary", "aborted"}) /\ ~Live(x, k, {"drained"})
                 /\ ~Live(x, k, {"activated"})
         /\ ~Live(x, k, HostKinds)
         /\ ~Top(k, Unguarded) /\ ~Top(k, {"window"}) /\ ~Top(k, {"window", "planned"})
         /\ ~Top(k, {"report"}) /\ ~Top(k, {"planned"})
BY DEF Calm, Live, Top, HostKinds, Unguarded

\* It stays calm while the recovery in flight is the same,
LEMMA CalmAlike ==
  ASSUME NEW x, NEW y, NEW k, Calm(x, k), y.inFlight = x.inFlight
  PROVE  Calm(y, k)
BY DEF Calm, Live

\* and an empty stack is.
LEMMA IdleCalm ==
  ASSUME NEW x PROVE Calm(x, <<>>)
BY DEF Calm, Live, Top

\* A reconnect's own subscribers wait on top of what was there.
UnguardedFrame(x, f) ==
  /\ f \in FrameRecord /\ f.kind \in {"window", "planned"}
  /\ f.kind = "window" => x.attempts < MaxAttempts
  /\ f.plan.spent = 0

\* The transition to RECONNECTING, with its subscribers still to run.
LEMMA EnterKeeps ==
  ASSUME NEW x, NEW k, RecInv(x, k), Calm(x, k), x.state = "ACTIVE",
         NEW f, UnguardedFrame(x, f), \A g \in All(k) : g.kind # "failed"
  PROVE  RecInv(EnterReconnecting(x), <<f>> \o k)
<1> DEFINE y == EnterReconnecting(x)
           l == <<f>> \o k
<1>1. Typed(x, k) /\ Attempts(x, k) /\ Recoveries(x, k) /\ Driven(x, k) /\ Starts(x, k)
      /\ Generations(x, k) /\ Buffers(x, k) /\ (~x.closing => Holds(x, k) /\ Budget(x, k))
  BY DEF RecInv
<1>2. y.state = "RECONNECTING" /\ DOMAIN x = Fields /\ Same(x, y, {"state"})
  BY <1>1 DEF Typed, EnterReconnecting, Same, Fields
<1> HIDE DEF y
<1>3. /\ DOMAIN y = Fields
      /\ y.closing = x.closing /\ y.attempts = x.attempts
      /\ y.backoff = x.backoff /\ y.token = x.token /\ y.attemptInFlight = x.attemptInFlight
      /\ y.clientBuffering = x.clientBuffering /\ y.disposed = x.disposed
      /\ y.inFlight = x.inFlight /\ y.recoveries = x.recoveries
      /\ y.replacedFirstDial = x.replacedFirstDial /\ y.gen = x.gen /\ y.link = x.link
      /\ y.calls = x.calls /\ y.buffering = x.buffering /\ y.dialWindow = x.dialWindow
      /\ y.lossSpent = x.lossSpent
  BY <1>2 DEF Same, Fields
<1>4. /\ l \in Seq(FrameRecord) /\ l # <<>> /\ Head(l) = f
      /\ Below(l) = All(k) /\ All(l) = {f} \cup All(k)
  BY <1>1, Pushed DEF Typed, UnguardedFrame
<1>5. Once(l) BY <1>1, OncePushed DEF Typed, UnguardedFrame, Starts
<1> HIDE DEF l
<1>6. f.kind \in {"window", "planned"} /\ f.plan.spent = 0
      /\ (f.kind = "window" => x.attempts < MaxAttempts)
  BY DEF UnguardedFrame
<1>7. /\ Top(l, Unguarded) /\ (Top(l, {"window"}) => x.attempts < MaxAttempts)
           /\ ~Top(l, {"report"})
      /\ \A h \in {{"boundary"}, {"aborted"}, {"announced"}, {"aborted", "announced"},
              {"activated", "drained"},
                   {"boundary", "aborted"}, {"drained"}, {"activated"}, HostKinds} :
                     ~Live(y, l, h)
  BY <1>4, <1>6 DEF Top, Unguarded, Live, HostKinds
<1>8. /\ ~Live(y, l, {"boundary"}) /\ ~Live(y, l, {"aborted"}) /\ ~Live(y, l, {"announced"})
      /\ ~Live(y, l, {"aborted", "announced"}) /\ ~Live(y, l, {"activated", "drained"})
      /\ ~Live(y, l, {"boundary", "aborted"}) /\ ~Live(y, l, {"drained"})
              /\ ~Live(y, l, {"activated"})
      /\ ~Live(y, l, HostKinds)
  BY <1>7
<1>9. /\ ~Live(x, k, {"boundary"}) /\ ~Live(x, k, HostKinds) /\ ~Live(x, k, {"activated"})
           /\ ~Live(x, k, {"drained"})
      /\ ~Top(k, Unguarded)
  BY CalmFacts
<1>10. x.inFlight = 0 /\ Quiet(x) BY <1>1, <1>9 DEF Recoveries, Attempts, Quiet
<1>11. \A g \in All(k) : g.kind \notin Unguarded
  BY <1>1, <1>9, Popped, Emptied DEF Top, Typed, Attempts
<1>12. \A g \in All(k) : g.kind = "freshDial" => g.id <= x.token /\ g.id # x.token
  BY <1>1 DEF Attempts
<1>13. Typed(y, l) BY <1>1, <1>2, <1>3, <1>4, <1>6, <1>7 DEF Typed, States, HostKinds
<1>14. Attempts(y, l)
  BY <1>1, <1>2, <1>3, <1>4, <1>6, <1>7, <1>10, <1>11, <1>12 DEF Attempts, AutoCalls, Quiet
<1>15. Recoveries(y, l)
  BY <1>1, <1>2, <1>3, <1>4, <1>6, <1>8, <1>10 DEF Typed, Recoveries, HostKinds
<1>16. Driven(y, l) BY <1>7 DEF Driven
<1>17. Starts(y, l) BY <1>1, <1>2, <1>3, <1>4, <1>5, <1>6 DEF Starts
<1>18. Generations(y, l) BY <1>2, <1>3, <1>1, <1>4, <1>8, <1>9, GenKeeps DEF Stray
<1>19. Buffers(y, l) BY <1>1, <1>2, <1>3, <1>4, <1>6, <1>8, <1>10 DEF Buffers
<1>20. ~y.closing => Holds(y, l) BY <1>1, <1>2, <1>3, <1>4, <1>6, <1>8, <1>10 DEF Holds
<1>21. ~y.closing => Budget(y, l)
  BY <1>1, <1>2, <1>3, <1>4, <1>6, <1>7, <1>8, <1>9, <1>10, <1>12 DEF Budget, AutoCalls,
     Sound, Quiet, Attempts
<1> QED BY <1>13, <1>14, <1>15, <1>16, <1>17, <1>18, <1>19, <1>20, <1>21 DEF RecInv, y, l

\* A plan is sound once the connection is gone.
Fits(x, p) ==
  IF p.planned THEN x.attempts = x.lossSpent + p.spent ELSE p.spent = 0
    /\ x.attempts = x.lossSpent

\* The dial of an automatic reconnect begins.
LEMMA RunKeeps ==
  ASSUME NEW x, NEW k, Core(x, k), Calm(x, k), FreshSound(x, k), x.state = "RECONNECTING",
         Quiet(x),
         ~x.closing => Holds(x, k), NEW plan \in Plans, ~x.closing => Fits(x, plan)
  PROVE  RecInv(RunReconnect(x, plan), k)
<1> DEFINE y == RunReconnect(x, plan)
           run == [plan EXCEPT !.fresh = FALSE]
<1>1. Typed(x, k) /\ Attempts(x, k) /\ Recoveries(x, k) /\ Starts(x, k)
      /\ Generations(x, k) /\ Buffers(x, k)
  BY DEF Core
<1>t. x.gen \in Nat /\ x.token \in Nat /\ x.link \in Nat /\ DOMAIN x = Fields BY <1>1 DEF Typed
<1>2. /\ Same(x, y, {"token", "attemptInFlight", "link", "alive", "gen", "calls"})
      /\ y.token = x.token + 1 /\ y.attemptInFlight = TRUE /\ y.link = 0
      /\ y.gen \in {x.gen, x.gen + 1, x.gen + 2}
      /\ \E ph \in {"closing", "dialing"} :
           y.calls = x.calls \cup {NewCall("auto", x.token + 1, ph, y.gen, run)}
  BY <1>t, RunIs
<1>p. run \in Plans /\ run.planned = plan.planned /\ run.spent = plan.spent BY DEF Plans
<1> HIDE DEF y, run
<1>3. PICK ph \in {"closing", "dialing"} :
         y.calls = x.calls \cup {NewCall("auto", x.token + 1, ph, y.gen, run)}
  BY <1>2
<1> DEFINE d == NewCall("auto", x.token + 1, ph, y.gen, run)
<1>4. /\ d.by = "auto" /\ d.id = x.token + 1 /\ d.phase = ph /\ d.gen = y.gen /\ d.plan = run
      /\ d \in CallRecord /\ y.gen \in Nat
  BY <1>t, <1>2, <1>p DEF NewCall, CallRecord
<1>5. y.calls = x.calls \cup {d} BY <1>3
<1> HIDE DEF d
<1>6. /\ DOMAIN y = Fields
      /\ y.state = x.state /\ y.closing = x.closing /\ y.attempts = x.attempts
      /\ y.backoff = x.backoff
      /\ y.clientBuffering = x.clientBuffering /\ y.disposed = x.disposed
      /\ y.inFlight = x.inFlight /\ y.recoveries = x.recoveries
      /\ y.replacedFirstDial = x.replacedFirstDial
      /\ y.buffering = x.buffering /\ y.dialWindow = x.dialWindow
      /\ y.lossSpent = x.lossSpent
  BY <1>2 DEF Same, Fields
<1>7. Calm(y, k) BY <1>6, CalmAlike
<1>8. x.inFlight = 0 /\ ~x.attemptInFlight /\ x.backoff = {} BY DEF Quiet
<1>9. \A c \in x.calls : c.by = "auto" => c.id <= x.token /\ c.id # x.token /\ c.id \in Nat
  BY <1>1, <1>8, TypeFacts DEF Attempts, AutoCalls
<1>10. \A f \in All(k) : f.kind = "freshDial" => f.id <= x.token /\ f.id \in Nat
       /\ f.id # x.token + 1
  BY <1>1, <1>t, TypeFacts DEF Attempts
<1>13. Typed(y, k) BY <1>1, <1>t, <1>2, <1>4, <1>5, <1>6, CalmFacts DEF Typed
<1>14. Attempts(y, k)
  <2>1. /\ \A c \in AutoCalls(y) : c.id <= y.token
        /\ \A c, e \in AutoCalls(y) : c.id = e.id => c = e
        /\ \E c \in AutoCalls(y) : c.id = y.token
    <3>1. \A c \in AutoCalls(y) : c = d \/ (c \in AutoCalls(x) /\ c.id <= x.token
          /\ c.id # x.token /\ c.id \in Nat)
      BY <1>5, <1>9 DEF AutoCalls
    <3>4. ASSUME NEW c \in AutoCalls(y), NEW e \in AutoCalls(y), c.id = e.id PROVE c = e
      BY <3>1, <1>t, <1>4, <3>4, <1>1 DEF Attempts
    <3> QED BY <3>4, <3>1, <1>t, <1>2, <1>4, <1>5 DEF AutoCalls
  <2>2. \A f \in All(k) : f.kind = "freshDial" => f.id <= y.token /\ f.id # y.token
    BY <1>t, <1>2, <1>10
  <2> QED BY <1>1, <1>2, <1>6, <1>7, <1>8, <2>1, <2>2, CalmFacts DEF Attempts
<1>15. Recoveries(y, k) BY <1>1, <1>6, <1>7, <1>8, CalmFacts DEF Recoveries
<1>16. Driven(y, k) BY <1>2 DEF Driven
<1>17. Starts(y, k) BY <1>1, <1>4, <1>5, <1>6 DEF Starts
<1>18. Generations(y, k) BY <1>6, <1>9, <1>2, <1>4, <1>5, CalmFacts, <1>7, <1>1, GenKeeps DEF Stray
<1>19. Buffers(y, k) BY <1>1, <1>6, <1>7, <1>8, CalmFacts DEF Buffers
<1>20. ~y.closing => Holds(y, k) BY <1>6, <1>7, <1>8, CalmFacts DEF Holds
<1>21. ~y.closing => Budget(y, k)
  BY <1>2, <1>10, <1>t, <1>5, <1>9, <1>6, <1>p, CalmFacts, <1>4, <1>8 DEF AutoCalls, Sound, Fits,
      Budget
<1> QED BY <1>13, <1>14, <1>15, <1>16, <1>17, <1>18, <1>19, <1>20, <1>21 DEF RecInv, y

\* The top frame of a stack replaced by another.
LEMMA Replaced ==
  ASSUME NEW k \in Seq(FrameRecord), k # <<>>, Once(k), NEW g \in FrameRecord, g.kind # "first"
  PROVE  LET l == <<g>> \o Tail(k) IN
         /\ l \in Seq(FrameRecord) /\ l # <<>> /\ Head(l) = g /\ Once(l)
         /\ All(l) = {g} \cup Below(k) /\ Below(l) = Below(k)
         /\ All(k) = {Head(k)} \cup Below(k) /\ Head(k) \in FrameRecord
<1> DEFINE t == Tail(k)
<1>1. /\ t \in Seq(FrameRecord) /\ All(t) = Below(k)
      /\ All(k) = {Head(k)} \cup Below(k) /\ Head(k) \in FrameRecord
  BY Popped
<1>2. Once(t) BY OncePopped
<1> HIDE DEF t
<1>4. Once(<<g>> \o t) BY <1>1, <1>2, OncePushed
<1> QED BY <1>1, <1>4, Pushed DEF t

\* The attempt in flight is given up.
LEMMA AbandonCore ==
  ASSUME NEW x, NEW k, Core(x, k), x.attemptInFlight, Calm(x, k)
  PROVE  LET y == AbandonAttempt(x) IN
         /\ Core(y, k) /\ Quiet(y) /\ y.state \in {"RECONNECTING", "CLOSED"}
         /\ y.state = x.state /\ y.closing = x.closing /\ y.disposed = x.disposed
         /\ Holds(x, k) => Holds(y, k)
<1> DEFINE y == AbandonAttempt(x)
<1>1. Typed(x, k) /\ Attempts(x, k) /\ Recoveries(x, k) /\ Starts(x, k)
      /\ Generations(x, k) /\ Buffers(x, k)
  BY DEF Core
<1>t. x.gen \in Nat /\ x.token \in Nat /\ x.link \in Nat /\ DOMAIN x = Fields BY <1>1 DEF Typed
<1>2. /\ Same(x, y, {"link", "alive", "gen", "token", "attemptInFlight"})
      /\ y.link = 0 /\ y.gen = x.gen + 1 /\ y.token = x.token + 1 /\ y.attemptInFlight = FALSE
  BY <1>t, AbandonIs
<1> HIDE DEF y
<1>3. /\ DOMAIN y = Fields
      /\ y.state = x.state /\ y.closing = x.closing /\ y.attempts = x.attempts
      /\ y.backoff = x.backoff /\ y.calls = x.calls
      /\ y.clientBuffering = x.clientBuffering /\ y.disposed = x.disposed
      /\ y.inFlight = x.inFlight /\ y.recoveries = x.recoveries
      /\ y.replacedFirstDial = x.replacedFirstDial
      /\ y.buffering = x.buffering /\ y.dialWindow = x.dialWindow
      /\ y.lossSpent = x.lossSpent
  BY <1>2 DEF Same, Fields
<1>4. Calm(y, k) BY <1>3, CalmAlike
<1>5. x.inFlight = 0 /\ x.backoff = {} /\ x.state \in {"RECONNECTING", "CLOSED"}
  BY <1>1 DEF Attempts
<1>6. Typed(y, k) BY <1>1, <1>t, <1>2, <1>3, CalmFacts DEF Typed
<1>7. Attempts(y, k)
  BY <1>1, <1>t, <1>2, <1>3, TypeFacts, <1>4, <1>5, CalmFacts DEF Attempts, AutoCalls
<1>8. Recoveries(y, k) BY <1>1, <1>3, <1>4, <1>5, CalmFacts DEF Recoveries
<1>9. Starts(y, k) BY <1>1, <1>3 DEF Starts
<1>10. Generations(y, k) BY <1>4, CalmFacts, <1>t, <1>2, <1>1, <1>3, GenKeeps
<1>11. Buffers(y, k) BY <1>1, <1>3, <1>4, <1>5, CalmFacts DEF Buffers
<1>12. Holds(x, k) => Holds(y, k) BY <1>3, <1>4, <1>5 DEF Holds
<1>13. Quiet(y) BY <1>2, <1>3, <1>5 DEF Quiet
<1> QED BY <1>3, <1>5, <1>6, <1>7, <1>8, <1>9, <1>10, <1>11, <1>12, <1>13 DEF Core, y

\* What a failed attempt leaves, up to its error report.
LEMMA FailKeeps ==
  ASSUME NEW x, Core(x, <<>>), Quiet(x), x.state \in {"RECONNECTING", "CLOSED"},
         ~x.closing => Holds(x, <<>>), FailAttempt(x)
  PROVE  RecInv(s, stack)'
<1> DEFINE k == <<>>
           f == Frame("report", 0, NoPlan)
           y == IF x.policy = "hold" THEN x ELSE [x EXCEPT !.clientBuffering = FALSE,
             !.buffering = FALSE]
           l == <<f>>
<1>0. s' = y /\ stack' = l BY DEF FailAttempt, Become
<1>1. Typed(x, k) /\ Attempts(x, k) /\ Recoveries(x, k) /\ Starts(x, k)
      /\ Generations(x, k) /\ Buffers(x, k) /\ (~x.closing => Holds(x, k))
  BY DEF Core
<1>2. /\ DOMAIN x = Fields /\ Same(x, y, {"clientBuffering", "buffering"})
      /\ y.clientBuffering => x.clientBuffering
      /\ y.buffering => x.buffering /\ y.clientBuffering = x.clientBuffering
  BY <1>1 DEF Typed, Same, Fields
<1>f. f \in FrameRecord /\ f.kind = "report" /\ f.id = 0 /\ f.plan = NoPlan
  BY DEF Frame, FrameRecord, NoPlan, Plans, Kinds, Unguarded
<1> HIDE DEF y, f
<1>3. /\ DOMAIN y = Fields
      /\ y.state = x.state /\ y.closing = x.closing /\ y.attempts = x.attempts
      /\ y.backoff = x.backoff /\ y.token = x.token /\ y.attemptInFlight = x.attemptInFlight
      /\ y.disposed = x.disposed
      /\ y.inFlight = x.inFlight /\ y.recoveries = x.recoveries
      /\ y.replacedFirstDial = x.replacedFirstDial /\ y.gen = x.gen /\ y.link = x.link
      /\ y.calls = x.calls /\ y.dialWindow = x.dialWindow
      /\ y.lossSpent = x.lossSpent
  BY <1>2 DEF Same, Fields
<1>4. /\ l \in Seq(FrameRecord) /\ l # <<>> /\ Head(l) = f /\ Tail(l) = <<>> /\ All(l) = {f}
           /\ Below(l) = {}
  BY <1>f, Single
<1>5. Once(l) BY <1>f DEF Once
<1> HIDE DEF l
<1>6. Top(l, Unguarded) /\ ~Top(l, {"window"}) /\ ~Top(l, {"window", "planned"})
      /\ ~Top(l, {"planned"})
  BY <1>4, <1>f DEF Top, Unguarded
<1>7. /\ ~Live(y, l, {"boundary"}) /\ ~Live(y, l, {"aborted"}) /\ ~Live(y, l, {"announced"})
      /\ ~Live(y, l, {"aborted", "announced"}) /\ ~Live(y, l, {"activated", "drained"})
      /\ ~Live(y, l, {"boundary", "aborted"}) /\ ~Live(y, l, {"drained"})
              /\ ~Live(y, l, {"activated"})
      /\ ~Live(y, l, HostKinds) /\ ~Live(x, k, {"boundary"}) /\ ~Live(x, k, {"drained"})
  BY <1>4, <1>f DEF Top, Live, HostKinds
<1>8. x.inFlight = 0 /\ ~x.attemptInFlight /\ x.backoff = {} BY DEF Quiet
<1>9. Typed(y, l) BY <1>1, <1>2, <1>3, <1>4, <1>6, <1>f DEF Typed, y, Fields, HostKinds
<1>10. Attempts(y, l) BY <1>1, <1>3, <1>4, <1>6, <1>8, <1>f DEF Attempts, AutoCalls, Quiet
<1>11. Recoveries(y, l) BY <1>3, <1>4, <1>7, <1>8, <1>f DEF Recoveries
<1>12. Driven(y, l) BY <1>6 DEF Driven
<1>13. Starts(y, l) BY <1>1, <1>3, <1>4, <1>5, <1>f DEF Starts
<1>14. Generations(y, l) BY <1>3, Emptied, <1>1, <1>7, GenKeeps DEF Stray
<1>15. Buffers(y, l) BY Emptied, <1>1, <1>8, <1>2, <1>3, <1>7 DEF Buffers
<1>16. ~y.closing => Holds(y, l) BY <1>1, <1>3, <1>4, <1>7, <1>8, <1>f, Emptied DEF Holds
<1>17. ~y.closing => Budget(y, l)
  BY <1>1, <1>3, <1>4, <1>6, <1>8, <1>f DEF Budget, Attempts, AutoCalls
<1> QED BY <1>0, <1>9, <1>10, <1>11, <1>12, <1>13, <1>14, <1>15, <1>16, <1>17 DEF RecInv

\* close() up to the finalizers.
LEMMA CloseKeeps ==
  ASSUME NEW x, NEW k, Core(x, k), ~Top(k, Unguarded)
  PROVE  RecInv(Close(x), k)
<1> DEFINE y == Close(x)
<1>1. Typed(x, k) /\ Attempts(x, k) /\ Recoveries(x, k) /\ Starts(x, k)
      /\ Generations(x, k) /\ Buffers(x, k)
  BY DEF Core
<1>t. x.gen \in Nat /\ x.token \in Nat /\ x.link \in Nat /\ DOMAIN x = Fields BY <1>1 DEF Typed
<1>2. /\ Same(x, y, {"link", "alive", "gen", "token", "attemptInFlight", "backoff", "closing",
           "disposed"})
      /\ y.backoff = {} /\ ~y.attemptInFlight /\ y.disposed = TRUE
      /\ y.closing = TRUE \/ (x.state = "CLOSED" /\ y.closing = x.closing)
      /\ x.attemptInFlight => y.link = 0 /\ y.gen = x.gen + 1 /\ y.token = x.token + 1
      /\ ~x.attemptInFlight => y.link = x.link /\ y.gen = x.gen /\ y.token = x.token
  BY <1>t, CloseIs
<1> HIDE DEF y
<1>3. /\ DOMAIN y = Fields
      /\ y.state = x.state /\ y.attempts = x.attempts /\ y.calls = x.calls
      /\ y.clientBuffering = x.clientBuffering
      /\ y.inFlight = x.inFlight /\ y.recoveries = x.recoveries
      /\ y.replacedFirstDial = x.replacedFirstDial
      /\ y.buffering = x.buffering /\ y.dialWindow = x.dialWindow
      /\ y.lossSpent = x.lossSpent
  BY <1>2 DEF Same, Fields
<1>4. /\ ~Top(k, {"window"}) /\ ~Top(k, {"window", "planned"}) /\ ~Top(k, {"planned"})
           /\ ~Top(k, {"report"})
  BY DEF Top, Unguarded
<1>5. /\ x.attemptInFlight => x.inFlight = 0
      /\ \A h \in {HostKinds, {"boundary"}, {"aborted"}, {"announced"}, {"aborted", "announced"},
              {"activated", "drained"},
                   {"boundary", "aborted"}} : Live(y, k, h) => Live(x, k, h) /\ ~x.attemptInFlight
  <2>2. ASSUME NEW h \in {HostKinds, {"boundary"}, {"aborted"}, {"announced"},
               {"aborted", "announced"}, {"activated", "drained"},
                   {"boundary", "aborted"}}, Live(y, k, h)
        PROVE  Live(x, k, h) /\ x.inFlight # 0
    BY <1>3, <2>2, <1>1, Popped DEF Live, Top, HostKinds, Typed
  <2> QED BY <2>2, <1>1 DEF Attempts
<1>c. y.closing BY <1>1, <1>2 DEF Typed
<1>6. Typed(y, k) BY <1>1, <1>t, <1>2, <1>3, <1>4, <1>c DEF Typed
<1>7. Attempts(y, k)
  <2>1. CASE x.attemptInFlight
    BY <1>1, <1>t, <1>2, <1>3, <2>1, TypeFacts, <1>4 DEF Attempts, AutoCalls
  <2>2. CASE ~x.attemptInFlight BY <1>1, <1>2, <1>3, <1>4, <2>2 DEF Attempts, AutoCalls, Quiet
  <2> QED BY <2>1, <2>2
<1>8. Recoveries(y, k) BY <1>3, <1>1 DEF Live, Recoveries
<1>9. Starts(y, k) BY <1>1, <1>3 DEF Starts
<1>10. Generations(y, k)
  <2>1. CASE x.attemptInFlight BY <1>5, <2>1, <1>3, <1>t, <1>2, <1>1, GenKeeps DEF Live
  <2>2. CASE ~x.attemptInFlight BY <1>1, <1>2, <1>3, <2>2 DEF Generations, Live, Stray, Epoch
  <2> QED BY <2>1, <2>2
<1>11. Buffers(y, k) BY <1>1, <1>3 DEF Buffers, Live
<1> QED BY <1>6, <1>7, <1>8, <1>9, <1>10, <1>11, <1>c DEF RecInv, Driven, y

\* A call that no longer drives a host recovery is over.
LEMMA DropKeeps ==
  ASSUME NEW x, RecInv(x, <<>>), NEW c \in x.calls, c.by = "host" => c.id # x.inFlight,
         NEW y, Same(x, y, {"calls", "link", "alive", "gen", "attemptInFlight"}),
         y.calls = x.calls \ {c}, y.link \in Nat, y.gen \in {x.gen, x.gen + 1},
         y.attemptInFlight <=> x.attemptInFlight /\ ~(c.by = "auto" /\ c.id = x.token),
         ~y.closing => y.link \in {0, x.link} \/ (y.backoff = {} /\ ~y.attemptInFlight)
  PROVE  /\ Core(y, <<>>)
         /\ ~y.closing => Holds(y, <<>>) /\ Budget(y, <<>>)
         /\ ~(c.by = "auto" /\ c.id = x.token) => RecInv(y, <<>>)
<1> DEFINE k == <<>>
<1>1. Typed(x, k) /\ Attempts(x, k) /\ Recoveries(x, k) /\ Driven(x, k) /\ Starts(x, k)
      /\ Generations(x, k) /\ Buffers(x, k) /\ (~x.closing => Holds(x, k) /\ Budget(x, k))
  BY DEF RecInv
<1>t. x.gen \in Nat /\ x.token \in Nat /\ x.link \in Nat /\ DOMAIN x = Fields /\ y.gen \in Nat
  BY <1>1 DEF Typed
<1>2. All(k) = {} /\ Below(k) = {} /\ Calm(x, k) /\ Calm(y, k) BY Emptied, IdleCalm
<1>3. /\ DOMAIN y = Fields
      /\ y.state = x.state /\ y.closing = x.closing /\ y.attempts = x.attempts
      /\ y.backoff = x.backoff /\ y.token = x.token
      /\ y.clientBuffering = x.clientBuffering /\ y.disposed = x.disposed
      /\ y.inFlight = x.inFlight /\ y.recoveries = x.recoveries
      /\ y.replacedFirstDial = x.replacedFirstDial
      /\ y.buffering = x.buffering /\ y.dialWindow = x.dialWindow
      /\ y.lossSpent = x.lossSpent
  BY DEF Same, Fields
<1> HIDE DEF k
<1>4. Typed(y, k) BY <1>1, <1>t, <1>2, <1>3, CalmFacts DEF Typed
<1>5. /\ \A d \in AutoCalls(y) : d \in AutoCalls(x)
      /\ y.attemptInFlight <=> (\E d \in AutoCalls(y) : d.id = y.token)
  <2>1. \A d \in AutoCalls(y) : d \in AutoCalls(x) /\ d # c BY DEF AutoCalls
  <2>2. y.attemptInFlight => \E d \in AutoCalls(y) : d.id = y.token
    <3> SUFFICES ASSUME y.attemptInFlight PROVE \E d \in AutoCalls(y) : d.id = y.token OBVIOUS
    <3>1. x.attemptInFlight /\ ~(c.by = "auto" /\ c.id = x.token) OBVIOUS
    <3>2. PICK d \in AutoCalls(x) : d.id = x.token BY <1>1, <3>1 DEF Attempts
    <3> QED BY <1>3, <3>2, <3>1 DEF AutoCalls
  <2>3. (\E d \in AutoCalls(y) : d.id = y.token) => y.attemptInFlight
    <3> SUFFICES ASSUME NEW d \in AutoCalls(y), d.id = y.token PROVE y.attemptInFlight OBVIOUS
    <3> QED BY <1>1, <1>3, <2>1 DEF Attempts, AutoCalls
  <2> QED BY <2>1, <2>2, <2>3
<1>6. Attempts(y, k) BY <1>1, <1>2, <1>3, <1>5, CalmFacts DEF Attempts
<1>7. Recoveries(y, k) BY <1>1, <1>2, <1>3, CalmFacts DEF Recoveries
<1>8. Starts(y, k) BY <1>1, <1>2, <1>3 DEF Starts
<1>9. Generations(y, k) BY <1>2, CalmFacts, <1>3, <1>1, GenKeeps DEF Stray
<1>10. Buffers(y, k) BY <1>1, <1>2, <1>3, CalmFacts DEF Buffers
<1>11. ~y.closing => Holds(y, k) BY <1>1, <1>2, <1>3, CalmFacts DEF Holds
<1>12. ~y.closing => Budget(y, k)
  <2> SUFFICES ASSUME ~y.closing PROVE Budget(y, k) OBVIOUS
  <2> QED BY <1>1, <1>2, <1>3, CalmFacts, <1>5 DEF Budget, Sound
<1>13. ~(c.by = "auto" /\ c.id = x.token) => Driven(y, k) BY <1>1, <1>2, <1>3, CalmFacts DEF Driven
<1> QED BY <1>4, <1>6, <1>7, <1>8, <1>9, <1>10, <1>11, <1>12, <1>13 DEF RecInv, Core, k

\* A recovery is rejected, or leaves the client's buffering.
Ended(x, r, y) ==
  /\ Same(x, y, {"recoveries", "buffering"})
  /\ SameRecs(x.recoveries, y.recoveries, r, {"owns", "outcome"})
  /\ y.recoveries[r].owns = FALSE
  /\ x.recoveries[r].owns => ~y.buffering
  /\ ~x.recoveries[r].owns => y.buffering = x.buffering

\* Either way the invariant holds of the rest.
LEMMA EndKeeps ==
  ASSUME NEW x, NEW k, RecInv(x, k), NEW r \in 1..Len(x.recoveries), NEW y, Ended(x, r, y)
  PROVE  RecInv(y, k)
<1>1. Typed(x, k) /\ Attempts(x, k) /\ Recoveries(x, k) /\ Driven(x, k) /\ Starts(x, k)
      /\ Generations(x, k) /\ Buffers(x, k) /\ (~x.closing => Holds(x, k) /\ Budget(x, k))
  BY DEF RecInv
<1>2. /\ Same(x, y, {"recoveries", "buffering"})
      /\ SameRecs(x.recoveries, y.recoveries, r, {"owns", "outcome"})
      /\ ~y.recoveries[r].owns
      /\ x.recoveries[r].owns => ~y.buffering
      /\ ~x.recoveries[r].owns => y.buffering = x.buffering
  BY DEF Ended
<1>3. /\ DOMAIN y = Fields
      /\ y.state = x.state /\ y.closing = x.closing /\ y.attempts = x.attempts
      /\ y.backoff = x.backoff /\ y.token = x.token /\ y.attemptInFlight = x.attemptInFlight
      /\ y.clientBuffering = x.clientBuffering /\ y.disposed = x.disposed
      /\ y.inFlight = x.inFlight
      /\ y.replacedFirstDial = x.replacedFirstDial /\ y.gen = x.gen /\ y.link = x.link
      /\ y.calls = x.calls /\ y.dialWindow = x.dialWindow
      /\ y.lossSpent = x.lossSpent
  BY <1>2 DEF Same, Fields
<1>4. /\ y.recoveries \in Seq(RecoveryRecord) /\ Len(y.recoveries) = Len(x.recoveries)
      /\ \A q \in 1..Len(x.recoveries) :
           /\ y.recoveries[q].epoch = x.recoveries[q].epoch
           /\ y.recoveries[q].settled = x.recoveries[q].settled
           /\ q # r => y.recoveries[q].owns = x.recoveries[q].owns
  BY <1>2 DEF SameRecs
<1>5. \A h : Live(y, k, h) <=> Live(x, k, h) BY <1>3 DEF Live
<1>6. Typed(y, k) BY <1>1, <1>3, <1>4 DEF Typed
<1>7. Attempts(y, k) BY <1>1, <1>3 DEF Attempts, AutoCalls, Quiet
<1>8. Recoveries(y, k) BY <1>1, <1>3, <1>5 DEF Recoveries
<1>9. Driven(y, k) BY <1>1, <1>3 DEF Driven
<1>10. Starts(y, k) BY <1>1, <1>3 DEF Starts
<1>11. Generations(y, k)
  <2>2. \A c \in y.calls : c.by = "host" => c.id \in 1..Len(x.recoveries) BY <1>1, <1>3 DEF Typed
  <2>3. /\ \A h \in {{"boundary"}, {"aborted", "announced"}, {"activated", "drained"}} :
             Live(x, k, h) => Epoch(y, Head(k)) = Epoch(x, Head(k))
        /\ \A f \in All(k) : f.kind = "boundary" => Epoch(y, f) = Epoch(x, f)
                /\ y.recoveries[f.id].settled = x.recoveries[f.id].settled
    <3>2. ASSUME NEW h \in {{"boundary"}, {"aborted", "announced"}, {"activated", "drained"}},
                 Live(x, k, h)
          PROVE  Head(k) \in All(k) /\ Head(k).kind \in HostKinds
      BY <3>2, <1>1, Popped DEF Live, Top, HostKinds, Typed
    <3> QED BY <3>2, <1>4, <1>1 DEF HostKinds, Epoch, Typed
  <2>5. \A c \in y.calls : Stray(y, c) =>
          \E f \in All(k) : f.kind = "boundary" /\ ~y.recoveries[f.id].settled
            /\ Epoch(y, f) = y.gen + 2
    BY <1>1, <1>3, <2>3 DEF Generations, Stray
  <2>6. x.inFlight # 0 => x.inFlight \in 1..Len(x.recoveries) BY <1>1 DEF Typed
  <2>7. /\ Live(y, k, {"boundary"}) => Epoch(y, Head(k)) = y.gen + 2
        /\ Live(y, k, {"aborted", "announced"}) => Epoch(y, Head(k)) = y.gen + 1
        /\ Live(y, k, {"activated", "drained"}) => Epoch(y, Head(k)) = y.link
    BY <1>1, <1>3, <1>5, <2>3 DEF Generations
  <2>8. y.inFlight # 0 /\ ~y.recoveries[y.inFlight].settled => Live(y, k, {"boundary"})
    BY <1>1, <1>3, <1>4, <1>5, <2>6 DEF Generations
  <2>9. Live(y, k, {"aborted"}) => \A c \in y.calls : c.gen < y.gen
    BY <1>1, <1>3, <1>5 DEF Generations
  <2>12. /\ \A c \in y.calls : c.gen <= y.gen
         /\ \A c \in y.calls : c.by = "host" => c.gen = y.recoveries[c.id].epoch
    BY <1>1, <1>3, <1>4, <2>2 DEF Generations
  <2> QED BY <2>5, <2>7, <2>8, <2>9, <2>12, <1>1, <1>4, <1>3 DEF Generations
<1>12. Buffers(y, k)
  <2>1. \A f \in All(k) : f.kind = "failed" => f.id \in 1..Len(x.recoveries) BY <1>1 DEF Typed
  <2>2. x.inFlight # 0 => x.inFlight \in 1..Len(x.recoveries) BY <1>1 DEF Typed
  <2>3. \A q \in 1..Len(x.recoveries) : y.recoveries[q].owns => x.recoveries[q].owns BY <1>2, <1>4
  <2>4. y.buffering => x.buffering /\ \A q \in 1..Len(x.recoveries) : x.recoveries[q].owns
        => y.recoveries[q].owns
    BY <1>2, <1>4
  <2>5. Live(y, k, {"activated", "drained"}) => ~y.recoveries[y.inFlight].owns
    <3> SUFFICES ASSUME Live(y, k, {"activated", "drained"}) PROVE ~y.recoveries[y.inFlight].owns
      OBVIOUS
    <3> QED BY <1>1, <1>3, <2>3, Popped, <1>5 DEF Buffers, Typed, Live, Top, HostKinds
  <2> QED BY <1>1, <1>3, <2>1, <2>2, <2>4, <2>5 DEF Buffers
<1>13. ~y.closing => Holds(y, k) BY <1>1, <1>3, <1>5 DEF Holds
<1>14. ~y.closing => Budget(y, k) BY <1>1, <1>3, <1>5 DEF Budget, AutoCalls, Sound
<1> QED BY <1>6, <1>7, <1>8, <1>9, <1>10, <1>11, <1>12, <1>13, <1>14 DEF RecInv

\* What a frame of the host's recovery says of the recovery it names.
LEMMA HostFrame ==
  ASSUME NEW x, NEW k, Typed(x, k), k # <<>>, Head(k).kind \in HostKinds \cup {"failed"}
  PROVE  /\ Head(k).id \in 1..Len(x.recoveries) /\ Head(k).id # 0 /\ Head(k) \in All(k)
         /\ Head(k) \in FrameRecord /\ k \in Seq(FrameRecord)
         /\ All(k) = {Head(k)} \cup Below(k)
<1> QED BY Popped DEF Typed

\* A recovery that must stop does, whatever replaced it.
LEMMA StopKeeps ==
  ASSUME NEW x, NEW k, RecInv(x, k), k # <<>>, Head(k).kind \in HostKinds,
         MustStop(x, Head(k).id)
  PROVE  RecInv(Stop(x, Head(k).id), Tail(k))
<1> DEFINE f == Head(k)
           r == Head(k).id
           l == Tail(k)
           y == Stop(x, r)
<1>1. Typed(x, k) /\ Attempts(x, k) /\ Recoveries(x, k) /\ Driven(x, k) /\ Starts(x, k)
      /\ Generations(x, k) /\ Buffers(x, k) /\ (~x.closing => Holds(x, k) /\ Budget(x, k))
  BY DEF RecInv
<1>2. r \in 1..Len(x.recoveries) /\ r # 0 /\ f.kind \in HostKinds /\ f \in All(k)
  BY <1>1, HostFrame
<1>3. /\ l \in Seq(FrameRecord) /\ All(l) = Below(k)
      /\ All(k) = {f} \cup Below(k) /\ Below(l) \subseteq Below(k)
      /\ l # <<>> => Head(l) \in Below(k)
  BY <1>1, Popped DEF Typed
<1>4. Once(l) BY <1>1, OncePopped DEF Typed, Starts
<1>5. Superseded(x, r, y) BY <1>1, <1>2, StopIs DEF Typed
<1>6. x.inFlight # r \/ x.closing BY <1>1 DEF MustStop, Typed
<1>7. \A h : Live(x, k, h) => x.inFlight = r BY DEF Live
<1>8. x.inFlight = r <=> Live(x, k, HostKinds) BY <1>2 DEF Live, Top
<1> HIDE DEF y, f, l, r
<1>9. /\ Same(x, y, {"inFlight", "link", "alive", "gen", "recoveries", "buffering"})
      /\ y.inFlight = (IF x.inFlight = r THEN 0 ELSE x.inFlight)
      /\ IF x.recoveries[r].settled \/ y.inFlight # 0
         THEN y.link = x.link /\ y.gen = x.gen ELSE y.link = 0 /\ y.gen = x.gen + 1
      /\ SameRecs(x.recoveries, y.recoveries, r, {"owns", "outcome", "settled"})
      /\ ~y.recoveries[r].owns /\ y.recoveries[r].settled
      /\ x.recoveries[r].owns => ~y.buffering
      /\ ~x.recoveries[r].owns => y.buffering = x.buffering
  BY <1>5 DEF Superseded
<1>10. /\ DOMAIN y = Fields
       /\ y.state = x.state /\ y.closing = x.closing /\ y.attempts = x.attempts
       /\ y.backoff = x.backoff /\ y.token = x.token /\ y.attemptInFlight = x.attemptInFlight
       /\ y.clientBuffering = x.clientBuffering /\ y.disposed = x.disposed
       /\ y.replacedFirstDial = x.replacedFirstDial
       /\ y.calls = x.calls /\ y.dialWindow = x.dialWindow
       /\ y.lossSpent = x.lossSpent
  BY <1>9 DEF Same, Fields
<1>t. x.gen \in Nat /\ x.link \in Nat /\ x.inFlight \in {0, Len(x.recoveries)}
      /\ Len(x.recoveries) \in Nat
      /\ y.gen \in {x.gen, x.gen + 1} /\ y.gen \in Nat /\ y.link \in {0, x.link}
  BY <1>1, <1>9 DEF Typed
<1>11. /\ y.recoveries \in Seq(RecoveryRecord) /\ Len(y.recoveries) = Len(x.recoveries)
       /\ \A q \in 1..Len(x.recoveries) :
            /\ y.recoveries[q].epoch = x.recoveries[q].epoch
            /\ q # r => /\ y.recoveries[q].owns = x.recoveries[q].owns
                        /\ y.recoveries[q].settled = x.recoveries[q].settled
  BY <1>9 DEF SameRecs
<1>12. y.inFlight # 0 => y.inFlight = x.inFlight /\ x.inFlight # r
       /\ x.inFlight = Len(x.recoveries)
  BY <1>9, <1>t
<1>c. Calm(y, l)
  <2>1. ~Top(l, Unguarded) BY <1>1, <1>3 DEF Top, Attempts
  <2>2. ~Live(y, l, HostKinds)
    <3> SUFFICES ASSUME l # <<>>, Head(l).kind \in HostKinds, Head(l).id = y.inFlight PROVE FALSE
      BY DEF Live, Top
    <3> QED BY <1>1, <1>12, <1>3 DEF Recoveries, Typed
  <2> QED BY <2>1, <2>2 DEF Calm
<1>13. Typed(y, l) BY <1>11, <1>12, <1>1, <1>3, <1>10, <1>t, <1>c, CalmFacts DEF Typed
<1>14. Attempts(y, l) BY <1>12, <1>10, <1>1, <1>3, <1>c, CalmFacts DEF Quiet, Attempts, AutoCalls
<1>15. Recoveries(y, l)
  <2>2. y.inFlight # 0 => /\ y.state \in {"RECONNECTING", "CLOSED"}
                          /\ \E c \in y.calls : c.by = "host" /\ c.id = y.inFlight
    BY <1>1, <1>8, <1>10, <1>12 DEF Recoveries
  <2> QED BY <1>3, <1>c, <2>2, CalmFacts, <1>1, <1>12, <1>10 DEF Recoveries, Typed
<1>16. Driven(y, l)
  <2> SUFFICES ASSUME ~x.closing, x.state = "RECONNECTING" PROVE Driven(y, l) BY <1>10 DEF Driven
  <2> QED BY <1>1, <1>10, <1>6, <1>9, <1>2, <1>3 DEF Driven, HostKinds, Top, Unguarded, f
<1>17. Starts(y, l) BY <1>1, <1>3, <1>4, <1>10, <1>12, <1>t DEF Starts
<1>18. Generations(y, l)
  <2>e. \A q \in 1..Len(x.recoveries) : x.recoveries[q].epoch \in Nat
        /\ x.recoveries[q].settled \in BOOLEAN
    BY <1>1, TypeFacts
  <2>c. \A c \in x.calls : c.gen \in Nat BY <1>1, TypeFacts
  <2>1. y.inFlight # 0 => x.recoveries[r].epoch <= x.gen + 1 /\ x.recoveries[x.inFlight].settled
    <3> SUFFICES ASSUME y.inFlight # 0 PROVE x.recoveries[r].epoch <= x.gen + 1
                 /\ x.recoveries[x.inFlight].settled
      OBVIOUS
    <3>1. x.inFlight # r /\ x.inFlight = Len(x.recoveries) /\ x.inFlight \in 1..Len(x.recoveries)
          /\ x.inFlight # 0
          /\ r <= x.inFlight
      BY <1>2, <1>12, <1>t
    <3>3. x.recoveries[x.inFlight].settled BY <1>1, <3>1, <1>7 DEF Generations
    <3>4. x.recoveries[x.inFlight].epoch <= x.gen + 1 BY <1>1, <3>1, <3>3 DEF Generations
    <3>5. x.recoveries[r].epoch <= x.recoveries[x.inFlight].epoch
      BY <1>1, <1>2, <3>1 DEF Generations
    <3> DEFINE p == x.recoveries[r].epoch
               q == x.recoveries[x.inFlight].epoch
    <3>6. p \in Nat /\ q \in Nat /\ x.gen \in Nat BY <1>2, <1>t, <2>e, <3>1
    <3>7. p <= q /\ q <= x.gen + 1 BY <3>4, <3>5
    <3> HIDE DEF p, q
    <3>8. p <= x.gen + 1 BY <3>6, <3>7
    <3> QED BY <3>3, <3>8 DEF p
  <2>2. \A c \in y.calls : c.gen <= y.gen BY <1>1, <1>10, <1>t, <2>c DEF Generations
  <2>3. \A c \in y.calls : Stray(y, c) => y.gen = x.gen /\ Stray(x, c)
    BY <1>1, <1>10, <1>t, <2>c DEF Generations, Stray
  <2>4. \A c \in y.calls : Stray(y, c) =>
          \E g \in All(l) : g.kind = "boundary" /\ ~y.recoveries[g.id].settled
            /\ Epoch(y, g) = y.gen + 2
    <3> SUFFICES ASSUME NEW c \in y.calls, Stray(y, c)
                 PROVE  \E g \in All(l) : g.kind = "boundary" /\ ~y.recoveries[g.id].settled
                        /\ Epoch(y, g) = y.gen + 2
      OBVIOUS
    <3>1. y.gen = x.gen /\ Stray(x, c) /\ c \in x.calls BY <1>10, <2>3
    <3>2. PICK g \in All(k) : g.kind = "boundary" /\ ~x.recoveries[g.id].settled
          /\ x.recoveries[g.id].epoch = x.gen + 2
      BY <1>1, <3>1 DEF Generations, Epoch
    <3>4. g.id # r
      <4>1. ASSUME ~x.recoveries[r].settled,
                   y.inFlight # 0 PROVE x.recoveries[r].epoch <= x.gen + 1
        BY <2>1, <4>1
      <4> QED BY <1>t, <2>e, <1>2, <3>2, <4>1, <1>9, <3>1
    <3> QED BY <3>2, <1>11, <3>1, <3>4, <1>1, <1>3 DEF Epoch, Typed, HostKinds, f, r
  <2>5. \A c \in y.calls : c.by = "host" => c.gen = y.recoveries[c.id].epoch
    BY <1>1, <1>10, <1>11 DEF Generations, Typed
  <2>6. \A q \in 1..Len(y.recoveries) :
           /\ y.recoveries[q].epoch <= y.gen + 2
           /\ y.recoveries[q].settled => y.recoveries[q].epoch <= y.gen + 1
    <3> SUFFICES ASSUME NEW q \in 1..Len(x.recoveries)
                 PROVE  /\ x.recoveries[q].epoch <= y.gen + 2
                        /\ y.recoveries[q].settled => x.recoveries[q].epoch <= y.gen + 1
      BY <1>11
    <3>1. x.recoveries[q].epoch <= x.gen + 2
          /\ (x.recoveries[q].settled => x.recoveries[q].epoch <= x.gen + 1)
      BY <1>1 DEF Generations
    <3>0. x.recoveries[q].epoch \in Nat /\ y.gen >= x.gen /\ y.gen \in Nat /\ x.gen \in Nat
      BY <1>t, <2>e
    <3>2. CASE q # r
      <4>1. y.recoveries[q].settled = x.recoveries[q].settled BY <1>11, <3>2
      <4> DEFINE e == x.recoveries[q].epoch
      <4>2. e \in Nat /\ e <= x.gen + 2 /\ (y.recoveries[q].settled => e <= x.gen + 1)
        BY <3>0, <3>1, <4>1
      <4> HIDE DEF e
      <4> QED BY <3>0, <4>2 DEF e
    <3>3. CASE q = r
      <4>1. CASE x.recoveries[r].settled BY <1>t, <2>e, <3>1, <3>3, <4>1
      <4>2. CASE ~x.recoveries[r].settled /\ y.inFlight = 0
        <5>1. y.gen = x.gen + 1 BY <1>9, <4>2
        <5> QED BY <3>0, <3>1, <5>1
      <4>3. CASE y.inFlight # 0
        <5>1. x.recoveries[q].epoch <= x.gen + 1 BY <2>1, <3>3, <4>3
        <5> QED BY <3>0, <3>1, <5>1
      <4> QED BY <4>1, <4>2, <4>3
    <3> QED BY <3>2, <3>3
  <2>8. y.inFlight # 0 /\ ~y.recoveries[y.inFlight].settled => FALSE BY <1>11, <1>12, <1>t, <2>1
  <2>9. /\ ~Live(y, l, {"boundary"}) /\ ~Live(y, l, {"aborted"})
             /\ ~Live(y, l, {"aborted", "announced"})
        /\ ~Live(y, l, {"activated", "drained"})
    BY <1>c, CalmFacts
  <2> QED BY <2>2, <2>4, <2>5, <2>6, <2>8, <2>9, <1>1, <1>11 DEF Generations
<1>19. Buffers(y, l)
  <2>1. y.clientBuffering => y.state \in {"RECONNECTING", "CLOSED"} /\ y.inFlight = 0
    BY <1>1, <1>10, <1>12 DEF Buffers
  <2>2. y.buffering => x.buffering /\ \A q \in 1..Len(x.recoveries) : x.recoveries[q].owns
        => y.recoveries[q].owns /\ q # r
    BY <1>2, <1>9, <1>11
  <2>3. \A g \in All(k) : g.kind = "failed" => g.id \in 1..Len(x.recoveries) /\ g \in All(l)
    BY <1>1, <1>2, <1>3 DEF Typed, HostKinds
  <2>4. x.inFlight # 0 => x.inFlight \in 1..Len(x.recoveries) BY <1>t
  <2>5. y.buffering => \/ y.clientBuffering \/ y.state \in {"TRANSFERRING", "CLOSED"}
                       \/ y.inFlight # 0 /\ y.recoveries[y.inFlight].owns
                       \/ \E g \in All(l) : g.kind = "failed" /\ y.recoveries[g.id].owns
    <3> SUFFICES ASSUME y.buffering, ~y.clientBuffering, y.state \notin {"TRANSFERRING", "CLOSED"}
                 PROVE  \/ y.inFlight # 0 /\ y.recoveries[y.inFlight].owns
                        \/ \E g \in All(l) : g.kind = "failed" /\ y.recoveries[g.id].owns
      OBVIOUS
    <3> QED BY <2>2, <2>3, <1>1, <1>10, <1>9, <2>4 DEF Buffers
  <2> QED BY <1>c, <2>1, <2>5, CalmFacts DEF Buffers
<1>20. ~y.closing => Holds(y, l)
  <2> SUFFICES ASSUME ~x.closing PROVE Holds(y, l) BY <1>10
  <2>1. x.inFlight # r /\ y.inFlight = x.inFlight BY <1>6, <1>9
  <2>3. \A g \in All(k) : g.kind = "failed" <=> g \in All(l) /\ g.kind = "failed"
    BY <1>2, <1>3 DEF HostKinds
  <2>4. All(l) \subseteq All(k) BY <1>3
  <2> QED BY <1>1, <1>10, <2>1, <2>3, <2>4, <1>7, <1>c, CalmFacts DEF Holds
<1>21. ~y.closing => Budget(y, l)
  <2> SUFFICES ASSUME ~x.closing PROVE Budget(y, l) BY <1>10
  <2> QED BY <1>1, <1>3, <1>10, <1>c, CalmFacts, <1>6, <1>7, <1>t DEF Budget, AutoCalls, Sound
<1> QED BY <1>13, <1>14, <1>15, <1>16, <1>17, <1>18, <1>19, <1>20, <1>21 DEF RecInv, y, l, r

\* Facts of a recovery in flight whose frame is on top.
LEMMA LiveFacts ==
  ASSUME NEW x, NEW k, RecInv(x, k), k # <<>>, Head(k).kind \in HostKinds, x.inFlight = Head(k).id
  PROVE  /\ x.inFlight # 0 /\ x.inFlight \in 1..Len(x.recoveries) /\ ~x.attemptInFlight
              /\ x.backoff = {}
         /\ \A c \in AutoCalls(x) : c.id # x.token
         /\ \A f \in All(k) : f.kind = "freshDial" => f.id # x.token
         /\ ~x.clientBuffering
         /\ All(k) = {Head(k)} \cup Below(k) /\ Head(k) \in FrameRecord /\ k \in Seq(FrameRecord)
         /\ \A f \in Below(k) : f.kind \in HostKinds \cup {"failed"} => f.id # x.inFlight
         /\ x.gen \in Nat /\ x.token \in Nat /\ x.link \in Nat /\ DOMAIN x = Fields
<1>1. Typed(x, k) /\ Attempts(x, k) /\ Recoveries(x, k) /\ Buffers(x, k) BY DEF RecInv
<1>2. x.inFlight # 0 /\ x.inFlight \in 1..Len(x.recoveries) /\ All(k) = {Head(k)} \cup Below(k)
      /\ Head(k) \in FrameRecord /\ k \in Seq(FrameRecord)
  BY <1>1, HostFrame
<1> QED BY <1>1, <1>2 DEF Typed, Attempts, Quiet, Buffers, Recoveries

\* The next frame of a recovery takes the place of the last.
NextFrame(k, g, kind) ==
  /\ g \in FrameRecord /\ g.kind = kind /\ g.id = Head(k).id

\* The fields of a frame,
LEMMA FrameFacts ==
  ASSUME NEW kind \in Kinds, NEW id \in Nat, NEW plan \in Plans
  PROVE  LET f == Frame(kind, id, plan) IN
         f \in FrameRecord /\ f.kind = kind /\ f.id = id /\ f.plan = plan
BY DEF Frame, FrameRecord

\* of an empty plan,
LEMMA NoPlanIs == NoPlan \in Plans /\ ~NoPlan.planned /\ NoPlan.spent = 0 /\ ~NoPlan.handle
  /\ ~NoPlan.fresh
BY DEF NoPlan, Plans

\* Which kinds of frame are live follows from the kind of the top frame.
LEMMA LiveKinds ==
  ASSUME NEW y, NEW l, l # <<>>, Head(l).id = y.inFlight, Head(l).kind \in HostKinds
  PROVE  /\ \A h : Live(y, l, h) <=> Head(l).kind \in h
         /\ \A h : Top(l, h) <=> Head(l).kind \in h
         /\ Live(y, l, HostKinds)
         /\ ~Top(l, {"window"}) /\ ~Top(l, {"window", "planned"}) /\ ~Top(l, {"planned"})
         /\ ~Top(l, {"report"}) /\ ~Top(l, Unguarded)
BY DEF Live, Top, HostKinds, Unguarded

\* The incumbent is aborted after the boundary.
LEMMA BoundaryKeeps ==
  ASSUME NEW x, NEW k, RecInv(x, k), k # <<>>, Head(k).kind = "boundary",
         ~MustStop(x, Head(k).id),
         NEW g, NextFrame(k, g, "aborted")
  PROVE  RecInv(AbortIncumbent([x EXCEPT !.recoveries[Head(k).id].settled = TRUE]),
         <<g>> \o Tail(k))
<1> DEFINE r == Head(k).id
           b == [x.recoveries EXCEPT ![r].settled = TRUE]
           a == [x EXCEPT !.recoveries = b]
           y == AbortIncumbent(a)
           l == <<g>> \o Tail(k)
<1>1. Typed(x, k) /\ Attempts(x, k) /\ Recoveries(x, k) /\ Driven(x, k) /\ Starts(x, k)
      /\ Generations(x, k) /\ Buffers(x, k) /\ (~x.closing => Holds(x, k) /\ Budget(x, k))
  BY DEF RecInv
<1>2. x.inFlight = r /\ ~x.disposed /\ x.state # "CLOSED" BY DEF MustStop
<1>3. /\ x.inFlight # 0 /\ r \in 1..Len(x.recoveries) /\ ~x.attemptInFlight /\ x.backoff = {}
      /\ \A c \in AutoCalls(x) : c.id # x.token
      /\ \A f \in All(k) : f.kind = "freshDial" => f.id # x.token
      /\ ~x.clientBuffering
      /\ All(k) = {Head(k)} \cup Below(k)
      /\ \A f \in Below(k) : f.kind \in HostKinds \cup {"failed"} => f.id # x.inFlight
      /\ x.gen \in Nat /\ x.token \in Nat /\ x.link \in Nat /\ DOMAIN x = Fields
      /\ k \in Seq(FrameRecord)
  BY <1>2, LiveFacts DEF HostKinds
<1>4. SameRecs(x.recoveries, b, r, {"settled"}) /\ b[r].settled = TRUE
  BY <1>1, <1>3, RecordIs DEF Typed
<1>5. AbortIncumbent([x EXCEPT !.recoveries[Head(k).id].settled = TRUE]) = y OBVIOUS
<1> HIDE DEF b
<1>6. Same(x, a, {"recoveries"}) /\ a.recoveries = b /\ a.gen = x.gen BY <1>3 DEF Same, Fields
<1> HIDE DEF a
<1>7. Same(a, y, {"link", "alive", "gen"}) /\ y.link = 0 /\ y.gen = x.gen + 1
  BY <1>6, AbortIs DEF Same
<1> HIDE DEF y
<1>8. /\ DOMAIN y = Fields /\ y.recoveries = b
      /\ y.state = x.state /\ y.closing = x.closing /\ y.attempts = x.attempts
      /\ y.backoff = x.backoff /\ y.token = x.token /\ y.attemptInFlight = x.attemptInFlight
      /\ y.clientBuffering = x.clientBuffering /\ y.disposed = x.disposed
      /\ y.inFlight = x.inFlight
      /\ y.replacedFirstDial = x.replacedFirstDial /\ y.calls = x.calls
      /\ y.buffering = x.buffering /\ y.dialWindow = x.dialWindow
      /\ y.lossSpent = x.lossSpent
  BY <1>6, <1>7 DEF Same, Fields
<1>9. /\ l \in Seq(FrameRecord) /\ l # <<>> /\ Head(l) = g /\ Once(l)
      /\ All(l) = {g} \cup Below(k) /\ Below(l) = Below(k)
      /\ g \in FrameRecord /\ g.kind = "aborted" /\ g.id = r
  BY <1>1, <1>3, Replaced DEF NextFrame, Starts
<1> HIDE DEF l, r
<1>10. /\ \A h : Live(y, l, h) <=> "aborted" \in h
       /\ \A h : Top(l, h) <=> "aborted" \in h
       /\ Live(y, l, HostKinds)
       /\ ~Top(l, {"window"}) /\ ~Top(l, {"window", "planned"}) /\ ~Top(l, {"planned"})
       /\ ~Top(l, {"report"}) /\ ~Top(l, Unguarded)
  <2>1. Head(l).id = y.inFlight /\ Head(l).kind = "aborted" /\ Head(l).kind \in HostKinds
    BY <1>2, <1>8, <1>9 DEF HostKinds
  <2> QED BY <1>9, <2>1, LiveKinds
<1>11. /\ Live(x, k, {"boundary"}) /\ Live(x, k, {"boundary", "aborted"})
       /\ ~Live(x, k, {"activated"}) /\ ~Live(x, k, {"drained"})
  BY <1>2 DEF Live, Top, r
<1>12. Typed(y, l)
  <2> QED BY <1>1, <1>8, <1>9, <1>10, <1>3, <1>4, <1>7 DEF Typed, SameRecs
<1>13. Attempts(y, l) BY <1>1, <1>3, <1>8, <1>9, <1>10 DEF Attempts, AutoCalls
<1>14. Recoveries(y, l) BY <1>1, <1>11, <1>3, <1>9, <1>8, <1>10 DEF Recoveries, HostKinds
<1>15. Driven(y, l) BY <1>3, <1>8 DEF Driven
<1>16. Starts(y, l) BY <1>1, <1>3, <1>8, <1>9 DEF Starts
<1>17. Generations(y, l)
  <2>2. \A c \in y.calls : c.gen < y.gen /\ c.gen <= y.gen /\ ~Stray(y, c)
    BY <1>3, <1>7, <1>8, <1>1, TypeFacts DEF Stray, Generations
  <2>3. /\ Len(b) = Len(x.recoveries)
        /\ \A q \in 1..Len(x.recoveries) : b[q].epoch = x.recoveries[q].epoch
                /\ b[q].epoch \in Nat
                                        /\ (q # r => b[q].settled = x.recoveries[q].settled)
    BY <1>1, <1>4, TypeFacts DEF SameRecs
  <2>5. Epoch(y, Head(l)) = y.gen + 1
    <3>1. Head(l).id = r /\ y.recoveries[r].epoch = x.recoveries[r].epoch
      BY <1>3, <1>7, <1>8, <1>9, <2>3
    <3> QED BY <3>1, <1>3, <1>7, <1>8, <1>1, <1>11 DEF Epoch, Generations, r
  <2>6. \A q \in 1..Len(b) : b[q].epoch <= y.gen + 2 /\ b[q].epoch <= y.gen + 1
    <3> SUFFICES ASSUME NEW q \in 1..Len(b) PROVE b[q].epoch <= y.gen + 2
                 /\ b[q].epoch <= y.gen + 1
      OBVIOUS
    <3>1. b[q].epoch <= x.gen + 2 /\ b[q].epoch \in Nat BY <1>1, <2>3 DEF Generations
    <3> DEFINE e == b[q].epoch
    <3>2. e <= x.gen + 2 /\ e \in Nat /\ y.gen = x.gen + 1 /\ x.gen \in Nat BY <1>3, <1>7, <3>1
    <3> HIDE DEF e
    <3> QED BY <3>2 DEF e
  <2>7. \A p, q \in 1..Len(b) : p <= q => b[p].epoch <= b[q].epoch BY <1>1, <2>3 DEF Generations
  <2>8. \A c \in y.calls : c.by = "host" => c.gen = b[c.id].epoch
    BY <1>1, <1>8, <2>3 DEF Generations, Typed
  <2> QED BY <1>2, <1>4, <1>8, <1>10, <2>2, <2>5, <2>6, <2>7, <2>8 DEF Generations
<1>18. Buffers(y, l)
  <2>2. \A f \in All(k) : f.kind = "failed" => f.id \in 1..Len(x.recoveries) /\ f \in All(l)
    BY <1>1, <1>3, <1>9 DEF Typed
  <2> QED BY <1>1, <1>2, <1>3, <1>8, <1>10, <2>2, <1>4 DEF Buffers, SameRecs
<1>19. ~y.closing => Holds(y, l) BY <1>1, <1>3, <1>8, <1>10, <1>11 DEF Holds
<1>20. ~y.closing => Budget(y, l) BY <1>1, <1>3, <1>8, <1>9, <1>10, <1>11 DEF Budget, AutoCalls
<1> QED BY <1>12, <1>13, <1>14, <1>15, <1>16, <1>17, <1>18, <1>19, <1>20 DEF RecInv, y,
           l, r, a, b

\* RECONNECTING is announced.
LEMMA AbortedKeeps ==
  ASSUME NEW x, NEW k, RecInv(x, k), k # <<>>, Head(k).kind = "aborted", ~MustStop(x, Head(k).id),
         NEW g, NextFrame(k, g, "announced")
  PROVE  RecInv(EnterReconnecting(x), <<g>> \o Tail(k))
<1> DEFINE r == Head(k).id
           y == EnterReconnecting(x)
           l == <<g>> \o Tail(k)
<1>1. Typed(x, k) /\ Attempts(x, k) /\ Recoveries(x, k) /\ Driven(x, k) /\ Starts(x, k)
      /\ Generations(x, k) /\ Buffers(x, k) /\ (~x.closing => Holds(x, k) /\ Budget(x, k))
  BY DEF RecInv
<1>2. x.inFlight = r /\ ~x.disposed /\ x.state # "CLOSED" BY DEF MustStop
<1>3. /\ x.inFlight # 0 /\ r \in 1..Len(x.recoveries) /\ ~x.attemptInFlight /\ x.backoff = {}
      /\ \A c \in AutoCalls(x) : c.id # x.token
      /\ \A f \in All(k) : f.kind = "freshDial" => f.id # x.token
      /\ ~x.clientBuffering
      /\ All(k) = {Head(k)} \cup Below(k)
      /\ \A f \in Below(k) : f.kind \in HostKinds \cup {"failed"} => f.id # x.inFlight
      /\ x.gen \in Nat /\ x.token \in Nat /\ x.link \in Nat /\ DOMAIN x = Fields
      /\ k \in Seq(FrameRecord)
  BY <1>2, LiveFacts DEF HostKinds
<1>7. Same(x, y, {"state"}) /\ y.state = "RECONNECTING" BY <1>3 DEF Same, Fields, EnterReconnecting
<1> HIDE DEF y
<1>8. /\ DOMAIN y = Fields /\ y.recoveries = x.recoveries
      /\ y.closing = x.closing /\ y.attempts = x.attempts
      /\ y.backoff = x.backoff /\ y.token = x.token /\ y.attemptInFlight = x.attemptInFlight
      /\ y.clientBuffering = x.clientBuffering /\ y.disposed = x.disposed
      /\ y.inFlight = x.inFlight /\ y.gen = x.gen /\ y.link = x.link
      /\ y.replacedFirstDial = x.replacedFirstDial /\ y.calls = x.calls
      /\ y.buffering = x.buffering /\ y.dialWindow = x.dialWindow
      /\ y.lossSpent = x.lossSpent
  BY <1>7 DEF Same, Fields
<1>9. /\ l \in Seq(FrameRecord) /\ l # <<>> /\ Head(l) = g /\ Once(l)
      /\ All(l) = {g} \cup Below(k) /\ Below(l) = Below(k)
      /\ g \in FrameRecord /\ g.kind = "announced" /\ g.id = r
  BY <1>1, <1>3, Replaced DEF NextFrame, Starts
<1> HIDE DEF l, r
<1>10. /\ \A h : Live(y, l, h) <=> "announced" \in h
       /\ \A h : Top(l, h) <=> "announced" \in h
       /\ Live(y, l, HostKinds)
       /\ ~Top(l, {"window"}) /\ ~Top(l, {"window", "planned"}) /\ ~Top(l, {"planned"})
       /\ ~Top(l, {"report"}) /\ ~Top(l, Unguarded)
  <2>1. Head(l).id = y.inFlight /\ Head(l).kind = "announced" /\ Head(l).kind \in HostKinds
    BY <1>2, <1>8, <1>9 DEF HostKinds
  <2> QED BY <1>9, <2>1, LiveKinds
<1>11. /\ Live(x, k, {"aborted"}) /\ Live(x, k, {"boundary", "aborted"})
            /\ Live(x, k, {"aborted", "announced"})
       /\ ~Live(x, k, {"activated"}) /\ ~Live(x, k, {"drained"}) /\ ~Live(x, k, {"boundary"})
  BY <1>2 DEF Live, Top, r
<1>a. x.state \in {"CONNECTING", "ACTIVE", "RECONNECTING", "UPSTREAM_LOST"}
  BY <1>1, <1>11 DEF Recoveries
<1>12. Typed(y, l) BY <1>1, <1>2, <1>3, <1>7, <1>8, <1>9, <1>10 DEF Typed, States
<1>13. Attempts(y, l) BY <1>1, <1>3, <1>7, <1>8, <1>9, <1>10 DEF Attempts, AutoCalls
<1>14. Recoveries(y, l) BY <1>1, <1>3, <1>9, <1>7, <1>8, <1>10 DEF Recoveries, HostKinds
<1>15. Driven(y, l) BY <1>3, <1>8 DEF Driven
<1>16. Starts(y, l) BY <1>1, <1>3, <1>7, <1>8, <1>9, <1>a DEF Starts
<1>17. Generations(y, l)
  <2>2. \A c \in y.calls : ~Stray(y, c)
    BY <1>3, <1>8, <1>1, <1>11, TypeFacts DEF Stray, Generations
  <2> QED BY <1>1, <1>8, <1>10, <1>11, <2>2, <1>9 DEF Generations, Epoch, r
<1>18. Buffers(y, l) BY <1>3, <1>9, <1>1, <1>8, <1>10, <1>a DEF Buffers
<1>19. ~y.closing => Holds(y, l) BY <1>1, <1>3, <1>8, <1>10, <1>11 DEF Holds
<1>20. ~y.closing => Budget(y, l)
  BY <1>1, <1>3, <1>7, <1>8, <1>9, <1>10, <1>11 DEF Budget, AutoCalls
<1> QED BY <1>12, <1>13, <1>14, <1>15, <1>16, <1>17, <1>18, <1>19, <1>20 DEF RecInv, y, l

\* The stack without the frame of the live recovery.
LEMMA LivePop ==
  ASSUME NEW x, NEW k, RecInv(x, k), k # <<>>, Head(k).kind \in HostKinds,
         x.inFlight = Head(k).id,
         NEW y, y.inFlight \in {0, x.inFlight}
  PROVE  LET l == Tail(k) IN
         /\ l \in Seq(FrameRecord) /\ All(l) = Below(k) /\ All(k) = {Head(k)} \cup Below(k)
         /\ Below(l) \subseteq Below(k) /\ Once(l) /\ Calm(y, l)
<1> DEFINE l == Tail(k)
<1>1. Typed(x, k) /\ Attempts(x, k) /\ Starts(x, k) BY DEF RecInv
<1>2. /\ l \in Seq(FrameRecord) /\ All(l) = Below(k) /\ All(k) = {Head(k)} \cup Below(k)
      /\ Below(l) \subseteq Below(k) /\ (l # <<>> => Head(l) \in Below(k))
  BY <1>1, Popped DEF Typed
<1>3. Once(l) BY <1>1, OncePopped DEF Typed, Starts
<1>4. \A f \in Below(k) : f.kind \in HostKinds => f.id # x.inFlight /\ f.id # 0
  BY <1>1, <1>2, LiveFacts DEF Typed
<1> HIDE DEF l
<1> QED BY <1>2, <1>3, <1>4, <1>1 DEF Calm, l, Live, Top, Attempts

\* The host's dial begins.
LEMMA AnnouncedKeeps ==
  ASSUME NEW x, NEW k, RecInv(x, k), k # <<>>, Head(k).kind = "announced",
         ~MustStop(x, Head(k).id)
  PROVE  RecInv(Connect(x, "host", Head(k).id, NoPlan), Tail(k))
<1> DEFINE r == Head(k).id
           y == Connect(x, "host", r, NoPlan)
           l == Tail(k)
           d == NewCall("host", r, "dialing", x.gen + 1, NoPlan)
<1>1. Typed(x, k) /\ Attempts(x, k) /\ Recoveries(x, k) /\ Driven(x, k) /\ Starts(x, k)
      /\ Generations(x, k) /\ Buffers(x, k) /\ (~x.closing => Holds(x, k) /\ Budget(x, k))
  BY DEF RecInv
<1>2. x.inFlight = r /\ ~x.disposed /\ x.state # "CLOSED" BY DEF MustStop
<1>3. /\ x.inFlight # 0 /\ r \in 1..Len(x.recoveries) /\ ~x.attemptInFlight /\ x.backoff = {}
      /\ \A c \in AutoCalls(x) : c.id # x.token
      /\ \A f \in All(k) : f.kind = "freshDial" => f.id # x.token
      /\ ~x.clientBuffering
      /\ \A f \in Below(k) : f.kind \in HostKinds \cup {"failed"} => f.id # x.inFlight
      /\ x.gen \in Nat /\ x.token \in Nat /\ x.link \in Nat /\ DOMAIN x = Fields
  BY <1>2, LiveFacts DEF HostKinds
<1>4. Same(x, y, {"gen", "calls"}) /\ y.gen = x.gen + 1 /\ y.calls = x.calls \cup {d}
  BY <1>3, ConnectIs
<1>5. d \in CallRecord /\ d.by = "host" /\ d.id = r /\ d.phase = "dialing" /\ d.gen = x.gen + 1
  BY <1>3, NoPlanIs DEF NewCall, CallRecord
<1> HIDE DEF y, d
<1>8. /\ DOMAIN y = Fields /\ y.recoveries = x.recoveries
      /\ y.state = x.state /\ y.closing = x.closing /\ y.attempts = x.attempts
      /\ y.backoff = x.backoff /\ y.token = x.token /\ y.attemptInFlight = x.attemptInFlight
      /\ y.clientBuffering = x.clientBuffering /\ y.disposed = x.disposed
      /\ y.inFlight = x.inFlight /\ y.link = x.link
      /\ y.replacedFirstDial = x.replacedFirstDial
      /\ y.buffering = x.buffering /\ y.dialWindow = x.dialWindow
      /\ y.lossSpent = x.lossSpent
  BY <1>4 DEF Same, Fields
<1>9. /\ l \in Seq(FrameRecord) /\ All(l) = Below(k) /\ All(k) = {Head(k)} \cup Below(k)
      /\ Below(l) \subseteq Below(k) /\ Once(l) /\ Calm(y, l)
  BY <1>2, <1>8, LivePop DEF HostKinds
<1>11. /\ Live(x, k, {"announced"}) /\ Live(x, k, {"aborted", "announced"})
       /\ ~Live(x, k, {"activated"}) /\ ~Live(x, k, {"drained"}) /\ ~Live(x, k, {"boundary"})
       /\ Head(k).kind \notin {"failed", "freshDial", "boundary"}
  BY <1>2 DEF Live, Top
<1> HIDE DEF l, r
<1>a. x.state = "RECONNECTING" BY <1>1, <1>11 DEF Recoveries
<1>12. Typed(y, l)
  <2>1. \A c \in y.calls : /\ c \in CallRecord /\ (c.by = "host" => c.id \in 1..Len(x.recoveries))
                           /\ (c.phase = "closing" => c.by \in {"auto", "transfer"})
    BY <1>1, <1>3, <1>4, <1>5 DEF Typed
  <2>3. y.gen \in Nat /\ ~Top(l, {"window"}) /\ y.calls \subseteq CallRecord
    BY <1>3, <1>4, <1>9, <2>1, CalmFacts
  <2> QED BY <1>1, <1>8, <1>9, <2>1, <2>3 DEF Typed
<1>13. Attempts(y, l) BY <1>4, <1>5, <1>1, <1>3, <1>8, <1>9, CalmFacts DEF AutoCalls, Attempts
<1>14. Recoveries(y, l) BY <1>2, <1>4, <1>5, <1>8, <1>3, <1>9, <1>1, <1>a, CalmFacts DEF Recoveries
<1>15. Driven(y, l) BY <1>3, <1>8 DEF Driven
<1>16. Starts(y, l) BY <1>1, <1>4, <1>5, <1>8, <1>9 DEF Starts
<1>17. Generations(y, l)
  <2>2. \A c \in y.calls : c.gen <= y.gen /\ ~Stray(y, c)
    BY <1>3, <1>4, <1>5, <1>1, TypeFacts DEF Stray, Generations
  <2>4. \A c \in y.calls : c.by = "host" => c.gen = y.recoveries[c.id].epoch
    BY <1>1, <1>4, <1>5, <1>8, <1>11 DEF Generations, Epoch, r
  <2>5. \A q \in 1..Len(x.recoveries) :
          /\ x.recoveries[q].epoch <= y.gen + 2
          /\ x.recoveries[q].settled => x.recoveries[q].epoch <= y.gen + 1
    <3> SUFFICES ASSUME NEW q \in 1..Len(x.recoveries)
                 PROVE  /\ x.recoveries[q].epoch <= y.gen + 2
                        /\ x.recoveries[q].settled => x.recoveries[q].epoch <= y.gen + 1
      OBVIOUS
    <3>1. x.recoveries[q].epoch \in Nat BY <1>1, TypeFacts
    <3> QED BY <1>3, <1>4, <3>1, <1>1 DEF Generations
  <2>6. x.recoveries[x.inFlight].settled BY <1>1, <1>3, <1>11 DEF Generations
  <2> QED BY <1>8, <2>2, <2>4, <2>5, <2>6, <1>9, CalmFacts, <1>1 DEF Generations
<1>18. Buffers(y, l) BY <1>1, <1>3, <1>8, <1>9, <1>11, <1>a, CalmFacts DEF Buffers
<1>19. ~y.closing => Holds(y, l) BY <1>1, <1>3, <1>8, <1>9, <1>11, CalmFacts DEF Holds
<1>20. ~y.closing => Budget(y, l)
  BY <1>4, <1>5, <1>3, <1>8, <1>9, <1>a, CalmFacts DEF AutoCalls, Budget
<1> QED BY <1>12, <1>13, <1>14, <1>15, <1>16, <1>17, <1>18, <1>19, <1>20 DEF RecInv, y, l, r

\* The hold is released, and the drain follows.
LEMMA ActivatedKeeps ==
  ASSUME NEW x, NEW k, RecInv(x, k), k # <<>>, Head(k).kind = "activated",
         ~MustStop(x, Head(k).id),
         NEW g, NextFrame(k, g, "drained")
  PROVE  RecInv([x EXCEPT !.attempts = 0, !.lossSpent = 0, !.dialWindow = FALSE],
         <<g>> \o Tail(k))
<1> DEFINE r == Head(k).id
           y == [x EXCEPT !.attempts = 0, !.lossSpent = 0, !.dialWindow = FALSE]
           l == <<g>> \o Tail(k)
<1>1. Typed(x, k) /\ Attempts(x, k) /\ Recoveries(x, k) /\ Driven(x, k) /\ Starts(x, k)
      /\ Generations(x, k) /\ Buffers(x, k) /\ (~x.closing => Holds(x, k) /\ Budget(x, k))
  BY DEF RecInv
<1>2. x.inFlight = r /\ ~x.disposed /\ x.state # "CLOSED" BY DEF MustStop
<1>3. /\ x.inFlight # 0 /\ r \in 1..Len(x.recoveries) /\ ~x.attemptInFlight /\ x.backoff = {}
      /\ \A c \in AutoCalls(x) : c.id # x.token
      /\ \A f \in All(k) : f.kind = "freshDial" => f.id # x.token
      /\ ~x.clientBuffering
      /\ All(k) = {Head(k)} \cup Below(k)
      /\ \A f \in Below(k) : f.kind \in HostKinds \cup {"failed"} => f.id # x.inFlight
      /\ x.gen \in Nat /\ x.token \in Nat /\ x.link \in Nat /\ DOMAIN x = Fields
      /\ k \in Seq(FrameRecord)
  BY <1>2, LiveFacts DEF HostKinds
<1>7. Same(x, y, {"attempts", "lossSpent", "dialWindow"}) /\ y.attempts = 0 /\ y.lossSpent = 0
      /\ y.dialWindow = FALSE
  BY <1>3 DEF Same, Fields
<1> HIDE DEF y
<1>8. /\ DOMAIN y = Fields /\ y.recoveries = x.recoveries
      /\ y.state = x.state /\ y.closing = x.closing
      /\ y.backoff = x.backoff /\ y.token = x.token /\ y.attemptInFlight = x.attemptInFlight
      /\ y.clientBuffering = x.clientBuffering /\ y.disposed = x.disposed
      /\ y.inFlight = x.inFlight /\ y.gen = x.gen /\ y.link = x.link
      /\ y.replacedFirstDial = x.replacedFirstDial /\ y.calls = x.calls
      /\ y.buffering = x.buffering
  BY <1>7 DEF Same, Fields
<1>9. /\ l \in Seq(FrameRecord) /\ l # <<>> /\ Head(l) = g /\ Once(l)
      /\ All(l) = {g} \cup Below(k) /\ Below(l) = Below(k)
      /\ g \in FrameRecord /\ g.kind = "drained" /\ g.id = r
  BY <1>1, <1>3, Replaced DEF NextFrame, Starts
<1>11. /\ Live(x, k, {"activated", "drained"}) /\ Live(x, k, {"activated"})
       /\ ~Live(x, k, {"drained"}) /\ ~Live(x, k, {"boundary"})
       /\ Head(k).kind \notin {"failed", "freshDial", "boundary"}
  BY <1>2 DEF Live, Top
<1> HIDE DEF l, r
<1>10. /\ \A h : Live(y, l, h) <=> "drained" \in h
       /\ \A h : Top(l, h) <=> "drained" \in h
       /\ Live(y, l, HostKinds)
       /\ ~Top(l, {"window"}) /\ ~Top(l, {"window", "planned"}) /\ ~Top(l, {"planned"})
       /\ ~Top(l, {"report"}) /\ ~Top(l, Unguarded)
  <2>1. Head(l).id = y.inFlight /\ Head(l).kind = "drained" /\ Head(l).kind \in HostKinds
    BY <1>2, <1>8, <1>9 DEF HostKinds
  <2> QED BY <1>9, <2>1, LiveKinds
<1>a. x.state = "ACTIVE" /\ MaxAttempts \in Nat BY <1>1, <1>11, RecoveryAssumption DEF Recoveries
<1>12. Typed(y, l) BY <1>1, <1>3, <1>9, <1>7, <1>8, <1>10, <1>a DEF Typed
<1>13. Attempts(y, l) BY <1>1, <1>3, <1>8, <1>9, <1>10 DEF Attempts, AutoCalls
<1>14. Recoveries(y, l) BY <1>1, <1>3, <1>9, <1>8, <1>10, <1>a DEF Recoveries, HostKinds
<1>15. Driven(y, l) BY <1>3, <1>8 DEF Driven
<1>16. Starts(y, l) BY <1>1, <1>3, <1>8, <1>9 DEF Starts
<1>17. Generations(y, l)
  <2>1. Epoch(y, Head(l)) = y.link BY <1>1, <1>8, <1>9, <1>11 DEF Generations, Epoch, r
  <2>3. \A c \in y.calls : Stray(y, c) =>
          \E f \in All(l) : f.kind = "boundary" /\ ~y.recoveries[f.id].settled
            /\ Epoch(y, f) = y.gen + 2
    BY <1>8, <1>3, <1>9, <1>11, <1>1 DEF Stray, Generations, Epoch
  <2> QED BY <1>1, <1>8, <1>10, <2>1, <2>3, <1>3, <1>11 DEF Generations
<1>18. Buffers(y, l) BY <1>3, <1>9, <1>11, <1>1, <1>8, <1>10 DEF Buffers
<1>19. ~y.closing => Holds(y, l) BY <1>10, <1>7, <1>8, <1>a DEF Holds
<1>20. ~y.closing => Budget(y, l) BY <1>3, <1>8, <1>9, <1>7, <1>10 DEF AutoCalls, Budget
<1> QED BY <1>12, <1>13, <1>14, <1>15, <1>16, <1>17, <1>18, <1>19, <1>20 DEF RecInv, y, l

\* The recovery is over, and its connection in use.
LEMMA DrainedKeeps ==
  ASSUME NEW x, NEW k, RecInv(x, k), k # <<>>, Head(k).kind = "drained", ~MustStop(x, Head(k).id),
         NEW y, Same(x, y, {"inFlight", "recoveries"}), y.inFlight = 0,
         SameRecs(x.recoveries, y.recoveries, Head(k).id, {"outcome"})
  PROVE  RecInv(y, Tail(k))
<1> DEFINE r == Head(k).id
           l == Tail(k)
<1>1. Typed(x, k) /\ Attempts(x, k) /\ Recoveries(x, k) /\ Driven(x, k) /\ Starts(x, k)
      /\ Generations(x, k) /\ Buffers(x, k) /\ (~x.closing => Holds(x, k) /\ Budget(x, k))
  BY DEF RecInv
<1>2. x.inFlight = r /\ ~x.disposed /\ x.state # "CLOSED" BY DEF MustStop
<1>3. /\ x.inFlight # 0 /\ r \in 1..Len(x.recoveries) /\ ~x.attemptInFlight /\ x.backoff = {}
      /\ \A c \in AutoCalls(x) : c.id # x.token
      /\ \A f \in All(k) : f.kind = "freshDial" => f.id # x.token
      /\ ~x.clientBuffering
      /\ \A f \in Below(k) : f.kind \in HostKinds \cup {"failed"} => f.id # x.inFlight
      /\ x.gen \in Nat /\ x.token \in Nat /\ x.link \in Nat /\ DOMAIN x = Fields
  BY <1>2, LiveFacts DEF HostKinds
<1>8. /\ DOMAIN y = Fields
      /\ y.state = x.state /\ y.closing = x.closing /\ y.attempts = x.attempts
      /\ y.backoff = x.backoff /\ y.token = x.token /\ y.attemptInFlight = x.attemptInFlight
      /\ y.clientBuffering = x.clientBuffering /\ y.disposed = x.disposed
      /\ y.gen = x.gen /\ y.link = x.link
      /\ y.replacedFirstDial = x.replacedFirstDial /\ y.calls = x.calls
      /\ y.buffering = x.buffering /\ y.dialWindow = x.dialWindow
      /\ y.lossSpent = x.lossSpent
  BY DEF Same, Fields
<1>7. /\ y.recoveries \in Seq(RecoveryRecord) /\ Len(y.recoveries) = Len(x.recoveries)
      /\ \A q \in 1..Len(x.recoveries) :
           /\ y.recoveries[q].epoch = x.recoveries[q].epoch
           /\ y.recoveries[q].settled = x.recoveries[q].settled
           /\ y.recoveries[q].owns = x.recoveries[q].owns
  BY DEF SameRecs
<1>9. /\ l \in Seq(FrameRecord) /\ All(l) = Below(k) /\ All(k) = {Head(k)} \cup Below(k)
      /\ Below(l) \subseteq Below(k) /\ Once(l) /\ Calm(y, l)
  BY <1>2, LivePop DEF HostKinds
<1>11. /\ Live(x, k, {"activated", "drained"}) /\ Live(x, k, {"drained"})
       /\ ~Live(x, k, {"activated"}) /\ ~Live(x, k, {"boundary"})
       /\ Head(k).kind \notin {"failed", "freshDial", "boundary"}
  BY <1>2 DEF Live, Top
<1> HIDE DEF l, r
<1>a. x.state = "ACTIVE" BY <1>1, <1>11 DEF Recoveries
<1>12. Typed(y, l) BY <1>1, <1>7, <1>8, <1>9, CalmFacts DEF Typed
<1>13. Attempts(y, l) BY <1>1, <1>3, <1>8, <1>9, CalmFacts DEF Attempts, AutoCalls
<1>14. Recoveries(y, l) BY <1>1, <1>9, <1>8, <1>a, CalmFacts DEF Typed, Recoveries
<1>15. Driven(y, l) BY <1>8, <1>a DEF Driven
<1>16. Starts(y, l) BY <1>1, <1>8, <1>9 DEF Starts
<1>17. Generations(y, l)
  <2>3. \A c \in y.calls : Stray(y, c) =>
          \E f \in All(l) : f.kind = "boundary" /\ ~y.recoveries[f.id].settled
            /\ Epoch(y, f) = y.gen + 2
    <3>2. \A f \in All(k) : f.kind = "boundary" => f \in All(l) /\ f.id \in 1..Len(x.recoveries)
      BY <1>1, <1>9, <1>11 DEF Typed, HostKinds
    <3> QED BY <1>1, <1>7, <1>8, <3>2 DEF Generations, Epoch, Stray
  <2>4. \A c \in y.calls : c.by = "host" => c.gen = y.recoveries[c.id].epoch
    <3> QED BY <1>7, <1>8, <1>1 DEF Typed, Generations
  <2>7. /\ ~Live(y, l, {"boundary"}) /\ ~Live(y, l, {"aborted"})
             /\ ~Live(y, l, {"aborted", "announced"})
        /\ ~Live(y, l, {"activated", "drained"})
    BY <1>9, CalmFacts
  <2>8. \A c \in y.calls : c.gen <= y.gen BY <1>1, <1>8 DEF Generations
  <2> QED BY <2>3, <2>4, <2>7, <2>8, <1>1, <1>7, <1>8 DEF Generations
<1>18. Buffers(y, l) BY <1>1, <1>11, <1>9, <1>3, <1>7, <1>8, <1>a, CalmFacts DEF Buffers, Typed
<1>19. ~y.closing => Holds(y, l) BY <1>1, <1>8, <1>11, <1>a DEF Holds
<1>20. ~y.closing => Budget(y, l)
  BY <1>1, <1>3, <1>8, <1>9, <1>11, <1>a, CalmFacts DEF Budget, AutoCalls
<1> QED BY <1>12, <1>13, <1>14, <1>15, <1>16, <1>17, <1>18, <1>19, <1>20 DEF RecInv, l

\* A frame of code that drives nothing waits on top.
LEMMA PushKeeps ==
  ASSUME NEW x, NEW k, RecInv(x, k), Calm(x, k), NEW f \in FrameRecord,
         f.kind \in {"parked", "freshPlanned", "expired"},
         f.kind = "parked" \/ \A g \in All(k) : g.kind # "failed"
  PROVE  RecInv(x, <<f>> \o k) /\ Calm(x, <<f>> \o k)
<1> DEFINE l == <<f>> \o k
<1>1. Typed(x, k) /\ Attempts(x, k) /\ Recoveries(x, k) /\ Driven(x, k) /\ Starts(x, k)
      /\ Generations(x, k) /\ Buffers(x, k) /\ (~x.closing => Holds(x, k) /\ Budget(x, k))
  BY DEF RecInv
<1>2. /\ l \in Seq(FrameRecord) /\ l # <<>> /\ Head(l) = f
      /\ Below(l) = All(k) /\ All(l) = {f} \cup All(k)
  BY <1>1, Pushed DEF Typed
<1>3. Once(l) BY <1>1, OncePushed DEF Typed, Starts
<1> HIDE DEF l
<1>4. f.kind \notin HostKinds \cup Unguarded \cup {"failed", "freshDial", "first", "boundary"}
  BY DEF HostKinds, Unguarded
<1>5. Calm(x, l) BY <1>2, <1>4 DEF Calm, Live, Top
<1>6. \A g \in All(k) : g.kind \notin Unguarded /\ (g.kind \in HostKinds => g.id # x.inFlight)
  BY <1>1, Popped, Emptied DEF Top, Live, Calm, Typed, Attempts, Recoveries
<1>7. Typed(x, l) BY <1>1, <1>2, <1>4, <1>5, CalmFacts DEF Typed
<1>8. Attempts(x, l) BY <1>1, <1>2, <1>4, <1>5, <1>6, CalmFacts DEF Attempts
<1>9. Recoveries(x, l) BY <1>1, CalmFacts, <1>2, <1>4, <1>5, <1>6 DEF Recoveries
<1>10. Driven(x, l) BY <1>1, <1>2, <1>5, CalmFacts DEF Driven
<1>11. Starts(x, l) BY <1>1, <1>2, <1>3, <1>4 DEF Starts
<1>12. Generations(x, l) BY <1>5, CalmFacts, <1>1, <1>2 DEF Generations
<1>13. Buffers(x, l) BY <1>1, <1>2, <1>5, CalmFacts DEF Buffers
<1>14. ~x.closing => Holds(x, l) BY <1>1, <1>2, <1>4, <1>5, CalmFacts DEF Holds
<1>15. ~x.closing => Budget(x, l) BY <1>1, <1>2, <1>4, <1>5, CalmFacts DEF Budget
<1> QED BY <1>5, <1>7, <1>8, <1>9, <1>10, <1>11, <1>12, <1>13, <1>14, <1>15 DEF RecInv, l

\* recoverUpstream up to its boundary.
LEMMA BeginKeeps ==
  ASSUME NEW x, NEW k, RecInv(x, k), ~Top(k, Unguarded), x.inFlight = 0, ~x.disposed,
         x.state \in {"CONNECTING", "ACTIVE", "RECONNECTING", "UPSTREAM_LOST"},
         NEW v \in RecoveryRecord, v.epoch = x.gen + 2, ~v.settled, v.owns = x.clientBuffering,
         NEW y, Same(x, y, {"replacedFirstDial", "recoveries", "inFlight", "dialWindow",
           "backoff", "token",
                            "attemptInFlight", "clientBuffering"}),
         y.replacedFirstDial <=> x.replacedFirstDial \/ x.state = "CONNECTING",
         y.recoveries = Append(x.recoveries, v), y.inFlight = Len(x.recoveries) + 1,
         y.dialWindow = TRUE, y.backoff = {}, y.token = x.token + 1, ~y.attemptInFlight,
           y.clientBuffering = FALSE,
         NEW f \in FrameRecord, f.kind = "boundary", f.id = Len(x.recoveries) + 1
  PROVE  RecInv(y, <<f>> \o k)
<1> DEFINE l == <<f>> \o k
           r == Len(x.recoveries) + 1
<1>1. Typed(x, k) /\ Attempts(x, k) /\ Recoveries(x, k) /\ Driven(x, k) /\ Starts(x, k)
      /\ Generations(x, k) /\ Buffers(x, k) /\ (~x.closing => Holds(x, k) /\ Budget(x, k))
  BY DEF RecInv
<1>t. /\ x.gen \in Nat /\ x.token \in Nat /\ x.link \in Nat /\ Len(x.recoveries) \in Nat
           /\ r \in Nat /\ r # 0
      /\ \A c \in x.calls : c.id \in Nat /\ c.gen \in Nat
      /\ \A g \in All(k) : g.id \in Nat
  <2>2. /\ Len(x.recoveries) \in Nat /\ \A c \in x.calls : c.id \in Nat /\ c.gen \in Nat
        /\ \A g \in All(k) : g.id \in Nat
    BY <1>1, TypeFacts
  <2> QED BY <2>2, <1>1 DEF Typed
<1>2. /\ l \in Seq(FrameRecord) /\ l # <<>> /\ Head(l) = f
      /\ Below(l) = All(k) /\ All(l) = {f} \cup All(k)
  BY <1>1, Pushed DEF Typed
<1>3. Once(l) BY <1>1, OncePushed DEF Typed, Starts
<1>4. /\ y.recoveries \in Seq(RecoveryRecord) /\ Len(y.recoveries) = r /\ y.recoveries[r] = v
      /\ \A q \in 1..Len(x.recoveries) : y.recoveries[q] = x.recoveries[q]
      /\ \A q \in 1..r : q = r \/ q \in 1..Len(x.recoveries)
      /\ r \in 1..r /\ \A q \in 1..Len(x.recoveries) : q # r /\ q \in 1..r
  <2> DEFINE n == Len(x.recoveries)
  <2>1. x.recoveries \in Seq(RecoveryRecord) /\ n \in Nat /\ r = n + 1 BY <1>1, <1>t DEF Typed
  <2>2. /\ y.recoveries \in Seq(RecoveryRecord) /\ Len(y.recoveries) = n + 1
        /\ y.recoveries[n + 1] = v
        /\ \A q \in 1..n : y.recoveries[q] = x.recoveries[q]
    BY <2>1
  <2> HIDE DEF n
  <2>3. /\ \A q \in 1..(n + 1) : q = n + 1 \/ q \in 1..n
        /\ n + 1 \in 1..(n + 1) /\ \A q \in 1..n : q # n + 1 /\ q \in 1..(n + 1)
    BY <2>1
  <2> HIDE DEF r
  <2> QED BY <2>1, <2>2, <2>3 DEF n
<1> HIDE DEF l, r
<1>r. y.inFlight = r /\ f.id = r BY DEF r
<1>5. /\ DOMAIN y = Fields
      /\ y.state = x.state /\ y.closing = x.closing /\ y.attempts = x.attempts
      /\ y.disposed = x.disposed /\ y.gen = x.gen /\ y.link = x.link /\ y.calls = x.calls
      /\ y.buffering = x.buffering /\ y.lossSpent = x.lossSpent
  BY DEF Same, Fields
<1>6. /\ \A h : Live(y, l, h) <=> "boundary" \in h
      /\ \A h : Top(l, h) <=> "boundary" \in h
      /\ Live(y, l, HostKinds)
      /\ ~Top(l, {"window"}) /\ ~Top(l, {"window", "planned"}) /\ ~Top(l, {"planned"})
      /\ ~Top(l, {"report"}) /\ ~Top(l, Unguarded)
  BY <1>r, <1>2 DEF HostKinds, Live, Top, Unguarded
<1>7. \A g \in All(k) : g.kind \notin Unguarded
  <2>1. k # <<>> => Head(k).kind \notin Unguarded /\ All(k) = {Head(k)} \cup Below(k)
    BY <1>1, Popped DEF Top, Typed
  <2>2. k = <<>> => All(k) = {} BY Emptied
  <2> QED BY <1>1, <2>1, <2>2 DEF Attempts
<1>8. \A g \in All(k) : g.kind \in HostKinds \cup {"failed"} => g.id \in 1..Len(x.recoveries)
      /\ g.id # r /\ g.id # 0
  BY <1>1, <1>4, <1>t DEF Typed
<1>9. \A h \in SUBSET HostKinds : ~Live(x, k, h)
  <2> SUFFICES ASSUME k # <<>>, Head(k).kind \in HostKinds, Head(k).id = 0 PROVE FALSE
    BY DEF Live, Top
  <2> QED BY <1>1, HostFrame
<1>10. \A g \in All(k) : g.kind = "freshDial" => g.id # y.token /\ g.id <= y.token
  BY <1>1, <1>t DEF Attempts
<1>11. \A c \in AutoCalls(x) : c.id # y.token /\ c.id <= y.token
  BY <1>1, <1>t DEF Attempts, AutoCalls
<1>a. AutoCalls(y) = AutoCalls(x) BY <1>5 DEF AutoCalls
<1>12. Typed(y, l)
  <2>3. y.clientBuffering \in BOOLEAN /\ y.inFlight \in {0, Len(y.recoveries)}
        /\ y.backoff \subseteq Plans
        /\ y.token \in Nat
    <3>3. y.token \in Nat BY <1>t
    <3> QED BY <3>3, <1>4, <1>r
  <2>4. \A g \in All(l) : g.kind \in HostKinds \cup {"failed"} => g.id \in 1..Len(y.recoveries)
    BY <1>4, <1>2, <1>8, <1>r
  <2> QED BY <1>1, <1>2, <1>4, <1>5, <1>6, <2>3, <2>4 DEF Typed
<1>13. Attempts(y, l) BY <1>1, <1>2, <1>5, <1>6, <1>7, <1>10, <1>11, <1>a DEF Attempts
<1>14. Recoveries(y, l) BY <1>1, <1>2, <1>5, <1>8, <1>6, <1>r DEF Recoveries, HostKinds
<1>15. Driven(y, l) BY <1>r, <1>t DEF Driven
<1>16. Starts(y, l) BY <1>1, <1>5, <1>2, <1>3 DEF Starts
<1>17. Generations(y, l)
  <2>e. \A q \in 1..Len(x.recoveries) : x.recoveries[q].epoch \in Nat BY <1>1, TypeFacts
  <2>1. f \in All(l) /\ ~y.recoveries[f.id].settled /\ Epoch(y, f) = y.gen + 2
        /\ Epoch(y, Head(l)) = y.gen + 2
    BY <1>2, <1>4, <1>5, <1>r DEF Epoch
  <2>2. \A q \in 1..r : /\ y.recoveries[q].epoch <= y.gen + 2
                        /\ y.recoveries[q].settled => y.recoveries[q].epoch <= y.gen + 1
    <3> SUFFICES ASSUME NEW q \in 1..r
                 PROVE  /\ y.recoveries[q].epoch <= y.gen + 2
                        /\ y.recoveries[q].settled => y.recoveries[q].epoch <= y.gen + 1
      OBVIOUS
    <3>1. CASE q = r BY <1>4, <1>5, <1>t, <3>1
    <3>2. CASE q \in 1..Len(x.recoveries) BY <1>1, <1>4, <1>5, <3>2 DEF Generations
    <3> QED BY <1>4, <3>1, <3>2
  <2>3. \A p, q \in 1..r : p <= q => y.recoveries[p].epoch <= y.recoveries[q].epoch
    <3> SUFFICES ASSUME NEW p \in 1..r, NEW q \in 1..r, p <= q
                 PROVE  y.recoveries[p].epoch <= y.recoveries[q].epoch
      OBVIOUS
    <3>1. CASE q = r BY <1>4, <1>5, <3>1, <2>2
    <3>2. CASE q \in 1..Len(x.recoveries)
      <4> QED BY <1>1, <1>4, <3>2, <1>t DEF Generations
    <3> QED BY <1>4, <3>1, <3>2
  <2>4. \A c \in y.calls : c.by = "host" => c.gen = y.recoveries[c.id].epoch
    BY <1>1, <1>4, <1>5 DEF Generations, Typed
  <2> QED BY <1>4, <1>6, <2>1, <2>2, <2>3, <2>4, <1>1, <1>5 DEF Generations
<1>18. Buffers(y, l) BY <1>1, <1>2, <1>4, <1>8, <1>r, <1>t, <1>5, <1>6 DEF Buffers
<1>19. ~y.closing => Holds(y, l) BY <1>r, <1>t, <1>6 DEF Holds
<1>20. ~y.closing => Budget(y, l)
  BY <1>2, <1>10, <1>9, <1>1, <1>5, <1>6, <1>11, <1>a DEF HostKinds, Budget
<1> QED BY <1>12, <1>13, <1>14, <1>15, <1>16, <1>17, <1>18, <1>19, <1>20 DEF RecInv, l

\* A park takes the recovery in flight out of the controller's hand.
LEMMA SupersedeCore ==
  ASSUME NEW x, NEW k, RecInv(x, k), ~Top(k, Unguarded), x.inFlight # 0,
         x.state \in {"ACTIVE", "RECONNECTING", "UPSTREAM_LOST"},
         NEW y, Same(x, y, {"inFlight", "recoveries", "buffering"}), y.inFlight = 0,
         SameRecs(x.recoveries, y.recoveries, x.inFlight, {"owns"}),
           ~y.recoveries[x.inFlight].owns,
         x.recoveries[x.inFlight].owns => ~y.buffering,
         ~x.recoveries[x.inFlight].owns => y.buffering = x.buffering
  PROVE  /\ Core(y, k) /\ Calm(y, k) /\ FreshSound(y, k)
         /\ x.state = "UPSTREAM_LOST" => RecInv(y, k)
<1>1. Typed(x, k) /\ Attempts(x, k) /\ Recoveries(x, k) /\ Driven(x, k) /\ Starts(x, k)
      /\ Generations(x, k) /\ Buffers(x, k) /\ (~x.closing => Holds(x, k) /\ Budget(x, k))
  BY DEF RecInv
<1>2. x.inFlight \in 1..Len(x.recoveries) BY <1>1 DEF Typed
<1>3. /\ DOMAIN y = Fields
      /\ y.state = x.state /\ y.closing = x.closing /\ y.attempts = x.attempts
      /\ y.backoff = x.backoff /\ y.token = x.token /\ y.attemptInFlight = x.attemptInFlight
      /\ y.clientBuffering = x.clientBuffering /\ y.disposed = x.disposed
      /\ y.gen = x.gen /\ y.link = x.link
      /\ y.replacedFirstDial = x.replacedFirstDial /\ y.calls = x.calls
      /\ y.dialWindow = x.dialWindow /\ y.lossSpent = x.lossSpent
  BY DEF Same, Fields
<1>4. /\ y.recoveries \in Seq(RecoveryRecord) /\ Len(y.recoveries) = Len(x.recoveries)
      /\ \A q \in 1..Len(x.recoveries) :
           /\ y.recoveries[q].epoch = x.recoveries[q].epoch
           /\ y.recoveries[q].settled = x.recoveries[q].settled
           /\ q # x.inFlight => y.recoveries[q].owns = x.recoveries[q].owns
  BY <1>2 DEF SameRecs
<1>5. \A f \in All(k) : f.kind \in HostKinds \cup {"failed"} => f.id \in 1..Len(x.recoveries)
      /\ f.id # 0
  BY <1>1 DEF Typed
<1>6. Calm(y, k)
  <2>1. ~Live(y, k, HostKinds)
    <3> SUFFICES ASSUME k # <<>>, Head(k).kind \in HostKinds, Head(k).id = 0 PROVE FALSE
      BY DEF Live, Top
    <3> QED BY <1>1, HostFrame
  <2> QED BY <2>1 DEF Calm
<1>8. Typed(y, k) BY <1>1, <1>3, <1>4 DEF Typed
<1>9. Attempts(y, k) BY <1>1, <1>3, <1>6, CalmFacts DEF Attempts, AutoCalls, Quiet
<1>10. Recoveries(y, k) BY <1>5, <1>1, <1>3, <1>6, CalmFacts DEF All, Below, Recoveries
<1>11. Starts(y, k) BY <1>1, <1>3 DEF Starts
<1>12. Generations(y, k)
  <2>1. \A c \in y.calls : Stray(y, c) =>
          \E f \in All(k) : f.kind = "boundary" /\ ~y.recoveries[f.id].settled
            /\ Epoch(y, f) = y.gen + 2
    BY <1>3, <1>5, <1>1, <1>4 DEF Stray, HostKinds, Generations, Epoch
  <2>2. \A c \in y.calls : c.by = "host" => c.gen = y.recoveries[c.id].epoch
    <3>2. \A c \in x.calls : c.by = "host" => c.gen = x.recoveries[c.id].epoch
      BY <1>1 DEF Generations
    <3> QED BY <1>3, <1>4, <3>2, <1>1 DEF Typed
  <2>5. /\ ~Live(y, k, {"boundary"}) /\ ~Live(y, k, {"aborted"})
             /\ ~Live(y, k, {"aborted", "announced"})
        /\ ~Live(y, k, {"activated", "drained"})
    BY <1>6, CalmFacts
  <2>6. \A c \in y.calls : c.gen <= y.gen BY <1>1, <1>3 DEF Generations
  <2> QED BY <2>1, <2>2, <2>5, <2>6, <1>1, <1>3, <1>4 DEF Generations
<1>13. Buffers(y, k) BY <1>2, <1>4, <1>5, <1>1, <1>3, <1>6, CalmFacts DEF Buffers, Attempts
<1>14. FreshSound(y, k) BY <1>1, <1>3 DEF FreshSound, Budget, Sound
<1>15. ASSUME x.state = "UPSTREAM_LOST" PROVE Driven(y, k)
              /\ (~y.closing => Holds(y, k) /\ Budget(y, k))
  BY <1>3, <1>15, <1>1, <1>6, CalmFacts DEF Driven, Holds, Budget, AutoCalls, Sound
<1> QED BY <1>6, <1>8, <1>9, <1>10, <1>11, <1>12, <1>13, <1>14, <1>15 DEF Core, RecInv

\* triggerReconnect on a connection in use, or on one no longer in use.
LEMMA TriggerKeeps ==
  ASSUME NEW x, NEW k, RecInv(x, k), Calm(x, k), \A g \in All(k) : g.kind # "failed",
         TriggerReconnect(x, k)
  PROVE  RecInv(s, stack)'
<1>1. Typed(x, k) /\ Attempts(x, k) /\ Recoveries(x, k)
      /\ (~x.closing => Holds(x, k) /\ Budget(x, k))
      /\ Core(x, k) /\ FreshSound(x, k)
  BY DEF RecInv, Core, FreshSound, Budget
<1>2. CASE x.disposed \/ x.state # "ACTIVE" BY <1>2 DEF TriggerReconnect, Become
<1>3. CASE ~x.disposed /\ x.state = "ACTIVE"
  <2>2. RecInv(ParkUpstreamLost(x), k) BY <1>1, <1>3, ParkKeeps, CalmFacts DEF Recoveries
  <2>3. RecInv(GiveUp(x), k) BY <1>1, <2>2, ClosingKeeps DEF GiveUp
  <2>4. CASE x.handle /\ BudgetLeft(x) /\ Become(EnterReconnecting(x),
             <<Frame("window", 0, NoPlan)>> \o k)
    <3> DEFINE f == Frame("window", 0, NoPlan)
    <3>1. f \in FrameRecord /\ f.kind = "window" /\ f.plan = NoPlan
      BY FrameFacts, NoPlanIs DEF Kinds, Unguarded
    <3>2. x.attempts < MaxAttempts BY <2>4 DEF BudgetLeft
    <3> HIDE DEF f
    <3> QED BY <2>4, <1>3, EnterKeeps, <3>1, <3>2, NoPlanIs DEF Become, f, UnguardedFrame
  <2> QED BY <2>2, <2>3, <2>4, <1>3 DEF Become, TriggerReconnect
<1> QED BY <1>2, <1>3

\* The planned reconnect of a warning, from under the stack k.
LEMMA PlannedEnters ==
  ASSUME NEW x, NEW k, RecInv(x, k), Calm(x, k), x.state = "ACTIVE",
         \A g \in All(k) : g.kind # "failed",
         NEW plan \in Plans, plan.spent = 0
  PROVE  RecInv(EnterReconnecting(x), <<Frame("planned", 0, plan)>> \o k)
<1> DEFINE f == Frame("planned", 0, plan)
<1>1. f \in FrameRecord /\ f.kind = "planned" /\ f.plan = plan
  <2>1. "planned" \in Kinds /\ 0 \in Nat BY DEF Kinds, Unguarded
  <2> QED BY <2>1 DEF Frame, FrameRecord
<1> HIDE DEF f
<1>2. UnguardedFrame(x, f) BY <1>1 DEF UnguardedFrame
<1> QED BY <1>2, EnterKeeps DEF f

\* A plan that resumes with the handle.
LEMMA HandlePlan ==
  LET p == [NoPlan EXCEPT !.handle = TRUE] IN p \in Plans /\ p.spent = 0 /\ ~p.planned /\ ~p.fresh
BY DEF NoPlan, Plans

\* reconnectBeforeClose, on a warning or on an expired credential.
LEMMA ReconnectKeeps ==
  ASSUME NEW x, NEW k, RecInv(x, k), Calm(x, k), \A g \in All(k) : g.kind # "failed",
         NEW fresh, ReconnectBeforeClose(x, fresh, k)
  PROVE  RecInv(s, stack)'
<1>1. CASE Become(x, k) BY <1>1 DEF Become
<1>2. CASE x.state = "ACTIVE"
           /\ Become(EnterReconnecting(x),
                   <<Frame("planned", 0, [NoPlan EXCEPT !.handle = TRUE])>> \o k)
  <2> DEFINE p == [NoPlan EXCEPT !.handle = TRUE]
  <2>1. p \in Plans /\ p.spent = 0 BY HandlePlan
  <2> HIDE DEF p
  <2> QED BY <1>2, <2>1, PlannedEnters DEF Become, p
<1>3. CASE Become(x, <<Frame("freshPlanned", 0, NoPlan)>> \o k)
  <2> DEFINE f == Frame("freshPlanned", 0, NoPlan)
  <2>1. f \in FrameRecord /\ f.kind = "freshPlanned" BY FrameFacts, NoPlanIs DEF Kinds
  <2> HIDE DEF f
  <2>2. RecInv(x, <<f>> \o k) BY <2>1, PushKeeps
  <2> QED BY <1>3, <2>2 DEF Become, f
<1> QED BY <1>1, <1>2, <1>3 DEF ReconnectBeforeClose

-----------------------------------------------------------------------------
(* Frames that run.                                                        *)

\* start() goes on to its dial.
LEMMA FirstKeeps ==
  ASSUME NEW k, RecInv(s, k), k # <<>>, Head(k).kind = "first", k = stack, FirstDial(s)
  PROVE  RecInv(s, stack)'
<1> DEFINE x == s
           l == Tail(k)
           y == Connect(x, "first", 0, NoPlan)
           d == NewCall("first", 0, "dialing", x.gen + 1, NoPlan)
<1>1. Typed(x, k) /\ Starts(x, k) BY DEF RecInv
<1>2. RecInv(x, l) /\ Calm(x, l) BY PopKeeps
<1>3. CASE x.replacedFirstDial BY <1>2, <1>3 DEF FirstDial, Become
<1>4. CASE ~x.replacedFirstDial
  <2>1. s' = y /\ stack' = l BY <1>4 DEF FirstDial, Become
  <2>2. Typed(x, l) /\ Attempts(x, l) /\ Recoveries(x, l) /\ Driven(x, l) /\ Starts(x, l)
        /\ Generations(x, l) /\ Buffers(x, l) /\ (~x.closing => Holds(x, l) /\ Budget(x, l))
    BY <1>2 DEF RecInv
  <2>t. DOMAIN x = Fields /\ x.gen \in Nat BY <1>1 DEF Typed
  <2>3. Same(x, y, {"gen", "calls"}) /\ y.gen = x.gen + 1 /\ y.calls = x.calls \cup {d}
    BY <2>t, ConnectIs
  <2>4. d \in CallRecord /\ d.by = "first" /\ d.id = 0 /\ d.phase = "dialing" /\ d.gen = x.gen + 1
    BY <2>t, NoPlanIs DEF NewCall, CallRecord
  <2>5. /\ Head(k) \in All(k) /\ All(k) = {Head(k)} \cup Below(k) /\ All(l) = Below(k)
        /\ \A f \in Below(k) : f.kind # "first"
    BY <1>1, Popped, OncePopped DEF Typed, Starts
  <2> HIDE DEF y, d, l
  <2>6. x.state = "CONNECTING" /\ \A c \in x.calls : c.by # "first" BY <1>1, <1>4, <2>5 DEF Starts
  <2>7. /\ DOMAIN y = Fields /\ y.recoveries = x.recoveries
        /\ y.state = x.state /\ y.closing = x.closing /\ y.attempts = x.attempts
        /\ y.backoff = x.backoff /\ y.token = x.token /\ y.attemptInFlight = x.attemptInFlight
        /\ y.clientBuffering = x.clientBuffering /\ y.disposed = x.disposed
        /\ y.inFlight = x.inFlight /\ y.link = x.link
        /\ y.replacedFirstDial = x.replacedFirstDial
        /\ y.buffering = x.buffering /\ y.dialWindow = x.dialWindow
        /\ y.lossSpent = x.lossSpent
    BY <2>3 DEF Same, Fields
  <2>8. Calm(y, l) /\ AutoCalls(y) = AutoCalls(x)
    BY <1>2, <2>3, <2>4, <2>7, CalmAlike DEF AutoCalls
  <2>9. Typed(y, l) BY <2>2, <2>t, <2>3, <2>4, <2>7 DEF Typed
  <2>10. Attempts(y, l) BY <2>2, <2>7, <2>8 DEF Attempts, Quiet
  <2>11. Recoveries(y, l) BY <1>2, <2>2, <2>3, <2>7, <2>8, CalmFacts DEF Recoveries
  <2>12. Driven(y, l) BY <2>2, <2>7 DEF Driven
  <2>13. Starts(y, l) BY <2>2, <2>3, <2>4, <2>5, <2>6, <2>7 DEF Starts
  <2>14. Generations(y, l)
    BY <2>4, <2>6, <2>7, <2>3, <2>t, <2>8, CalmFacts, <1>2, <2>2, GenKeeps DEF Stray
  <2>15. Buffers(y, l) BY <1>2, <2>2, <2>7, <2>8, CalmFacts DEF Buffers
  <2>16. ~y.closing => Holds(y, l) BY <1>2, <2>2, <2>7, <2>8, CalmFacts DEF Holds
  <2>17. ~y.closing => Budget(y, l) BY <1>2, <2>2, <2>7, <2>8, CalmFacts DEF Budget, Sound
  <2> QED BY <2>1, <2>9, <2>10, <2>11, <2>12, <2>13, <2>14, <2>15, <2>16, <2>17 DEF RecInv
<1> QED BY <1>3, <1>4

\* A retry begins to wait for its backoff.
LEMMA ScheduleKeeps ==
  ASSUME NEW x, NEW k, Core(x, k), Calm(x, k), Quiet(x), x.state = "RECONNECTING",
         ~x.closing => Holds(x, k), \A f \in All(k) : f.kind = "freshDial" => f.id # x.token,
         x.attempts < MaxAttempts, NEW plan \in Plans, ~x.closing => Sound(x, plan)
  PROVE  RecInv(ScheduleBudgetedDial(x, plan), k)
<1> DEFINE y == ScheduleBudgetedDial(x, plan)
           p == [plan EXCEPT !.spent = IF plan.planned THEN @ + 1 ELSE @]
<1>1. Typed(x, k) /\ Attempts(x, k) /\ Recoveries(x, k) /\ Starts(x, k)
      /\ Generations(x, k) /\ Buffers(x, k)
  BY DEF Core
<1>t. /\ DOMAIN x = Fields /\ MaxAttempts \in Nat /\ x.attempts \in Nat /\ x.lossSpent \in Nat
      /\ x.attempts + 1 \in 0..MaxAttempts /\ x.lossSpent + 1 \in Nat
  BY <1>1, RecoveryAssumption DEF Typed
<1>p. /\ p \in Plans /\ p.planned = plan.planned /\ plan.spent \in Nat
      /\ p.spent = IF plan.planned THEN plan.spent + 1 ELSE plan.spent
  BY DEF Plans
<1>2. /\ Same(x, y, {"attempts", "lossSpent", "backoff"})
      /\ y.attempts = x.attempts + 1
      /\ y.lossSpent = IF plan.planned THEN x.lossSpent ELSE x.lossSpent + 1
      /\ y.backoff = x.backoff \cup {p}
  BY <1>t, ScheduleIs
<1> HIDE DEF y, p
<1>3. /\ DOMAIN y = Fields
      /\ y.state = x.state /\ y.closing = x.closing
      /\ y.token = x.token /\ y.attemptInFlight = x.attemptInFlight
      /\ y.clientBuffering = x.clientBuffering /\ y.disposed = x.disposed
      /\ y.inFlight = x.inFlight /\ y.recoveries = x.recoveries
      /\ y.replacedFirstDial = x.replacedFirstDial /\ y.gen = x.gen /\ y.link = x.link
      /\ y.calls = x.calls /\ y.buffering = x.buffering /\ y.dialWindow = x.dialWindow
  BY <1>2 DEF Same, Fields
<1>4. x.inFlight = 0 /\ ~x.attemptInFlight /\ x.backoff = {} /\ y.backoff = {p} BY <1>2 DEF Quiet
<1>5. Calm(y, k) BY <1>3, CalmAlike
<1>6. Typed(y, k) BY <1>1, <1>t, <1>p, <1>2, <1>3, <1>4, <1>5, CalmFacts DEF Typed
<1>7. Attempts(y, k) BY <1>1, <1>3, <1>4, <1>5, CalmFacts DEF Attempts, AutoCalls
<1>8. Recoveries(y, k) BY <1>1, <1>3, <1>4, <1>5, CalmFacts DEF Recoveries
<1>9. Driven(y, k) BY <1>4 DEF Driven
<1>10. Starts(y, k) BY <1>1, <1>3 DEF Starts
<1>11. Generations(y, k) BY <1>1, <1>3 DEF Generations, Live, Stray, Epoch
<1>12. Buffers(y, k) BY <1>1, <1>3, <1>5, CalmFacts DEF Buffers
<1>13. ~y.closing => Holds(y, k) BY <1>3, <1>4, <1>5, CalmFacts DEF Holds
<1>14. ~y.closing => Budget(y, k)
  <2> SUFFICES ASSUME ~x.closing PROVE Budget(y, k) BY <1>3
  <2>1. Sound(y, p)
    <3>1. CASE plan.planned BY <1>2, <1>3, <1>p, <1>t, <3>1 DEF Sound
    <3>2. CASE ~plan.planned BY <1>2, <1>3, <1>p, <1>t, <3>2 DEF Sound
    <3> QED BY <3>1, <3>2
  <2> QED BY <1>3, <1>4, <1>5, <2>1, CalmFacts, <1>1 DEF Budget, Attempts, AutoCalls
<1> QED BY <1>6, <1>7, <1>8, <1>9, <1>10, <1>11, <1>12, <1>13, <1>14 DEF RecInv, y

\* The reconnect window opens: the client's audio is buffered.
LEMMA WindowCore ==
  ASSUME NEW x, NEW k, Core(x, k), x.state = "RECONNECTING", x.inFlight = 0
  PROVE  LET y == OpenWindow(x) IN
         /\ Core(y, k) /\ (Holds(x, k) => Holds(y, k)) /\ (Quiet(x) => Quiet(y))
                 /\ (Calm(x, k) => Calm(y, k))
         /\ (FreshSound(x, k) => FreshSound(y, k))
         /\ Same(x, y, {"buffering", "clientBuffering"})
<1> DEFINE y == OpenWindow(x)
<1>1. Typed(x, k) /\ Attempts(x, k) /\ Recoveries(x, k) /\ Starts(x, k)
      /\ Generations(x, k) /\ Buffers(x, k)
  BY DEF Core
<1>2. Same(x, y, {"buffering", "clientBuffering"}) /\ y.clientBuffering = TRUE
  BY <1>1, WindowIs DEF Typed
<1> HIDE DEF y
<1>3. /\ DOMAIN y = Fields
      /\ y.state = x.state /\ y.closing = x.closing /\ y.attempts = x.attempts
      /\ y.backoff = x.backoff /\ y.token = x.token /\ y.attemptInFlight = x.attemptInFlight
      /\ y.disposed = x.disposed
      /\ y.inFlight = x.inFlight /\ y.recoveries = x.recoveries
      /\ y.replacedFirstDial = x.replacedFirstDial /\ y.gen = x.gen /\ y.link = x.link
      /\ y.calls = x.calls /\ y.dialWindow = x.dialWindow /\ y.lossSpent = x.lossSpent
  BY <1>2 DEF Same, Fields
<1>4. Typed(y, k) BY <1>1, <1>2, <1>3 DEF Typed
<1>5. Attempts(y, k) BY <1>1, <1>3 DEF Attempts, AutoCalls, Quiet
<1>6. Recoveries(y, k) BY <1>1, <1>3 DEF Recoveries, Live
<1>7. Starts(y, k) BY <1>1, <1>3 DEF Starts
<1>8. Generations(y, k) BY <1>1, <1>3 DEF Generations, Live, Stray, Epoch
<1>9. Buffers(y, k) BY <1>1, <1>3, <1>2 DEF Recoveries, Live, Buffers
<1>10. /\ (Holds(x, k) => Holds(y, k)) /\ (Quiet(x) => Quiet(y)) /\ (Calm(x, k) => Calm(y, k))
       /\ (FreshSound(x, k) => FreshSound(y, k))
  BY <1>3 DEF Holds, Quiet, Calm, FreshSound, Live, Sound
<1> QED BY <1>2, <1>4, <1>5, <1>6, <1>7, <1>8, <1>9, <1>10 DEF Core, y

\* A subscriber of the reconnect's own transition has run: its frame goes.
LEMMA UnguardedPops ==
  ASSUME NEW x, NEW k, RecInv(x, k), k # <<>>, Head(k).kind \in Unguarded
  PROVE  /\ Core(x, Tail(k)) /\ Calm(x, Tail(k)) /\ Quiet(x) /\ FreshSound(x, Tail(k))
         /\ ~x.closing => Holds(x, Tail(k)) /\ Budget(x, k)
         /\ x.state \in {"RECONNECTING", "CLOSED"}
         /\ Head(k).kind \in {"window", "planned"} => x.state = "RECONNECTING"
         /\ \A f \in All(Tail(k)) : f.kind = "freshDial" => f.id # x.token
<1> DEFINE l == Tail(k)
<1>1. Core(x, k) /\ Attempts(x, k) /\ Typed(x, k) /\ (~x.closing => Holds(x, k) /\ Budget(x, k))
  BY DEF RecInv, Core
<1>2. Head(k).kind \notin HostKinds \cup {"failed", "freshDial"} BY DEF HostKinds, Unguarded
<1>3. Core(x, l) /\ Calm(x, l) /\ All(l) = Below(k) /\ All(k) = {Head(k)} \cup Below(k)
  BY <1>1, <1>2, PopCore
<1> HIDE DEF l
<1>4. Top(k, Unguarded) /\ (Head(k).kind \in {"window", "planned"}
      => Top(k, {"window", "planned"}))
      /\ (Head(k).kind = "report" => Top(k, {"report"}))
      /\ Head(k).kind \in {"window", "planned", "report"}
  BY DEF Top, Unguarded
<1>5. Quiet(x) /\ (\A f \in All(k) : f.kind = "freshDial" => f.id # x.token)
  BY <1>1, <1>4 DEF Attempts
<1> QED BY <1>1, <1>3, <1>5, <1>4, <1>2 DEF l, Attempts, Quiet, Holds, FreshSound

\* The window of a reconnect opens, and its first retry is scheduled.
LEMMA WindowKeeps ==
  ASSUME RecInv(s, stack), stack # <<>>, Head(stack).kind = "window", WindowOpens(s)
  PROVE  RecInv(s, stack)'
<1> DEFINE k == stack
           l == Tail(stack)
           y == OpenWindow(s)
           p == [NoPlan EXCEPT !.handle = TRUE]
<1>1. /\ Core(s, l) /\ Calm(s, l) /\ Quiet(s) /\ FreshSound(s, l)
      /\ ~s.closing => Holds(s, l) /\ Budget(s, k)
      /\ s.state = "RECONNECTING"
      /\ \A f \in All(l) : f.kind = "freshDial" => f.id # s.token
  BY UnguardedPops DEF Unguarded
<1>2. s.inFlight = 0 BY <1>1 DEF Quiet
<1>3. s' = ScheduleBudgetedDial(y, p) /\ stack' = l BY DEF WindowOpens, Become
<1>4. Typed(s, k) /\ Top(k, {"window"}) /\ Top(k, {"window", "planned"}) BY DEF RecInv, Top
<1>5. p \in Plans /\ ~p.planned /\ p.spent = 0 BY HandlePlan
<1> HIDE DEF k, l, p
<1>6. /\ Core(y, l) /\ (Holds(s, l) => Holds(y, l)) /\ (Quiet(s) => Quiet(y))
           /\ (Calm(s, l) => Calm(y, l))
      /\ Same(s, y, {"buffering", "clientBuffering"})
  BY <1>1, <1>2, WindowCore
<1> HIDE DEF y
<1>10. RecInv(ScheduleBudgetedDial(y, p), l)
  BY <1>1, <1>5, <1>6, ScheduleKeeps, <1>4 DEF Typed, Budget, Sound, Same, Fields
<1> QED BY <1>3, <1>10

\* The window of a planned reconnect opens, and it dials at once.
LEMMA PlannedKeeps ==
  ASSUME RecInv(s, stack), stack # <<>>, Head(stack).kind = "planned",
         PlannedWindowOpens(s, Head(stack).plan)
  PROVE  RecInv(s, stack)'
<1> DEFINE k == stack
           l == Tail(stack)
           y == OpenWindow(s)
           p == [Head(k).plan EXCEPT !.planned = TRUE]
<1>1. /\ Core(s, l) /\ Calm(s, l) /\ Quiet(s) /\ FreshSound(s, l)
      /\ ~s.closing => Holds(s, l) /\ Budget(s, k)
      /\ s.state = "RECONNECTING"
      /\ \A f \in All(l) : f.kind = "freshDial" => f.id # s.token
  BY UnguardedPops DEF Unguarded
<1>2. s.inFlight = 0 BY <1>1 DEF Quiet
<1>3. s' = RunReconnect(y, p) /\ stack' = l BY DEF PlannedWindowOpens, Become
<1>4. Typed(s, k) /\ Top(k, {"planned"}) /\ Top(k, {"window", "planned"}) BY DEF RecInv, Top
<1>5. Head(k).plan \in Plans BY <1>4, Popped DEF Typed, FrameRecord
<1>6. p \in Plans /\ p.planned /\ p.spent = Head(k).plan.spent BY <1>5 DEF Plans
<1>7. ~s.closing => Head(k).plan.spent = 0 /\ s.attempts = s.lossSpent /\ s.lossSpent \in Nat
  BY <1>1, <1>4 DEF Budget, Typed
<1> HIDE DEF k, l, p
<1>8. /\ Core(y, l) /\ (Holds(s, l) => Holds(y, l)) /\ (Quiet(s) => Quiet(y))
           /\ (Calm(s, l) => Calm(y, l))
      /\ (FreshSound(s, l) => FreshSound(y, l))
      /\ Same(s, y, {"buffering", "clientBuffering"})
  BY <1>1, <1>2, WindowCore
<1> HIDE DEF y
<1> QED BY <1>3, <1>1, <1>6, <1>8, RunKeeps, <1>7 DEF Fits, Same, Fields

\* A rotation without a handle goes on after its boundary.
LEMMA RotationKeeps ==
  ASSUME RecInv(s, stack), stack # <<>>, Head(stack).kind = "freshPlanned", FreshRotationGoesOn(s)
  PROVE  RecInv(s, stack)'
<1> DEFINE l == Tail(stack)
<1>1. RecInv(s, l) /\ Calm(s, l) BY PopKeeps
<1>2. \A g \in All(l) : g.kind # "failed"
  <2>1. Typed(s, stack) /\ Recoveries(s, stack) BY DEF RecInv
  <2>2. Head(stack) \in All(stack) /\ All(l) \subseteq All(stack) BY <2>1, Popped DEF Typed
  <2> QED BY <2>1, <2>2 DEF Recoveries, HostKinds
<1> HIDE DEF l
<1>3. CASE s.disposed \/ s.state # "ACTIVE" BY <1>1, <1>3 DEF FreshRotationGoesOn, Become, l
<1>4. CASE ~(s.disposed \/ s.state # "ACTIVE")
  BY <1>1, <1>2, <1>4, NoPlanIs, PlannedEnters DEF FreshRotationGoesOn, Become, l
<1> QED BY <1>3, <1>4

\* A fresh dial goes on after its boundary, if the attempt is still its own.
LEMMA FreshDialKeeps ==
  ASSUME RecInv(s, stack), stack # <<>>, Head(stack).kind = "freshDial",
         FreshDialGoesOn(s, Head(stack).id, Head(stack).plan)
  PROVE  RecInv(s, stack)'
<1> DEFINE l == Tail(stack)
           f == Head(stack)
<1>1. CASE s.disposed \/ s.state # "RECONNECTING" \/ s.token # f.id
  <2>2. ASSUME s' = s, stack' = l, f.id # s.token \/ s.state # "RECONNECTING"
        PROVE  RecInv(s, stack)'
    BY <2>2, PopKeeps
  <2>3. ASSUME s' = s, stack' = l, s.disposed, ~(f.id # s.token \/ s.state # "RECONNECTING")
        PROVE  RecInv(s, stack)'
    BY <2>3, PopCore DEF RecInv, Core, Typed, HostKinds, Driven
  <2> QED BY <1>1, <2>2, <2>3 DEF FreshDialGoesOn, Become
<1>2. CASE ~s.disposed /\ s.state = "RECONNECTING" /\ s.token = f.id
  <2>1. /\ Core(s, stack) /\ Typed(s, stack) /\ Attempts(s, stack)
        /\ (~s.closing => Holds(s, stack) /\ Budget(s, stack))
    BY DEF RecInv, Core
  <2>2. /\ Core(s, l) /\ Calm(s, l) /\ All(l) = Below(stack) /\ All(stack) = {f} \cup Below(stack)
    BY <2>1, PopCore DEF HostKinds
  <2>3. Quiet(s) BY <1>2, <2>1, <2>2 DEF Attempts
  <2>4. f.plan \in Plans BY <2>1, Popped DEF Typed, FrameRecord
  <2>5. /\ (s' = ParkUpstreamLost(s) \/ s' = RunReconnect(s, f.plan)) /\ stack' = l
    BY <1>2 DEF FreshDialGoesOn, Become
  <2> HIDE DEF l
  <2>6. ~s.closing => Sound(s, f.plan) /\ FreshSound(s, l)
    BY <1>2, <2>1, <2>2 DEF Budget, FreshSound
  <2>7. s.inFlight = 0 /\ (~s.closing => Holds(s, l)) /\ FreshSound(s, l)
    BY <2>3, <2>1, <2>2, <2>6 DEF Quiet, Holds, FreshSound
  <2>10. RecInv(RunReconnect(s, f.plan), l)
    BY <1>2, <2>2, <2>3, <2>4, <2>7, RunKeeps, <2>6 DEF Fits, Sound
  <2> QED BY <2>5, <2>10, <1>2, <2>2, <2>7, ParkKeeps DEF Parks
<1> QED BY <1>1, <1>2

\* The connection of an expired credential is closed if it is still attached.
LEMMA ExpiredKeeps ==
  ASSUME RecInv(s, stack), stack # <<>>, Head(stack).kind = "expired",
         ExpiredConnectionCloses(s, Head(stack).id)
  PROVE  RecInv(s, stack)'
<1> DEFINE l == Tail(stack)
           y == AbortIncumbent(s)
<1>1. RecInv(s, l) /\ Calm(s, l) BY PopKeeps
<1>2. \A g \in All(l) : g.kind # "failed"
  <2>1. Typed(s, stack) /\ Recoveries(s, stack) BY DEF RecInv
  <2>2. Head(stack) \in All(stack) /\ All(l) \subseteq All(stack) BY <2>1, Popped DEF Typed
  <2> QED BY <2>1, <2>2 DEF Recoveries, HostKinds
<1> HIDE DEF l
<1>3. DOMAIN s = Fields BY <1>1 DEF RecInv, Typed
<1>4. Same(s, y, {"link", "alive", "gen"}) /\ y.link = 0 /\ y.gen = s.gen + 1 BY <1>3, AbortIs
<1> HIDE DEF y
<1>5. RecInv(y, l) /\ Calm(y, l) BY <1>4, <1>1, DetachKeeps, CalmAlike DEF Same, Fields
<1>6. CASE s.gen # Head(stack).id \/ s.link = 0
  BY <1>1, <1>6 DEF ExpiredConnectionCloses, Become, l
<1>7. CASE ~(s.gen # Head(stack).id \/ s.link = 0)
  BY <1>7, <1>2, <1>5, TriggerKeeps DEF ExpiredConnectionCloses, y, l
<1> QED BY <1>6, <1>7

\* The error report of a failed attempt has run: the session parks or closes.
LEMMA ReportKeeps ==
  ASSUME RecInv(s, stack), stack # <<>>, Head(stack).kind = "report",
         Become(GiveUp(s), Tail(stack))
  PROVE  RecInv(s, stack)'
<1> DEFINE l == Tail(stack)
<1>1. /\ Core(s, l) /\ Calm(s, l) /\ Quiet(s) /\ FreshSound(s, l)
      /\ s.state \in {"RECONNECTING", "CLOSED"}
  BY UnguardedPops DEF Unguarded
<1> HIDE DEF l
<1>2. s.inFlight = 0 BY <1>1 DEF Quiet
<1>4. RecInv(ParkUpstreamLost(s), l)
  BY <1>1, <1>2, ParkKeeps DEF Parks, Core, Typed, RecInv, Driven
<1> QED BY <1>4, <1>1, ClosingKeeps DEF GiveUp, Become, l

\* The error report of a failed recovery has run: it parks unless another began.
LEMMA FailedKeeps ==
  ASSUME RecInv(s, stack), stack # <<>>, Head(stack).kind = "failed",
         RecoveryFailed(s, Head(stack).id)
  PROVE  RecInv(s, stack)'
<1> DEFINE k == stack
           l == Tail(stack)
           r == Head(stack).id
           y == EndClientBuffering(s, r)
<1>1. Typed(s, k) /\ r \in 1..Len(s.recoveries) BY HostFrame DEF RecInv
<1>2. /\ Same(s, y, {"recoveries", "buffering"})
      /\ SameRecs(s.recoveries, y.recoveries, r, {"owns"}) /\ y.recoveries[r].owns = FALSE
      /\ s.recoveries[r].owns => ~y.buffering
      /\ ~s.recoveries[r].owns => y.buffering = s.buffering
  BY <1>1, EndIs DEF Typed
<1>3. /\ s' = IF y.inFlight = 0 THEN ParkUpstreamLost(y) ELSE y
      /\ stack' = l
  BY DEF RecoveryFailed, Become
<1> HIDE DEF y
<1>4. Ended(s, r, y) BY <1>2 DEF Ended, SameRecs
<1>5. RecInv(y, k) BY <1>1, <1>4, EndKeeps
<1>6. /\ Core(y, k) /\ Typed(y, k) /\ Attempts(y, k) /\ Recoveries(y, k) /\ Driven(y, k)
      /\ (~y.closing => Holds(y, k) /\ Budget(y, k))
  BY <1>5 DEF RecInv, Core
<1>7. /\ Core(y, l) /\ Calm(y, l) /\ All(l) = Below(k) /\ All(k) = {Head(k)} \cup Below(k)
  BY <1>2, <1>6, PopCore DEF HostKinds
<1>8. /\ ~Top(k, Unguarded) /\ ~Live(y, k, {"drained"}) /\ ~Live(y, k, {"activated"})
           /\ Head(k).kind = "failed"
  BY DEF Top, Live, Unguarded
<1> HIDE DEF l, k
<1>10. ~y.closing => Budget(y, l) BY <1>6, <1>7, <1>8, CalmFacts DEF Budget
<1>11. CASE y.inFlight # 0
  BY <1>11, <1>6, <1>7, <1>8, CalmFacts, <1>3, <1>10 DEF Driven, Holds, RecInv, Core
<1>12. CASE y.inFlight = 0
  <2>2. ASSUME ~Parks(y) PROVE RecInv(y, l)
    BY <1>6, <2>2, <1>12, <1>7, <1>10 DEF Parks, Typed, Driven, Holds, RecInv, Core
  <2> QED BY <1>3, <1>12, <1>7, <2>2, ParkKeeps, <1>6, <1>8 DEF Recoveries, FreshSound, Budget
<1> QED BY <1>11, <1>12

\* The disconnect that follows a park.
LEMMA ParkedKeeps ==
  ASSUME RecInv(s, stack), stack # <<>>, Head(stack).kind = "parked",
         Become(DisconnectTransport(s), Tail(stack))
  PROVE  RecInv(s, stack)'
<1> DEFINE y == DisconnectTransport(s)
<1>1. RecInv(s, Tail(stack)) /\ Calm(s, Tail(stack)) BY PopKeeps
<1>2. DOMAIN s = Fields BY <1>1 DEF RecInv, Typed
<1>3. Same(s, y, {"link", "alive", "gen"}) /\ y.link = 0 /\ y.gen \in {s.gen, s.gen + 1}
  BY <1>2, DisconnectIs
<1> HIDE DEF y
<1>4. RecInv(y, Tail(stack)) BY <1>1, <1>3, DetachKeeps
<1> QED BY <1>4 DEF Become, y

\* The frame that a host recovery leaves for what it does next.
LEMMA NextFrameIs ==
  ASSUME NEW k, k # <<>>, NEW x, Typed(x, k), Head(k).kind \in HostKinds, NEW kind \in Kinds
  PROVE  NextFrame(k, Frame(kind, Head(k).id, NoPlan), kind)
<1>1. Head(k).id \in Nat BY HostFrame DEF FrameRecord
<1> QED BY <1>1, FrameFacts, NoPlanIs DEF NextFrame

\* The frames of a host recovery: it goes on, or it must stop.
LEMMA HostFramesKeep ==
  ASSUME RecInv(s, stack), stack # <<>>,
         \/ Head(stack).kind = "boundary" /\ BoundaryCrossed(s, Head(stack).id)
         \/ Head(stack).kind = "aborted" /\ IncumbentAborted(s, Head(stack).id)
         \/ Head(stack).kind = "announced" /\ BoundaryAnnounced(s, Head(stack).id)
         \/ Head(stack).kind = "activated" /\ Activated(s, Head(stack).id)
         \/ Head(stack).kind = "drained" /\ Drained(s, Head(stack).id)
  PROVE  RecInv(s, stack)'
<1> DEFINE r == Head(stack).id
<1>1. Typed(s, stack) /\ Head(stack).kind \in HostKinds /\ r \in 1..Len(s.recoveries)
  BY HostFrame DEF RecInv, HostKinds
<1>2. ASSUME MustStop(s, r) PROVE RecInv(Stop(s, r), Tail(stack)) BY <1>1, <1>2, StopKeeps
<1>3. CASE Head(stack).kind = "boundary" /\ BoundaryCrossed(s, r)
  <2>1. CASE MustStop(s, r) BY <1>2, <1>3, <2>1 DEF BoundaryCrossed, Become
  <2>2. CASE ~MustStop(s, r)
    <3> DEFINE g == Frame("aborted", r, NoPlan)
    <3> QED BY <1>3, <2>2, BoundaryKeeps, <1>1, NextFrameIs DEF BoundaryCrossed, Become, Kinds, HostKinds
  <2> QED BY <2>1, <2>2
<1>4. CASE Head(stack).kind = "aborted" /\ IncumbentAborted(s, r)
  <2>1. CASE MustStop(s, r) BY <1>2, <1>4, <2>1 DEF IncumbentAborted, Become
  <2>2. CASE ~MustStop(s, r)
    <3> DEFINE g == Frame("announced", r, NoPlan)
    <3> QED BY <1>4, <2>2, AbortedKeeps, <1>1, NextFrameIs DEF IncumbentAborted, Become, Kinds, HostKinds
  <2> QED BY <2>1, <2>2
<1>5. CASE Head(stack).kind = "announced" /\ BoundaryAnnounced(s, r)
  <2> DEFINE y == [s EXCEPT !.handle = FALSE]
  <2>1. Same(s, y, {"handle"}) /\ Same(s, y, Unread) BY <1>1 DEF Same, Fields, Typed, Unread
  <2>2. \/ MustStop(y, r) /\ s' = Stop(y, r) /\ stack' = Tail(stack)
        \/ ~MustStop(y, r) /\ s' = Connect(y, "host", r, NoPlan) /\ stack' = Tail(stack)
    BY <1>5 DEF BoundaryAnnounced, Become
  <2> HIDE DEF y
  <2>3. RecInv(y, stack) BY <2>1, UnreadKeeps
  <2>4. ASSUME MustStop(y, r) PROVE RecInv(Stop(y, r), Tail(stack)) BY <1>1, <2>3, <2>4, StopKeeps
  <2>5. ASSUME ~MustStop(y, r) PROVE RecInv(Connect(y, "host", r, NoPlan), Tail(stack))
    BY <1>5, <2>3, <2>5, AnnouncedKeeps
  <2> QED BY <2>2, <2>4, <2>5
<1>6. CASE Head(stack).kind = "activated" /\ Activated(s, r)
  <2>1. CASE MustStop(s, r) BY <1>2, <1>6, <2>1 DEF Activated, Become
  <2>2. CASE ~MustStop(s, r)
    <3> DEFINE g == Frame("drained", r, NoPlan)
    <3>2. RecInv([s EXCEPT !.attempts = 0, !.lossSpent = 0, !.dialWindow = FALSE],
          <<g>> \o Tail(stack))
      BY <1>6, <2>2, ActivatedKeeps, <1>1, NextFrameIs DEF Kinds, HostKinds
    <3> QED BY <1>6, <2>2, <3>2 DEF Activated, Become
  <2> QED BY <2>1, <2>2
<1>7. CASE Head(stack).kind = "drained" /\ Drained(s, r)
  <2>1. CASE MustStop(s, r) BY <1>2, <1>7, <2>1 DEF Drained, Become
  <2>2. CASE ~MustStop(s, r)
    <3> DEFINE a == Release(s, r)
               y == [a EXCEPT !.recoveries[r].outcome = "activated"]
               b == [a.recoveries EXCEPT ![r].outcome = "activated"]
    <3>1. s' = y /\ stack' = Tail(stack) BY <1>7, <2>2 DEF Drained, Become
    <3>2. Same(s, a, {"inFlight"}) /\ a.inFlight = 0 /\ s.inFlight = r
      BY <1>1, <2>2, ReleaseIs DEF MustStop, Typed
    <3> HIDE DEF a
    <3>3. DOMAIN a = Fields /\ a.recoveries = s.recoveries BY <3>2 DEF Same, Fields
    <3>4. SameRecs(s.recoveries, b, r, {"outcome"}) BY <1>1, <3>3, RecordIs DEF Typed
    <3>5. y = [a EXCEPT !.recoveries = b] OBVIOUS
    <3> HIDE DEF b, y
    <3> QED BY <3>1, <1>7, <2>2, <3>4, DrainedKeeps, <3>2, <3>3, <3>5 DEF Same, Fields
  <2> QED BY <2>1, <2>2
<1> QED BY <1>3, <1>4, <1>5, <1>6, <1>7

\* Every frame that runs keeps the invariant.
LEMMA FramesKeep ==
  ASSUME RecInv(s, stack), RunFrame
  PROVE  RecInv(s, stack)'
<1> DEFINE f == Head(stack)
<1>1. stack # <<>> BY DEF RunFrame
<1>2. CASE f.kind = "first" /\ FirstDial(s) BY <1>1, <1>2, FirstKeeps
<1>3. CASE f.kind = "window" /\ WindowOpens(s) BY <1>1, <1>3, WindowKeeps
<1>4. CASE f.kind = "planned" /\ PlannedWindowOpens(s, f.plan) BY <1>1, <1>4, PlannedKeeps
<1>5. CASE f.kind = "freshPlanned" /\ FreshRotationGoesOn(s) BY <1>1, <1>5, RotationKeeps
<1>6. CASE f.kind = "freshDial" /\ FreshDialGoesOn(s, f.id, f.plan) BY <1>1, <1>6, FreshDialKeeps
<1>7. CASE f.kind = "expired" /\ ExpiredConnectionCloses(s, f.id) BY <1>1, <1>7, ExpiredKeeps
<1>8. CASE f.kind = "report" /\ Become(GiveUp(s), Tail(stack)) BY <1>1, <1>8, ReportKeeps
<1>9. CASE \/ f.kind = "boundary" /\ BoundaryCrossed(s, f.id)
           \/ f.kind = "aborted" /\ IncumbentAborted(s, f.id)
           \/ f.kind = "announced" /\ BoundaryAnnounced(s, f.id)
           \/ f.kind = "activated" /\ Activated(s, f.id)
           \/ f.kind = "drained" /\ Drained(s, f.id)
  BY <1>1, <1>9, HostFramesKeep
<1>10. CASE f.kind = "failed" /\ RecoveryFailed(s, f.id) BY <1>1, <1>10, FailedKeeps
<1>11. CASE f.kind = "parked" /\ Become(DisconnectTransport(s), Tail(stack))
  BY <1>1, <1>11, ParkedKeeps
<1> QED BY <1>2, <1>3, <1>4, <1>5, <1>6, <1>7, <1>8, <1>9, <1>10, <1>11 DEF RunFrame

-----------------------------------------------------------------------------
(* What comes from outside.                                                *)

\* A connection is lost.
LEMMA LostKeeps ==
  ASSUME RecInv(s, stack), ConnectionLost
  PROVE  RecInv(s, stack)'
<1>1. RecInv(s, <<>>) BY DEF ConnectionLost, Idle
<1>2. CASE TriggerReconnect([s EXCEPT !.alive = FALSE], <<>>)
  <2> DEFINE y == [s EXCEPT !.alive = FALSE]
  <2>1. Same(s, y, Unread) BY <1>1 DEF RecInv, Typed, Same, Fields, Unread
  <2> HIDE DEF y
  <2>2. RecInv(y, <<>>) BY <1>1, <2>1, UnreadKeeps
  <2> QED BY <2>2, IdleCalm, Emptied, TriggerKeeps, <1>2 DEF y
<1>3. CASE TriggerReconnect(s, <<>>) BY <1>1, <1>3, IdleCalm, Emptied, TriggerKeeps
<1> QED BY <1>2, <1>3 DEF ConnectionLost

\* A GoAway, and an expired credential.
LEMMA WarningsKeep ==
  ASSUME RecInv(s, stack), GoAway \/ CredentialExpires
  PROVE  RecInv(s, stack)'
<1>1. RecInv(s, <<>>) BY DEF GoAway, CredentialExpires, Idle
<1>2. CASE GoAway BY <1>1, <1>2, IdleCalm, Emptied, ReconnectKeeps DEF GoAway
<1>3. CASE CredentialExpires
  <2> DEFINE f == Frame("expired", s.gen, NoPlan)
             k == <<f>>
  <2>1. s.gen \in Nat BY <1>1 DEF RecInv, Typed
  <2>2. f \in FrameRecord /\ f.kind = "expired" BY <2>1, FrameFacts, NoPlanIs DEF Kinds
  <2>3. ReconnectBeforeClose(s, TRUE, k) BY <1>3 DEF CredentialExpires
  <2> HIDE DEF f
  <2>4. <<f>> \o <<>> = k /\ All(k) = {f} BY <2>2, Single
  <2> HIDE DEF k
  <2> QED BY <2>3, ReconnectKeeps, <2>4, <2>2, <1>1, PushKeeps, IdleCalm, Emptied
<1> QED BY <1>2, <1>3

\* A resumption handle comes or goes, and a turn completes.
LEMMA UpdatesKeep ==
  ASSUME RecInv(s, stack), ResumptionUpdate \/ TurnCompletes
  PROVE  RecInv(s, stack)'
<1>1. RecInv(s, <<>>) /\ stack' = <<>> /\ DOMAIN s = Fields /\ s.link # 0
  BY DEF ResumptionUpdate, TurnCompletes, Idle, Become, RecInv, Typed
<1>2. CASE ResumptionUpdate
  <2> DEFINE y == [s EXCEPT !.handle = ~@]
  <2>1. s' = y BY <1>2 DEF ResumptionUpdate, Become
  <2>2. Same(s, y, Unread) BY <1>1 DEF Same, Fields, Unread
  <2> HIDE DEF y
  <2> QED BY <1>1, <2>1, <2>2, UnreadKeeps
<1>3. CASE TurnCompletes
  <2> DEFINE y == [s EXCEPT !.attempts = 0, !.lossSpent = 0]
             k == <<>>
             x == s
  <2>1. s' = y BY <1>3 DEF TurnCompletes, Become
  <2>2. Same(x, y, {"attempts", "lossSpent"}) /\ y.attempts = 0 /\ y.lossSpent = 0
    BY <1>1 DEF Same, Fields
  <2>3. Typed(x, k) /\ Attempts(x, k) /\ Recoveries(x, k) /\ Driven(x, k) /\ Starts(x, k)
        /\ Generations(x, k) /\ Buffers(x, k) /\ (~x.closing => Holds(x, k) /\ Budget(x, k))
    BY <1>1 DEF RecInv
  <2>4. Calm(x, k) /\ Calm(y, k) /\ All(k) = {} BY IdleCalm, Emptied
  <2> HIDE DEF y, k
  <2>5. /\ DOMAIN y = Fields
        /\ y.state = x.state /\ y.closing = x.closing
        /\ y.backoff = x.backoff /\ y.token = x.token /\ y.attemptInFlight = x.attemptInFlight
        /\ y.clientBuffering = x.clientBuffering /\ y.disposed = x.disposed
        /\ y.inFlight = x.inFlight /\ y.recoveries = x.recoveries
        /\ y.replacedFirstDial = x.replacedFirstDial /\ y.gen = x.gen /\ y.link = x.link
        /\ y.calls = x.calls /\ y.buffering = x.buffering /\ y.dialWindow = x.dialWindow
    BY <2>2 DEF Same, Fields
  <2>6. Typed(y, k) BY <2>2, <2>3, <2>4, <2>5, CalmFacts, RecoveryAssumption DEF Typed
  <2>7. Attempts(y, k) BY <2>3, <2>5 DEF Attempts, AutoCalls, Quiet
  <2>8. Recoveries(y, k) BY <2>3, <2>5 DEF Recoveries, Live
  <2>9. Driven(y, k) BY <2>3, <2>5 DEF Driven
  <2>10. Starts(y, k) BY <2>3, <2>5 DEF Starts
  <2>11. Generations(y, k) BY <2>3, <2>5 DEF Generations, Live, Stray, Epoch
  <2>12. Buffers(y, k) BY <2>3, <2>5 DEF Buffers, Live
  <2>13. ~y.closing => Holds(y, k) BY <2>3, <2>5 DEF Holds, Live
  <2>14. ~y.closing => Budget(y, k)
    BY <1>1, <2>2, <2>5, <2>3, <2>4, CalmFacts DEF Sound, Budget, AutoCalls
  <2> QED BY <1>1, <2>1, <2>6, <2>7, <2>8, <2>9, <2>10, <2>11, <2>12, <2>13,
             <2>14 DEF RecInv, k
<1> QED BY <1>2, <1>3

\* With subscribers of the automatic reconnect that do not call back, the host
\* never calls in from one of its frames.
LEMMA GuardedCalls ==
  ASSUME ~Reentrant, HostMayCall
  PROVE  ~Top(stack, Unguarded)
BY DEF HostMayCall, Top

\* recoverUpstream(), in every state in which it begins a recovery.
LEMMA RecoverKeeps ==
  ASSUME ~Reentrant, RecInv(s, stack), RecoverUpstream
  PROVE  RecInv(s, stack)'
<1> DEFINE r == Len(s.recoveries) + 1
           v == [epoch |-> AttemptEpoch(s), outcome |-> "pending", settled |-> FALSE,
                 owns |-> s.clientBuffering]
           x == [s EXCEPT !.replacedFirstDial = @ \/ s.state = "CONNECTING",
                          !.recoveries = Append(@, v), !.inFlight = r, !.dialWindow = TRUE]
           y == BeginHostRecovery(x)
           f == Frame("boundary", r, NoPlan)
<1>1. Typed(s, stack) /\ Buffers(s, stack) BY DEF RecInv
<1>2. s' = y /\ stack' = <<f>> \o stack BY DEF RecoverUpstream, Become
<1>3. s.inFlight = 0 /\ ~s.disposed /\ s.state \in {"CONNECTING", "ACTIVE", "RECONNECTING",
      "UPSTREAM_LOST"}
      /\ ~Top(stack, Unguarded) /\ Len(s.recoveries) \in Nat /\ r \in Nat
  BY <1>1, GuardedCalls DEF RecoverUpstream, Typed
<1>4. v.epoch = s.gen + 2 /\ ~v.settled /\ v.owns = s.clientBuffering BY DEF AttemptEpoch
<1>5. v \in RecoveryRecord BY <1>1 DEF AttemptEpoch, Typed, RecoveryRecord
<1>6. /\ Same(s, x, {"replacedFirstDial", "recoveries", "inFlight", "dialWindow"})
      /\ x.replacedFirstDial = (s.replacedFirstDial \/ s.state = "CONNECTING")
      /\ x.recoveries = Append(s.recoveries, v) /\ x.inFlight = r /\ x.dialWindow = TRUE
  BY <1>1 DEF Typed, Same, Fields
<1> HIDE DEF v, x
<1>7. /\ Same(x, y, {"backoff", "token", "attemptInFlight", "clientBuffering"})
      /\ y.backoff = {} /\ y.token = x.token + 1 /\ ~y.attemptInFlight
              /\ y.clientBuffering = FALSE
  BY <1>6, BeginIs DEF Same
<1> HIDE DEF y
<1>8. /\ Same(s, y, {"replacedFirstDial", "recoveries", "inFlight", "dialWindow", "backoff",
           "token",
                     "attemptInFlight", "clientBuffering"})
      /\ y.replacedFirstDial = x.replacedFirstDial /\ y.recoveries = x.recoveries
      /\ y.inFlight = x.inFlight /\ y.dialWindow = x.dialWindow /\ x.token = s.token
  BY <1>6, <1>7 DEF Same, Fields
<1>9. f \in FrameRecord /\ f.kind = "boundary" /\ f.id = r
  <2>1. "boundary" \in Kinds BY DEF Kinds, HostKinds
  <2> QED BY <1>3, <2>1, FrameFacts, NoPlanIs
<1> HIDE DEF f
<1>10. y.replacedFirstDial <=> s.replacedFirstDial \/ s.state = "CONNECTING" BY <1>6, <1>8
<1>11. y.token = s.token + 1 BY <1>7, <1>8
<1>12. RecInv(y, <<f>> \o stack)
  BY <1>3, <1>4, <1>5, <1>6, <1>7, <1>8, <1>9, <1>10, <1>11, BeginKeeps
<1> QED BY <1>2, <1>12

\* What the invariant implies of its parts.
LEMMA CoreOf ==
  ASSUME NEW x, NEW k, RecInv(x, k)
  PROVE  /\ Core(x, k) /\ FreshSound(x, k) /\ DOMAIN x = Fields
         /\ ~x.closing => Holds(x, k) /\ Budget(x, k)
BY DEF RecInv, Core, FreshSound, Budget, Typed

\* parkUpstream(), whatever it supersedes.
LEMMA ParkUpstreamKeeps ==
  ASSUME ~Reentrant, RecInv(s, stack), ParkUpstream
  PROVE  RecInv(s, stack)'
<1> DEFINE x == IF s.inFlight = 0 THEN s ELSE EndClientBuffering([s EXCEPT !.inFlight = 0],
           s.inFlight)
           y == ParkUpstreamLost(x)
           f == Frame("parked", 0, NoPlan)
           k == stack
<1>1. s' = y /\ stack' = <<f>> \o k BY DEF ParkUpstream, Become
<1>2. ~s.disposed /\ s.state \in {"ACTIVE", "RECONNECTING", "UPSTREAM_LOST"} /\ ~Top(k, Unguarded)
      /\ Typed(s, k) /\ DOMAIN s = Fields
  BY GuardedCalls DEF ParkUpstream, RecInv, Typed
<1>3. f \in FrameRecord /\ f.kind = "parked" BY FrameFacts, NoPlanIs DEF Kinds
<1> HIDE DEF f
<1>4. /\ Core(x, k) /\ FreshSound(x, k) /\ Calm(x, k) /\ x.inFlight = 0 /\ x.state = s.state
      /\ x.disposed = s.disposed /\ DOMAIN x = Fields
      /\ x.state = "UPSTREAM_LOST" => RecInv(x, k)
  <2>1. CASE s.inFlight = 0
    <3>1. ASSUME k # <<>> PROVE ~(Head(k).kind \in HostKinds /\ Head(k).id = s.inFlight)
      BY <1>2, <2>1, <3>1, HostFrame
    <3>2. Calm(s, k) BY <1>2, <3>1 DEF Calm, Live, Top
    <3> QED BY <1>2, <2>1, <3>2, CoreOf
  <2>2. CASE s.inFlight # 0
    <3> DEFINE a == [s EXCEPT !.inFlight = 0]
    <3>1. Same(s, a, {"inFlight"}) /\ a.inFlight = 0 BY <1>2 DEF Same, Fields
    <3>2. x = EndClientBuffering(a, s.inFlight) BY <2>2
    <3> HIDE DEF a, x
    <3>3. DOMAIN a = Fields /\ a.recoveries = s.recoveries /\ a.buffering = s.buffering
      BY <3>1 DEF Same, Fields
    <3>4. s.recoveries \in Seq(RecoveryRecord) /\ s.inFlight \in 1..Len(s.recoveries)
      BY <1>2, <2>2 DEF Typed
    <3>5. /\ Same(a, x, {"recoveries", "buffering"})
          /\ SameRecs(s.recoveries, x.recoveries, s.inFlight, {"owns"})
          /\ x.recoveries[s.inFlight].owns = FALSE
          /\ s.recoveries[s.inFlight].owns => ~x.buffering
          /\ ~s.recoveries[s.inFlight].owns => x.buffering = s.buffering
      BY <3>2, <3>3, <3>4, EndIs
    <3> QED BY <1>2, <2>2, <3>5, SupersedeCore, <3>1 DEF Same, Fields
  <2> QED BY <2>1, <2>2
<1> HIDE DEF x
<1>6. RecInv(y, k) BY <1>2, <1>4, ParkKeeps DEF Parks
<1>7. y.inFlight = x.inFlight
  <2>1. CASE ~Parks(x) BY <1>4, <2>1, ParkIs
  <2>2. CASE Parks(x)
    <3>1. Same(x, y, {"link", "alive", "gen", "token", "attemptInFlight", "backoff",
                      "clientBuffering", "buffering", "state", "dialWindow"})
      BY <1>4, <2>2, ParkIs
    <3> HIDE DEF y
    <3> QED BY <3>1 DEF Same, Fields
  <2> QED BY <2>1, <2>2
<1> HIDE DEF y, k
<1>8. Calm(y, k) BY <1>4, <1>7, CalmAlike
<1>9. RecInv(y, <<f>> \o k) BY <1>3, <1>6, <1>8, PushKeeps
<1> QED BY <1>1, <1>9 DEF k

\* close(), from anywhere.
LEMMA ClosesKeep ==
  ASSUME ~Reentrant, RecInv(s, stack), HostCloses
  PROVE  RecInv(s, stack)'
<1> QED BY CoreOf, CloseKeeps, GuardedCalls DEF HostCloses, Become

\* The teardown of a closed session.
LEMMA TearDownKeeps ==
  ASSUME RecInv(s, stack), TearDown
  PROVE  RecInv(s, stack)'
<1> DEFINE a == DisconnectTransport(s)
           y == [a EXCEPT !.tornDown = TRUE]
<1>1. RecInv(s, <<>>) /\ DOMAIN s = Fields /\ s' = y /\ stack' = <<>>
  BY DEF TearDown, Idle, Become, RecInv, Typed
<1>2. Same(s, a, {"link", "alive", "gen"}) /\ a.link = 0 /\ a.gen \in {s.gen, s.gen + 1}
  BY <1>1, DisconnectIs
<1> HIDE DEF a
<1>3. RecInv(a, <<>>) BY <1>1, <1>2, IdleCalm, DetachKeeps
<1>4. Same(a, y, Unread) BY <1>2 DEF Same, Fields, Unread
<1> HIDE DEF y
<1> QED BY <1>1, <1>3, <1>4, UnreadKeeps

\* The finalizers have settled: the session is CLOSED.
LEMMA FinishKeeps ==
  ASSUME RecInv(s, stack), FinishClose
  PROVE  RecInv(s, stack)'
<1> DEFINE y == [s EXCEPT !.state = "CLOSED"]
           x == s
           k == <<>>
<1>1. RecInv(x, k) /\ DOMAIN x = Fields /\ s' = y /\ stack' = k /\ x.closing /\ x.state # "CLOSED"
  BY DEF FinishClose, Idle, Become, RecInv, Typed
<1>2. Same(x, y, {"state"}) /\ y.state = "CLOSED" BY <1>1 DEF Same, Fields
<1> HIDE DEF y
<1>3. /\ DOMAIN y = Fields
      /\ y.closing = x.closing /\ y.attempts = x.attempts
      /\ y.backoff = x.backoff /\ y.token = x.token /\ y.attemptInFlight = x.attemptInFlight
      /\ y.clientBuffering = x.clientBuffering /\ y.disposed = x.disposed
      /\ y.inFlight = x.inFlight /\ y.recoveries = x.recoveries
      /\ y.replacedFirstDial = x.replacedFirstDial /\ y.gen = x.gen /\ y.link = x.link
      /\ y.calls = x.calls /\ y.buffering = x.buffering /\ y.lossSpent = x.lossSpent
  BY <1>2 DEF Same, Fields
<1>4. Typed(x, k) /\ Attempts(x, k) /\ Recoveries(x, k) /\ Driven(x, k) /\ Starts(x, k)
      /\ Generations(x, k) /\ Buffers(x, k)
  BY <1>1 DEF RecInv
<1>5. Calm(x, k) /\ Calm(y, k) /\ All(k) = {} /\ Below(k) = {} /\ k \in Seq(FrameRecord)
  BY IdleCalm, Emptied
<1> HIDE DEF k
<1>6. Typed(y, k) BY <1>1, <1>2, <1>3, <1>4, <1>5 DEF Typed, States
<1>7. Attempts(y, k) BY <1>2, <1>3, <1>4, <1>5, CalmFacts DEF Attempts, AutoCalls, Quiet
<1>8. Recoveries(y, k) BY <1>2, <1>3, <1>4, <1>5, CalmFacts DEF Recoveries
<1>9. Driven(y, k) BY <1>2 DEF Driven
<1>10. Starts(y, k) BY <1>2, <1>3, <1>4, <1>5 DEF Starts
<1>11. Generations(y, k) BY <1>2, <1>3, <1>4, <1>5, CalmFacts DEF Stray, Generations, Epoch
<1>12. Buffers(y, k) BY <1>2, <1>3, <1>4, <1>5, CalmFacts DEF Buffers
<1> QED BY <1>1, <1>3, <1>6, <1>7, <1>8, <1>9, <1>10, <1>11, <1>12 DEF RecInv

\* Without frames no recovery is under way but by its call, and no call is stray.
LEMMA IdleFacts ==
  ASSUME NEW x, RecInv(x, <<>>)
  PROVE  /\ DOMAIN x = Fields /\ x.gen \in Nat /\ x.token \in Nat /\ x.link \in Nat
         /\ \A c \in x.calls : ~Stray(x, c) /\ c.gen <= x.gen /\ c.gen \in Nat /\ c.id \in Nat
         /\ x.inFlight # 0 => /\ x.state \in {"RECONNECTING", "CLOSED"}
                              /\ \E c \in x.calls : c.by = "host" /\ c.id = x.inFlight
         /\ x.clientBuffering \/ x.attemptInFlight \/ x.backoff # {}
                 => x.state \in {"RECONNECTING", "CLOSED"}
         /\ \A h \in SUBSET HostKinds : ~Live(x, <<>>, h)
         /\ x.state \in {"CREATED", "CONNECTING", "ACTIVE", "UPSTREAM_LOST"} => ~x.buffering
         /\ x.inFlight = 0 /\ x.buffering /\ ~x.clientBuffering
                 => x.state \in {"TRANSFERRING", "CLOSED"}
<1> DEFINE k == <<>>
<1>1. Typed(x, k) /\ Attempts(x, k) /\ Recoveries(x, k) /\ Generations(x, k) /\ Buffers(x, k)
  BY DEF RecInv
<1>2. All(k) = {} /\ \A h : ~Live(x, k, h) BY Emptied DEF Live, Top
<1> HIDE DEF k
<1>6. x.inFlight # 0 => /\ x.state \in {"RECONNECTING", "CLOSED"}
                        /\ \E c \in x.calls : c.by = "host" /\ c.id = x.inFlight
  BY <1>1, <1>2 DEF Recoveries
<1>7. x.clientBuffering \/ x.attemptInFlight \/ x.backoff # {}
      => x.state \in {"RECONNECTING", "CLOSED"}
  BY <1>1 DEF Attempts, Buffers
<1>8. /\ x.state \in {"CREATED", "CONNECTING", "ACTIVE", "UPSTREAM_LOST"} => ~x.buffering
      /\ x.inFlight = 0 /\ x.buffering /\ ~x.clientBuffering
              => x.state \in {"TRANSFERRING", "CLOSED"}
  BY <1>1, <1>2, <1>6, <1>7 DEF Buffers
<1> QED BY <1>2, <1>6, <1>7, <1>8, <1>1, TypeFacts DEF k, Typed, Generations

\* A transfer redials under another agent.
LEMMA TransferKeeps ==
  ASSUME RecInv(s, stack), Transfer
  PROVE  RecInv(s, stack)'
<1> DEFINE a == [s EXCEPT !.state = "TRANSFERRING", !.buffering = TRUE]
           y == DisconnectThenConnect(a, "transfer", 0, NoPlan)
           x == s
           k == <<>>
<1>1. RecInv(x, k) /\ s' = y /\ stack' = k /\ x.state = "ACTIVE" BY DEF Transfer, Idle, Become
<1>2. DOMAIN x = Fields /\ x.gen \in Nat /\ x.token \in Nat /\ x.inFlight = 0
      /\ x.backoff = {} /\ ~x.attemptInFlight /\ ~x.clientBuffering
      /\ \A c \in x.calls : ~Stray(x, c) /\ c.gen <= x.gen
  BY <1>1, IdleFacts
<1>3. Same(x, a, {"state", "buffering"}) /\ a.state = "TRANSFERRING" /\ a.buffering = TRUE
  BY <1>2 DEF Same, Fields
<1> HIDE DEF a
<1>4. DOMAIN a = Fields /\ a.gen = x.gen /\ a.calls = x.calls BY <1>3 DEF Same, Fields
<1>5. PICK ph \in {"closing", "dialing"} :
        /\ Same(a, y, {"link", "alive", "gen", "calls"}) /\ y.link = 0
        /\ y.gen \in {a.gen, a.gen + 1, a.gen + 2}
        /\ y.calls = a.calls \cup {NewCall("transfer", 0, ph, y.gen, NoPlan)}
  BY <1>2, <1>4, DialIs
<1> DEFINE c == NewCall("transfer", 0, ph, y.gen, NoPlan)
<1> HIDE DEF y
<1>6. y.gen \in Nat /\ y.gen \in {x.gen, x.gen + 1, x.gen + 2} BY <1>2, <1>4, <1>5
<1>7. c \in CallRecord /\ c.by = "transfer" /\ c.gen = y.gen
  BY <1>6, NoPlanIs DEF NewCall, CallRecord
<1> HIDE DEF c
<1>8. y.calls = x.calls \cup {c} /\ y.link = 0 BY <1>4, <1>5 DEF c
<1>9. /\ DOMAIN y = Fields /\ y.state = "TRANSFERRING" /\ y.buffering = TRUE
      /\ y.closing = x.closing /\ y.attempts = x.attempts
      /\ y.backoff = x.backoff /\ y.token = x.token /\ y.attemptInFlight = x.attemptInFlight
      /\ y.clientBuffering = x.clientBuffering /\ y.disposed = x.disposed
      /\ y.inFlight = x.inFlight /\ y.recoveries = x.recoveries
      /\ y.replacedFirstDial = x.replacedFirstDial /\ y.lossSpent = x.lossSpent
      /\ y.dialWindow = x.dialWindow
  BY <1>3, <1>5 DEF Same, Fields
<1>10. Typed(x, k) /\ Attempts(x, k) /\ Recoveries(x, k) /\ Starts(x, k)
      /\ Generations(x, k) /\ Buffers(x, k) /\ (~x.closing => Holds(x, k) /\ Budget(x, k))
  BY <1>1 DEF RecInv
<1>11. Calm(x, k) /\ Calm(y, k) /\ All(k) = {} /\ Below(k) = {} BY IdleCalm, Emptied
<1> HIDE DEF k
<1>12. Typed(y, k) BY <1>1, <1>6, <1>7, <1>8, <1>9, <1>10 DEF Typed, States
<1>a. AutoCalls(y) = AutoCalls(x) BY <1>7, <1>8 DEF AutoCalls
<1>13. Attempts(y, k) BY <1>2, <1>9, <1>10, <1>11, <1>a, CalmFacts DEF Attempts, Quiet
<1>14. Recoveries(y, k) BY <1>2, <1>9, <1>11, CalmFacts DEF Recoveries
<1>15. Driven(y, k) BY <1>9 DEF Driven
<1>16. Starts(y, k) BY <1>1, <1>2, <1>7, <1>8, <1>9, <1>10, <1>11 DEF Starts
<1>17. Generations(y, k)
  BY <1>7, <1>1, <1>9, <1>8, <1>2, <1>6, <1>10, <1>11, CalmFacts, GenKeeps DEF Stray
<1>18. Buffers(y, k) BY <1>2, <1>9, <1>11, CalmFacts DEF Buffers
<1>19. ~y.closing => Holds(y, k) BY <1>1, <1>2, <1>9, <1>10, <1>11 DEF Holds
<1>20. ~y.closing => Budget(y, k)
  BY <1>1, <1>10, <1>11, CalmFacts, <1>2, <1>9, <1>a DEF Budget, Attempts
<1> QED BY <1>1, <1>12, <1>13, <1>14, <1>15, <1>16, <1>17, <1>18, <1>19, <1>20 DEF RecInv

\* start() begins.
LEMMA StartKeeps ==
  ASSUME RecInv(s, stack), Start
  PROVE  RecInv(s, stack)'
<1> DEFINE y == [s EXCEPT !.state = "CONNECTING"]
           x == s
           k == <<>>
           f == Frame("first", 0, NoPlan)
           l == <<f>>
<1>1. RecInv(x, k) /\ s' = y /\ stack' = l /\ x.state = "CREATED" BY DEF Start, Idle, Become
<1>2. DOMAIN x = Fields /\ x.inFlight = 0 /\ x.backoff = {} /\ ~x.attemptInFlight
      /\ ~x.clientBuffering
      /\ ~x.buffering /\ \A c \in x.calls : ~Stray(x, c) /\ c.gen <= x.gen
  BY <1>1, IdleFacts
<1>3. Same(x, y, {"state"}) /\ y.state = "CONNECTING" BY <1>2 DEF Same, Fields
<1>f. f \in FrameRecord /\ f.kind = "first"
  <2>1. "first" \in Kinds BY DEF Kinds
  <2> QED BY <2>1, FrameFacts, NoPlanIs
<1> HIDE DEF y, f
<1>4. /\ DOMAIN y = Fields
      /\ y.closing = x.closing /\ y.attempts = x.attempts
      /\ y.backoff = x.backoff /\ y.token = x.token /\ y.attemptInFlight = x.attemptInFlight
      /\ y.clientBuffering = x.clientBuffering /\ y.disposed = x.disposed
      /\ y.inFlight = x.inFlight /\ y.recoveries = x.recoveries
      /\ y.replacedFirstDial = x.replacedFirstDial /\ y.gen = x.gen /\ y.link = x.link
      /\ y.calls = x.calls /\ y.buffering = x.buffering /\ y.lossSpent = x.lossSpent
      /\ y.dialWindow = x.dialWindow
  BY <1>3 DEF Same, Fields
<1>5. Typed(x, k) /\ Attempts(x, k) /\ Recoveries(x, k) /\ Starts(x, k)
      /\ Generations(x, k) /\ Buffers(x, k) /\ (~x.closing => Holds(x, k) /\ Budget(x, k))
  BY <1>1 DEF RecInv
<1>6. Calm(x, k) /\ All(k) = {} /\ Below(k) = {} BY IdleCalm, Emptied
<1>7. l \in Seq(FrameRecord) /\ l # <<>> /\ Head(l) = f /\ All(l) = {f} /\ Below(l) = {}
  BY <1>f, Single
<1>8. Once(l) BY DEF Once
<1> HIDE DEF k, l
<1>9. Calm(y, l) BY <1>7, <1>f DEF Calm, Live, Top, HostKinds, Unguarded
<1>10. Typed(y, l)
  BY <1>1, <1>3, <1>4, <1>5, <1>7, <1>9, <1>f, CalmFacts DEF Typed, States, HostKinds
<1>11. Attempts(y, l)
  BY <1>2, <1>4, <1>5, <1>7, <1>9, <1>f, CalmFacts DEF Attempts, AutoCalls, Quiet
<1>12. Recoveries(y, l) BY <1>2, <1>4, <1>7, <1>9, <1>f, CalmFacts DEF Recoveries
<1>13. Driven(y, l) BY <1>3 DEF Driven
<1>14. Starts(y, l) BY <1>1, <1>2, <1>3, <1>4, <1>5, <1>7, <1>8, <1>f DEF Starts
<1>15. Generations(y, l) BY <1>1, <1>3, <1>4, <1>6, <1>5, <1>9, CalmFacts, GenKeeps DEF Stray
<1>16. Buffers(y, l) BY <1>2, <1>4, <1>9, CalmFacts DEF Buffers
<1>17. ~y.closing => Holds(y, l) BY <1>1, <1>2, <1>3, <1>4, <1>5, <1>6 DEF Holds
<1>18. ~y.closing => Budget(y, l)
  BY <1>1, <1>5, <1>6, CalmFacts, <1>2, <1>4, <1>7, <1>9, <1>f DEF Budget, Attempts, AutoCalls
<1> QED BY <1>1, <1>10, <1>11, <1>12, <1>13, <1>14, <1>15, <1>16, <1>17, <1>18 DEF RecInv

\* The backoff that was waited for is spent.
LEMMA SpentKeeps ==
  ASSUME NEW x, RecInv(x, <<>>), NEW p \in x.backoff, NEW y, Same(x, y, {"backoff"}),
         y.backoff = x.backoff \ {p}
  PROVE  /\ Core(y, <<>>) /\ Quiet(y) /\ (~y.closing => Holds(y, <<>>) /\ Budget(y, <<>>)
              /\ Sound(y, p))
         /\ y.state \in {"RECONNECTING", "CLOSED"} /\ y.state = x.state /\ y.token = x.token
         /\ y.state = "CLOSED" => RecInv(y, <<>>)
         /\ p \in Plans
<1> DEFINE k == <<>>
<1>1. Typed(x, k) /\ Attempts(x, k) /\ Recoveries(x, k) /\ Driven(x, k) /\ Starts(x, k)
      /\ Generations(x, k) /\ Buffers(x, k) /\ (~x.closing => Holds(x, k) /\ Budget(x, k))
  BY DEF RecInv
<1>2. Calm(x, k) /\ Calm(y, k) /\ All(k) = {} /\ Below(k) = {} BY IdleCalm, Emptied
<1> HIDE DEF k
<1>3. y.backoff = {} /\ x.inFlight = 0 /\ ~x.attemptInFlight
      /\ x.state \in {"RECONNECTING", "CLOSED"}
      /\ p \in Plans
  BY <1>1 DEF Attempts, Typed
<1>4. /\ DOMAIN y = Fields /\ y.state = x.state
      /\ y.closing = x.closing /\ y.attempts = x.attempts
      /\ y.token = x.token /\ y.attemptInFlight = x.attemptInFlight
      /\ y.clientBuffering = x.clientBuffering /\ y.disposed = x.disposed
      /\ y.inFlight = x.inFlight /\ y.recoveries = x.recoveries
      /\ y.replacedFirstDial = x.replacedFirstDial /\ y.gen = x.gen /\ y.link = x.link
      /\ y.calls = x.calls /\ y.buffering = x.buffering /\ y.lossSpent = x.lossSpent
      /\ y.dialWindow = x.dialWindow
  BY DEF Same, Fields
<1>5. Typed(y, k) BY <1>1, <1>3, <1>4 DEF Typed
<1>6. Attempts(y, k) BY <1>1, <1>2, <1>3, <1>4, CalmFacts DEF Attempts, AutoCalls, Quiet
<1>7. Recoveries(y, k) BY <1>1, <1>4 DEF Recoveries, Live
<1>8. Starts(y, k) BY <1>1, <1>4 DEF Starts
<1>9. Generations(y, k) BY <1>1, <1>4 DEF Generations, Live, Stray, Epoch
<1>10. Buffers(y, k) BY <1>1, <1>4 DEF Buffers, Live
<1>11. ~y.closing => Holds(y, k) BY <1>1, <1>4 DEF Holds, Live
<1>13. ~y.closing => Budget(y, k) /\ Sound(y, p)
  BY <1>1, <1>3, <1>4 DEF Budget, Live, AutoCalls, Sound
<1>14. y.state = "CLOSED" => y.closing BY <1>5 DEF Typed
<1>15. y.state = "CLOSED" => Driven(y, k) BY <1>14 DEF Driven
<1> QED BY <1>3, <1>4, <1>5, <1>6, <1>7, <1>8, <1>9, <1>10, <1>11, <1>13, <1>14, <1>15
        DEF RecInv, Core, Quiet, k

\* A fresh dial waits for its boundary.
LEMMA FreshKeeps ==
  ASSUME NEW x, Core(x, <<>>), Quiet(x), x.state = "RECONNECTING",
         ~x.closing => Holds(x, <<>>) /\ Budget(x, <<>>),
         NEW f \in FrameRecord, f.kind = "freshDial", f.id = x.token, ~x.closing
           => Sound(x, f.plan)
  PROVE  RecInv(x, <<f>>)
<1> DEFINE k == <<>>
           l == <<f>>
<1>1. Typed(x, k) /\ Attempts(x, k) /\ Recoveries(x, k) /\ Starts(x, k)
      /\ Generations(x, k) /\ Buffers(x, k) /\ (~x.closing => Holds(x, k) /\ Budget(x, k))
  BY DEF Core
<1>2. Calm(x, k) /\ All(k) = {} /\ Below(k) = {} BY IdleCalm, Emptied
<1>3. l \in Seq(FrameRecord) /\ l # <<>> /\ Head(l) = f /\ All(l) = {f} /\ Below(l) = {} BY Single
<1>4. Once(l) BY DEF Once
<1>5. x.inFlight = 0 /\ ~x.attemptInFlight /\ x.backoff = {} /\ x.token \in Nat
  BY <1>1 DEF Quiet, Typed
<1> HIDE DEF k, l
<1>6. Calm(x, l) BY <1>3 DEF Calm, Live, Top, HostKinds, Unguarded
<1>7. Typed(x, l) BY <1>1, <1>3, <1>6, CalmFacts DEF Typed, HostKinds
<1>8. Attempts(x, l) BY <1>1, <1>3, <1>5, <1>6, CalmFacts DEF Attempts, Quiet
<1>9. Recoveries(x, l) BY <1>3, <1>5, <1>6, CalmFacts DEF Recoveries
<1>10. Driven(x, l) BY <1>3 DEF Driven
<1>11. Starts(x, l) BY <1>1, <1>3, <1>4, <1>5 DEF Starts
<1>12. Generations(x, l) BY <1>1, <1>2, <1>3, <1>5, <1>6, CalmFacts DEF Generations
<1>13. Buffers(x, l) BY <1>1, <1>2, <1>3, <1>5, <1>6, CalmFacts DEF Buffers
<1>14. ~x.closing => Holds(x, l) BY <1>1, <1>2, <1>3, <1>5, CalmFacts DEF Holds
<1>15. ~x.closing => Budget(x, l) BY <1>1, <1>2, <1>3, <1>5, <1>6, CalmFacts DEF Budget
<1> QED BY <1>7, <1>8, <1>9, <1>10, <1>11, <1>12, <1>13, <1>14, <1>15 DEF RecInv, l

\* The timer of a backoff fires.
LEMMA BackoffKeeps ==
  ASSUME RecInv(s, stack), BackoffFires
  PROVE  RecInv(s, stack)'
<1>1. RecInv(s, <<>>) BY DEF BackoffFires, Idle
<1>2. PICK p \in s.backoff :
        LET x == [s EXCEPT !.backoff = @ \ {p}] IN
        \/ s.state # "RECONNECTING" /\ Become(x, <<>>)
        \/ s.state = "RECONNECTING" /\ HostMayOwn(s) /\ Become(ParkUpstreamLost(x), <<>>)
        \/ s.state = "RECONNECTING" /\ p.fresh /\ Become(x, <<Frame("freshDial", s.token, p)>>)
        \/ s.state = "RECONNECTING" /\ ~p.fresh /\ Become(RunReconnect(x, p), <<>>)
  BY DEF BackoffFires
<1> DEFINE x == [s EXCEPT !.backoff = @ \ {p}]
           f == Frame("freshDial", s.token, p)
<1>3. Same(s, x, {"backoff"}) /\ x.backoff = s.backoff \ {p}
  BY <1>1 DEF RecInv, Typed, Same, Fields
<1>4. /\ Core(x, <<>>) /\ Quiet(x) /\ (~x.closing => Holds(x, <<>>) /\ Budget(x, <<>>)
           /\ Sound(x, p))
      /\ x.state \in {"RECONNECTING", "CLOSED"} /\ x.state = s.state /\ x.token = s.token
      /\ x.state = "CLOSED" => RecInv(x, <<>>)
      /\ p \in Plans
  <2> HIDE DEF x
  <2> QED BY <1>1, <1>3, SpentKeeps
<1>5. \/ s.state # "RECONNECTING" /\ s' = x /\ stack' = <<>>
      \/ s.state = "RECONNECTING" /\ s' = ParkUpstreamLost(x) /\ stack' = <<>>
      \/ s.state = "RECONNECTING" /\ s' = x /\ stack' = <<f>>
      \/ s.state = "RECONNECTING" /\ s' = RunReconnect(x, p) /\ stack' = <<>>
  BY <1>2 DEF Become
<1>6. Calm(x, <<>>) /\ FreshSound(x, <<>>) /\ x.inFlight = 0 /\ DOMAIN x = Fields
      /\ x.token \in Nat
  BY <1>4, IdleCalm, Emptied DEF FreshSound, Quiet, Core, Typed
<1>7. f \in FrameRecord /\ f.kind = "freshDial" /\ f.id = x.token /\ f.plan = p
  <2>1. s.token \in Nat /\ "freshDial" \in Kinds /\ p \in Plans /\ s.token = x.token
    BY <1>4, <1>6 DEF Kinds
  <2> HIDE DEF x
  <2> QED BY <2>1, FrameFacts
<1> HIDE DEF x, f
<1>8. ASSUME s.state = "RECONNECTING" PROVE RecInv(ParkUpstreamLost(x), <<>>)
  <2>1. Parks(x) \/ RecInv(x, <<>>)
    <3>1. CASE x.disposed BY <1>4, <3>1 DEF Core, Typed, RecInv, Driven
    <3>2. CASE ~x.disposed BY <1>4, <1>8, <3>2 DEF Parks
    <3> QED BY <3>1, <3>2
  <2> QED BY <1>4, <1>6, <1>8, <2>1, ParkKeeps
<1>9. ASSUME s.state = "RECONNECTING" PROVE RecInv(x, <<f>>) BY <1>4, <1>7, <1>9, FreshKeeps
<1>10. ASSUME s.state = "RECONNECTING" PROVE RecInv(RunReconnect(x, p), <<>>)
  BY <1>4, <1>6, <1>10, RunKeeps DEF Sound, Fits
<1> QED BY <1>4, <1>5, <1>8, <1>9, <1>10

\* The deadline of an attempt fires.
LEMMA DeadlineKeeps ==
  ASSUME RecInv(s, stack), DeadlineFires
  PROVE  RecInv(s, stack)'
<1>1. RecInv(s, <<>>) /\ s.attemptInFlight /\ FailAttempt(AbandonAttempt(s))
  BY DEF DeadlineFires, Idle
<1> DEFINE y == AbandonAttempt(s)
<1>2. /\ Core(y, <<>>) /\ Quiet(y) /\ y.state \in {"RECONNECTING", "CLOSED"}
      /\ y.closing = s.closing /\ (Holds(s, <<>>) => Holds(y, <<>>))
              /\ (~s.closing => Holds(s, <<>>))
  BY <1>1, CoreOf, IdleCalm, AbandonCore
<1>3. FailAttempt(y) BY <1>1
<1> HIDE DEF y
<1> QED BY <1>2, <1>3, FailKeeps

\* A session that was just created.
LEMMA InitKeeps ==
  ASSUME Init
  PROVE  RecInv(s, stack)
<1> DEFINE k == <<>>
<1>1. PICK policy \in Policies, credentialed \in Credentialed :
       s = [policy |-> policy, credentialed |-> credentialed,
            state |-> "CREATED", closing |-> FALSE, handle |-> FALSE,
            attempts |-> 0, backoff |-> {}, token |-> 0, attemptInFlight |-> FALSE,
            clientBuffering |-> FALSE, disposed |-> FALSE,
            inFlight |-> 0, recoveries |-> <<>>, replacedFirstDial |-> FALSE,
            gen |-> 0, link |-> 0, alive |-> FALSE, calls |-> {},
            buffering |-> FALSE, dialWindow |-> FALSE,
            tornDown |-> FALSE, lossSpent |-> 0]
  BY DEF Init
<1>2. /\ DOMAIN s = Fields /\ s.state = "CREATED" /\ ~s.closing /\ s.attempts = 0
           /\ s.backoff = {}
      /\ s.token = 0 /\ ~s.attemptInFlight /\ s.clientBuffering = FALSE /\ ~s.disposed
              /\ s.inFlight = 0
      /\ s.recoveries = <<>> /\ s.gen = 0 /\ s.link = 0 /\ s.calls = {} /\ ~s.buffering
              /\ ~s.dialWindow
      /\ s.lossSpent = 0 /\ stack = k
  BY <1>1 DEF Init, Fields
<1>3. Calm(s, k) /\ All(k) = {} /\ Below(k) = {} /\ k \in Seq(FrameRecord) BY IdleCalm, Emptied
<1>4. Once(k) BY DEF Once
<1>5. s.recoveries \in Seq(RecoveryRecord) /\ Len(s.recoveries) = 0 BY <1>2
<1> HIDE DEF k
<1>6. Typed(s, k)
  <2>2. ~Top(k, {"window"}) /\ s.backoff \subseteq Plans /\ s.calls \subseteq CallRecord
        /\ s.clientBuffering \in BOOLEAN /\ ~s.disposed /\ s.state # "CLOSED"
    BY <1>2, <1>3, CalmFacts
  <2> QED BY <1>2, <1>3, <1>5, <2>2, RecoveryAssumption DEF Typed, States
<1>8. Recoveries(s, k) /\ Driven(s, k) /\ Starts(s, k)
  BY <1>2, <1>3, <1>4, CalmFacts DEF Recoveries, Driven, Starts
<1>11. Budget(s, k) BY <1>2, <1>3, CalmFacts DEF Budget, AutoCalls
<1> QED BY <1>2, <1>6, <1>8, <1>11, <1>3, CalmFacts, <1>5 DEF RecInv, Buffers, Holds, Attempts,
      AutoCalls, Generations

\* The closed connection is replaced by a dial for the same caller.
LEMMA RedialKeeps ==
  ASSUME NEW x, RecInv(x, <<>>), NEW c \in x.calls, c.by \in {"auto", "transfer"},
         c.by = "auto" => c.id = x.token,
         NEW n \in CallRecord, n.by = c.by, n.id = c.id, n.plan = c.plan, n.phase = "dialing",
           n.gen = x.gen + 1,
         NEW y, Same(x, y, {"gen", "calls"}), y.gen = x.gen + 1,
           y.calls = (x.calls \ {c}) \cup {n}
  PROVE  RecInv(y, <<>>)
<1> DEFINE k == <<>>
<1>1. Typed(x, k) /\ Attempts(x, k) /\ Recoveries(x, k) /\ Driven(x, k) /\ Starts(x, k)
      /\ Generations(x, k) /\ Buffers(x, k) /\ (~x.closing => Holds(x, k) /\ Budget(x, k))
  BY DEF RecInv
<1>2. Calm(x, k) /\ Calm(y, k) /\ All(k) = {} /\ Below(k) = {} BY IdleCalm, Emptied
<1>3. x.gen \in Nat /\ y.gen \in Nat /\ \A d \in x.calls : d.gen \in Nat BY <1>1, IdleFacts
<1> HIDE DEF k
<1>4. /\ DOMAIN y = Fields /\ y.state = x.state
      /\ y.closing = x.closing /\ y.attempts = x.attempts /\ y.backoff = x.backoff
      /\ y.token = x.token /\ y.attemptInFlight = x.attemptInFlight
      /\ y.clientBuffering = x.clientBuffering /\ y.disposed = x.disposed
      /\ y.inFlight = x.inFlight /\ y.recoveries = x.recoveries
      /\ y.replacedFirstDial = x.replacedFirstDial /\ y.link = x.link
      /\ y.buffering = x.buffering /\ y.lossSpent = x.lossSpent
      /\ y.dialWindow = x.dialWindow
  BY DEF Same, Fields
<1>5. AutoCalls(y) = IF c.by = "auto" THEN (AutoCalls(x) \ {c}) \cup {n} ELSE AutoCalls(x)
  BY DEF AutoCalls
<1>6. c.by = "auto" => c \in AutoCalls(x) /\ n.id = x.token BY DEF AutoCalls
<1>7. Typed(y, k) BY <1>1, <1>3, <1>4 DEF Typed
<1>8. Attempts(y, k)
  <2>1. /\ \A d \in AutoCalls(y) : d.id <= y.token
        /\ \A d, e \in AutoCalls(y) : d.id = e.id => d = e
        /\ y.attemptInFlight <=> (\E d \in AutoCalls(y) : d.id = y.token)
    <3>1. CASE c.by = "auto" BY <1>1, <1>4, <1>5, <1>6, <3>1 DEF Attempts
    <3>2. CASE c.by # "auto" BY <1>1, <1>4, <1>5, <3>2 DEF Attempts
    <3> QED BY <3>1, <3>2
  <2> QED BY <1>1, <1>4, <2>1 DEF Attempts, Quiet
<1>9. Recoveries(y, k) BY <1>1, <1>2, <1>4, CalmFacts DEF Recoveries
<1>10. Driven(y, k) BY <1>1, <1>4 DEF Driven
<1>11. Starts(y, k) BY <1>1, <1>4, <1>2 DEF Starts
<1>12. Generations(y, k) BY <1>4, <1>6, <1>3, <1>1, <1>2, CalmFacts, GenKeeps DEF Stray
<1>13. Buffers(y, k) BY <1>1, <1>4 DEF Buffers, Live
<1>14. ~y.closing => Holds(y, k) BY <1>1, <1>4 DEF Holds, Live
<1>15. ~y.closing => Budget(y, k)
  <2>1. \A p : Sound(y, p) = Sound(x, p) BY <1>4 DEF Sound
  <2>2. ~y.closing => \A d \in AutoCalls(y) : d.id = y.token => Sound(y, d.plan)
    <3>1. CASE c.by = "auto" BY <1>1, <1>4, <1>5, <1>6, <2>1, <3>1 DEF Budget
    <3>2. CASE c.by # "auto" BY <1>1, <1>4, <1>5, <2>1, <3>2 DEF Budget
    <3> QED BY <3>1, <3>2
  <2> QED BY <1>1, <1>2, <1>4, <2>1, <2>2, CalmFacts DEF Budget
<1> QED BY <1>4, <1>7, <1>8, <1>9, <1>10, <1>11, <1>12, <1>13, <1>14, <1>15 DEF RecInv, k

\* The session is in use again.
LEMMA ActiveKeeps ==
  ASSUME NEW x, Core(x, <<>>), ~x.closing => Holds(x, <<>>) /\ Budget(x, <<>>),
         x.state \in {"CONNECTING", "TRANSFERRING", "RECONNECTING"}, x.inFlight = 0,
         ~x.attemptInFlight, x.backoff = {},
         \A c \in x.calls : c.by # "transfer" /\ (x.state = "CONNECTING" => c.by # "first"),
         NEW y, Same(x, y, {"state", "buffering", "clientBuffering", "attempts"}),
           y.state = "ACTIVE",
         ~y.buffering, y.clientBuffering = FALSE, y.attempts \in 0..MaxAttempts,
         ~x.closing => y.attempts = y.lossSpent
  PROVE  RecInv(y, <<>>)
<1> DEFINE k == <<>>
<1>1. Typed(x, k) /\ Attempts(x, k) /\ Recoveries(x, k) /\ Starts(x, k)
      /\ Generations(x, k) /\ Buffers(x, k) /\ (~x.closing => Holds(x, k) /\ Budget(x, k))
  BY DEF Core
<1>2. Calm(x, k) /\ Calm(y, k) /\ All(k) = {} /\ Below(k) = {} BY IdleCalm, Emptied
<1> HIDE DEF k
<1>4. /\ DOMAIN y = Fields
      /\ y.closing = x.closing /\ y.backoff = x.backoff
      /\ y.token = x.token /\ y.attemptInFlight = x.attemptInFlight
      /\ y.disposed = x.disposed
      /\ y.inFlight = x.inFlight /\ y.recoveries = x.recoveries
      /\ y.replacedFirstDial = x.replacedFirstDial /\ y.gen = x.gen /\ y.link = x.link
      /\ y.calls = x.calls /\ y.lossSpent = x.lossSpent
      /\ y.dialWindow = x.dialWindow
  BY DEF Same, Fields
<1>5. Typed(y, k) BY <1>1, <1>2, <1>4, CalmFacts DEF Typed, States
<1>6. Attempts(y, k) BY <1>1, <1>2, <1>4, CalmFacts DEF Attempts, AutoCalls, Quiet
<1>7. Recoveries(y, k) BY <1>2, <1>4, CalmFacts DEF Recoveries
<1>8. Driven(y, k) BY DEF Driven
<1>9. Starts(y, k) BY <1>1, <1>2, <1>4 DEF Starts
<1>10. Generations(y, k) BY <1>4, <1>1, <1>2, CalmFacts, GenKeeps DEF Stray
<1>11. Buffers(y, k) BY <1>2, CalmFacts DEF Buffers
<1>12. ~y.closing => Holds(y, k) BY <1>1, <1>2, <1>4 DEF Holds
<1>13. ~y.closing => Budget(y, k) BY <1>1, <1>4, <1>2, CalmFacts DEF Attempts, AutoCalls, Budget
<1> QED BY <1>5, <1>6, <1>7, <1>8, <1>9, <1>10, <1>11, <1>12, <1>13 DEF RecInv, k

\* The client's buffering is over.
LEMMA UnbufferCore ==
  ASSUME NEW x, NEW k, Core(x, k), NEW y, Same(x, y, {"buffering", "clientBuffering"}),
         ~y.buffering,
         y.clientBuffering \in BOOLEAN, y.clientBuffering => x.clientBuffering
  PROVE  Core(y, k)
<1>1. Typed(x, k) /\ Attempts(x, k) /\ Recoveries(x, k) /\ Starts(x, k)
      /\ Generations(x, k) /\ Buffers(x, k)
  BY DEF Core
<1>2. /\ DOMAIN y = Fields /\ y.state = x.state
      /\ y.closing = x.closing /\ y.attempts = x.attempts /\ y.backoff = x.backoff
      /\ y.token = x.token /\ y.attemptInFlight = x.attemptInFlight
      /\ y.disposed = x.disposed
      /\ y.inFlight = x.inFlight /\ y.recoveries = x.recoveries
      /\ y.replacedFirstDial = x.replacedFirstDial /\ y.gen = x.gen /\ y.link = x.link
      /\ y.calls = x.calls /\ y.lossSpent = x.lossSpent
      /\ y.dialWindow = x.dialWindow
  BY DEF Same, Fields
<1>3. Typed(y, k) BY <1>1, <1>2 DEF Typed
<1>4. Attempts(y, k) BY <1>1, <1>2 DEF Attempts, AutoCalls, Quiet
<1>5. Recoveries(y, k) BY <1>1, <1>2 DEF Recoveries, Live
<1>6. Starts(y, k) BY <1>1, <1>2 DEF Starts
<1>7. Generations(y, k) BY <1>1, <1>2 DEF Generations, Live, Stray, Epoch
<1>8. Buffers(y, k) BY <1>1, <1>2 DEF Buffers, Live
<1> QED BY <1>3, <1>4, <1>5, <1>6, <1>7, <1>8 DEF Core

\* The retries of a planned reconnect are given back.
LEMMA RefundIs ==
  ASSUME NEW x, NEW p \in Plans, x.attempts \in 0..MaxAttempts, x.lossSpent \in Nat
  PROVE  /\ Refund(x, p) \in 0..MaxAttempts
         /\ Sound(x, p) \/ Fits(x, p) => Refund(x, p) = x.lossSpent
<1>1. p.spent \in Nat /\ MaxAttempts \in Nat BY RecoveryAssumption DEF Plans
<1>2. CASE p.planned BY <1>1, <1>2 DEF Refund, Sound, Fits
<1>3. CASE ~p.planned BY <1>1, <1>3 DEF Refund, Sound, Fits
<1> QED BY <1>2, <1>3

\* An automatic reconnect resolves: the session goes on, or the attempt was not the last one.
LEMMA AutoKeeps ==
  ASSUME NEW x, RecInv(x, <<>>), NEW c \in x.calls, c.by = "auto",
         NEW z, Same(x, z, {"calls", "link", "alive"}), z.calls = x.calls \ {c}, z.link \in Nat,
         c.id # x.token => z.link = x.link
  PROVE  RecInv(AutoResolves(z, c), <<>>)
<1>1. /\ Typed(x, <<>>) /\ Attempts(x, <<>>) /\ DOMAIN z = Fields /\ x.gen \in Nat
      /\ ~x.closing => Budget(x, <<>>)
  BY DEF RecInv, Same, Typed
<1>2. /\ z.attemptInFlight = x.attemptInFlight /\ z.gen = x.gen /\ z.token = x.token
           /\ z.state = x.state
      /\ z.attempts = x.attempts /\ z.lossSpent = x.lossSpent /\ z.closing = x.closing
      /\ z.backoff = x.backoff /\ z.inFlight = x.inFlight
  BY DEF Same, Fields
<1>3. CASE c.id # x.token BY <1>2, <1>3, <1>1, DropKeeps DEF AutoResolves, Same, Fields
<1>4. CASE c.id = x.token
  <2> DEFINE a == [z EXCEPT !.attemptInFlight = FALSE]
  <2>1. /\ Same(x, a, {"calls", "link", "alive", "gen", "attemptInFlight"})
             /\ a.calls = x.calls \ {c}
        /\ a.link \in Nat /\ a.gen = x.gen /\ a.attemptInFlight = FALSE
    BY <1>1, <1>2 DEF Same, Fields
  <2> HIDE DEF a
  <2>3. x.backoff = {} /\ x.inFlight = 0 /\ x.state \in {"RECONNECTING", "CLOSED"}
    BY <1>1, <1>4 DEF Attempts, AutoCalls
  <2>4. /\ a.attempts = x.attempts /\ a.lossSpent = x.lossSpent /\ a.closing = x.closing
        /\ a.backoff = x.backoff /\ a.inFlight = x.inFlight /\ a.state = x.state
                /\ a.disposed = x.disposed
        /\ DOMAIN a = Fields
    BY <2>1 DEF Same, Fields
  <2>5. Core(a, <<>>) /\ (~a.closing => Holds(a, <<>>) /\ Budget(a, <<>>))
    BY <1>4, <2>1, <2>3, <2>4, DropKeeps
  <2>6. x.state = "RECONNECTING" => \A d \in a.calls : d.by # "transfer"
    BY <2>3, <2>4, <2>5 DEF Core, Starts
  <2> DEFINE b == [a EXCEPT !.clientBuffering = FALSE, !.buffering = FALSE]
             y == [b EXCEPT !.attempts = Refund(x, c.plan), !.state = "ACTIVE"]
  <2>7. Same(a, b, {"clientBuffering", "buffering"}) /\ b.clientBuffering = FALSE
        /\ b.buffering = FALSE
    BY <2>4 DEF Same, Fields
  <2>8. AutoResolves(z, c) = IF x.state # "RECONNECTING" THEN b ELSE y
    BY <1>2, <1>4 DEF Refund, AutoResolves, a
  <2> HIDE DEF b
  <2>10. Same(b, y, {"attempts", "state"}) /\ y.attempts = Refund(x, c.plan) /\ y.state = "ACTIVE"
    BY <2>7 DEF Same, Fields
  <2> HIDE DEF y
  <2>11. Same(a, y, {"state", "buffering", "clientBuffering", "attempts"}) /\ y.buffering = FALSE
         /\ y.clientBuffering = FALSE /\ y.lossSpent = x.lossSpent
    BY <2>4, <2>7, <2>10 DEF Same, Fields
  <2>12. y.attempts \in 0..MaxAttempts /\ (~x.closing => y.attempts = y.lossSpent)
    <3>2. ~x.closing => Sound(x, c.plan) BY <1>1, <1>4 DEF Budget, AutoCalls
    <3> QED BY <2>10, <2>11, <3>2, RefundIs, <1>1, TypeFacts DEF Typed
  <2>13. CASE x.state = "RECONNECTING"
    BY <2>1, <2>3, <2>4, <2>5, <2>6, <2>10, <2>11, <2>12, <2>13, ActiveKeeps, <2>8
  <2>14. CASE x.state # "RECONNECTING"
    <3>1. x.closing BY <1>1, <2>3, <2>14 DEF Typed
    <3>2. CloseWithReason(b) = b BY <2>3, <2>4, <2>7, <2>14 DEF CloseWithReason, Same, Fields
    <3>3. Core(b, <<>>) BY <2>5, <2>7, UnbufferCore
    <3>4. RecInv(b, <<>>) BY <3>2, <3>3, ClosingKeeps
    <3> QED BY <2>8, <2>14, <3>4
  <2> QED BY <2>13, <2>14
<1> QED BY <1>3, <1>4

\* The dial of the recovery in flight has settled.
Settled(x, c, y) ==
  /\ Same(x, y, {"calls", "link", "alive", "gen", "inFlight", "recoveries", "buffering", "state"})
  /\ y.calls = x.calls \ {c} /\ y.link \in Nat /\ y.gen \in {x.gen, x.gen + 1}
  /\ SameRecs(x.recoveries, y.recoveries, c.id, {"owns", "outcome"})
  /\ y.inFlight \in {0, c.id}
  /\ y.state = x.state \/ (x.state = "RECONNECTING" /\ y.state = "ACTIVE")

\* The frames that its settlement may leave.
SettledStack(l, r) ==
  /\ l \in Seq(FrameRecord) /\ Below(l) = {} /\ Once(l)
  /\ \A f \in All(l) : f.kind \in {"activated", "failed"} /\ f.id = r
  /\ ~Top(l, Unguarded) /\ ~Top(l, {"window"}) /\ ~Top(l, {"window", "planned"})
          /\ ~Top(l, {"report"})
  /\ ~Top(l, {"planned"})

\* The parts of the invariant that do not depend on how it settled.
LEMMA SettledKeeps ==
  ASSUME NEW x, RecInv(x, <<>>), NEW c \in x.calls, c.by = "host", c.id = x.inFlight,
         NEW y, Settled(x, c, y), NEW l, SettledStack(l, c.id),
         ~Live(y, l, {"boundary"}), ~Live(y, l, {"aborted"}),
           ~Live(y, l, {"aborted", "announced"}),
         Live(y, l, {"activated", "drained"}) => y.link = c.gen
  PROVE  /\ Typed(y, l) /\ Attempts(y, l) /\ Starts(y, l) /\ Generations(y, l)
         /\ c.id # 0 /\ c.id \in 1..Len(x.recoveries) /\ x.state \in {"RECONNECTING", "CLOSED"}
         /\ y.backoff = {} /\ ~y.attemptInFlight /\ ~y.clientBuffering
                 /\ (~x.closing => x.dialWindow)
         /\ \A d \in AutoCalls(y) : d.id # y.token
         /\ x.buffering => x.state = "CLOSED" \/ x.recoveries[c.id].owns
<1> DEFINE k == <<>>
           r == c.id
<1>1. Typed(x, k) /\ Attempts(x, k) /\ Recoveries(x, k) /\ Starts(x, k)
      /\ Generations(x, k) /\ Buffers(x, k) /\ (~x.closing => Holds(x, k) /\ Budget(x, k))
  BY DEF RecInv
<1>2. Calm(x, k) /\ All(k) = {} /\ Below(k) = {} BY IdleCalm, Emptied
<1> HIDE DEF k
<1>3. r \in 1..Len(x.recoveries) /\ r # 0 /\ x.gen \in Nat /\ x.token \in Nat
      /\ Len(x.recoveries) \in Nat
  BY <1>1, TypeFacts DEF Typed
<1>4. x.inFlight = r OBVIOUS
<1>5. x.state \in {"RECONNECTING", "CLOSED"} /\ ~x.attemptInFlight /\ x.backoff = {}
      /\ ~x.clientBuffering
  BY <1>1, <1>2, <1>3, <1>4, CalmFacts DEF Recoveries, Attempts, Buffers
<1> HIDE DEF r
<1>6. /\ DOMAIN y = Fields
      /\ y.closing = x.closing /\ y.attempts = x.attempts /\ y.backoff = x.backoff
      /\ y.token = x.token /\ y.attemptInFlight = x.attemptInFlight
      /\ y.clientBuffering = x.clientBuffering /\ y.disposed = x.disposed
      /\ y.replacedFirstDial = x.replacedFirstDial /\ y.lossSpent = x.lossSpent
      /\ y.dialWindow = x.dialWindow
  BY DEF Settled, Same, Fields
<1>7. /\ y.calls = x.calls \ {c} /\ y.link \in Nat /\ y.gen \in {x.gen, x.gen + 1}
      /\ y.inFlight \in {0, r} /\ y.state \in {"RECONNECTING", "CLOSED", "ACTIVE"}
      /\ y.state = x.state \/ (x.state = "RECONNECTING" /\ y.state = "ACTIVE")
  BY <1>5 DEF Settled, r
<1>8. /\ y.recoveries \in Seq(RecoveryRecord) /\ Len(y.recoveries) = Len(x.recoveries)
      /\ \A q \in 1..Len(x.recoveries) :
           y.recoveries[q].epoch = x.recoveries[q].epoch
             /\ y.recoveries[q].settled = x.recoveries[q].settled
  BY DEF Settled, SameRecs
<1>9. Typed(y, l) BY <1>1, <1>3, <1>4, <1>7, <1>8, <1>6 DEF Typed, States, SettledStack, r
<1>10. AutoCalls(y) = AutoCalls(x) BY <1>7 DEF AutoCalls
<1>11. \A d \in AutoCalls(y) : d.id # y.token BY <1>1, <1>5, <1>6, <1>10 DEF Attempts
<1>12. Attempts(y, l) BY <1>1, <1>5, <1>6, <1>10, <1>11 DEF SettledStack, Attempts
<1>13. Starts(y, l) BY <1>1, <1>5, <1>6, <1>7 DEF SettledStack, Starts
<1>14. Generations(y, l)
  <2>2. \A d \in y.calls : d.gen <= y.gen /\ ~Stray(y, d) BY <1>3, <1>6, <1>7, IdleFacts DEF Stray
  <2>3. \A q \in 1..Len(x.recoveries) : x.recoveries[q].epoch \in Nat BY <1>1, TypeFacts
  <2>4. \A q \in 1..Len(y.recoveries) :
         /\ y.recoveries[q].epoch <= y.gen + 2
         /\ y.recoveries[q].settled => y.recoveries[q].epoch <= y.gen + 1
    <3>1. \A q \in 1..Len(x.recoveries) :
            /\ x.recoveries[q].epoch <= x.gen + 2
            /\ x.recoveries[q].settled => x.recoveries[q].epoch <= x.gen + 1
      BY <1>1 DEF Generations
    <3>2. y.gen + 2 >= x.gen + 2 /\ y.gen + 1 >= x.gen + 1 /\ y.gen \in Nat BY <1>3, <1>7
    <3> TAKE q \in 1..Len(y.recoveries)
    <3> DEFINE e == x.recoveries[q].epoch
    <3>3. q \in 1..Len(x.recoveries) /\ e \in Nat /\ y.recoveries[q].epoch = e
          /\ y.recoveries[q].settled = x.recoveries[q].settled
      BY <1>8, <2>3
    <3>4. e <= x.gen + 2 /\ (x.recoveries[q].settled => e <= x.gen + 1) BY <3>1, <3>3
    <3> HIDE DEF e
    <3> QED BY <3>3, <1>3, <3>2, <3>4
  <2>6. \A d \in y.calls : d.by = "host" => d.gen = y.recoveries[d.id].epoch
    <3>1. \A d \in x.calls : d.by = "host" => d.id \in 1..Len(x.recoveries)
          /\ d.gen = x.recoveries[d.id].epoch
      BY <1>1 DEF Generations, Typed
    <3> QED BY <1>7, <1>8, <3>1
  <2>7. y.inFlight # 0 => y.recoveries[y.inFlight].settled
    BY <1>1, <1>2, <1>3, <1>4, CalmFacts, <1>7, <1>8 DEF Generations
  <2>8. Live(y, l, {"activated", "drained"}) => Epoch(y, Head(l)) = y.link
    BY Popped, <1>1, <1>3, <1>8 DEF SettledStack, r, Generations, Live, Top, Epoch
  <2> QED BY <2>2, <2>4, <2>6, <2>7, <2>8, <1>1, <1>8 DEF Generations
<1>15. ~x.closing => x.dialWindow BY <1>1, <1>2, <1>3, <1>4, CalmFacts DEF Holds
<1>16. x.buffering => x.state = "CLOSED" \/ x.recoveries[r].owns
  BY <1>1, <1>2, <1>4, <1>5 DEF Buffers
<1> QED BY <1>3, <1>5, <1>6, <1>9, <1>11, <1>12, <1>13, <1>14, <1>15, <1>16 DEF r

\* It settled for a session that is shutting down.
LEMMA ShutKeeps ==
  ASSUME NEW x, RecInv(x, <<>>), NEW c \in x.calls, c.by = "host", c.id = x.inFlight, x.closing,
         NEW y, Settled(x, c, y), y.inFlight = 0, y.state = x.state, ~y.recoveries[c.id].owns,
         x.recoveries[c.id].owns => ~y.buffering, ~x.recoveries[c.id].owns
           => y.buffering = x.buffering
  PROVE  RecInv(y, <<>>)
<1> DEFINE l == <<>>
<1>1. SettledStack(l, c.id) /\ Calm(y, l) /\ All(l) = {} /\ Below(l) = {}
  BY Emptied, IdleCalm, CalmFacts DEF SettledStack, Once, Top
<1> HIDE DEF l
<1>2. /\ Typed(y, l) /\ Attempts(y, l) /\ Starts(y, l) /\ Generations(y, l)
      /\ ~y.clientBuffering /\ (x.buffering => x.state = "CLOSED" \/ x.recoveries[c.id].owns)
  BY <1>1, CalmFacts, SettledKeeps
<1>3. y.closing = x.closing BY DEF Settled, Same, Fields
<1>4. Recoveries(y, l) BY <1>1, CalmFacts DEF Recoveries
<1>5. Buffers(y, l) BY <1>1, <1>2, CalmFacts DEF Buffers
<1>6. Driven(y, l) BY <1>3 DEF Driven
<1> QED BY <1>2, <1>3, <1>4, <1>5, <1>6 DEF RecInv, l

\* It was set up: the session is ACTIVE again, and its subscribers hear of it.
LEMMA LandedKeeps ==
  ASSUME NEW x, RecInv(x, <<>>), NEW c \in x.calls, c.by = "host", c.id = x.inFlight,
         NEW y, Settled(x, c, y), y.inFlight = c.id, y.state = "ACTIVE", ~y.recoveries[c.id].owns,
           y.link = c.gen,
         x.recoveries[c.id].owns => ~y.buffering, ~x.recoveries[c.id].owns
           => y.buffering = x.buffering,
         x.state = "RECONNECTING",
         NEW f \in FrameRecord, f.kind = "activated", f.id = c.id
  PROVE  RecInv(y, <<f>>)
<1> DEFINE l == <<f>>
<1>1. l \in Seq(FrameRecord) /\ l # <<>> /\ Head(l) = f /\ All(l) = {f} /\ Below(l) = {} BY Single
<1>2. Once(l) BY DEF Once
<1> HIDE DEF l
<1>3. /\ \A h : Live(y, l, h) <=> "activated" \in h
      /\ \A h : Top(l, h) <=> "activated" \in h
  BY <1>1 DEF Live, Top
<1>4. SettledStack(l, c.id) BY <1>1, <1>2, <1>3 DEF SettledStack, Unguarded
<1>5. /\ Typed(y, l) /\ Attempts(y, l) /\ Starts(y, l) /\ Generations(y, l)
      /\ c.id # 0 /\ y.backoff = {} /\ (~x.closing => x.dialWindow)
      /\ \A d \in AutoCalls(y) : d.id # y.token
      /\ ~y.clientBuffering /\ (x.buffering => x.state = "CLOSED" \/ x.recoveries[c.id].owns)
  BY <1>3, <1>4, SettledKeeps
<1>9. Driven(y, l) BY DEF Driven
<1>10. ~y.closing => Holds(y, l) BY <1>1, <1>3, <1>5 DEF Holds, Settled, Same, Fields
<1> QED BY <1>5, <1>9, <1>10, <1>1, <1>3 DEF RecInv, l, Budget, Recoveries, HostKinds, Buffers

\* It failed: the recovery is rejected, up to its error report.
LEMMA RejectedKeeps ==
  ASSUME NEW x, RecInv(x, <<>>), NEW c \in x.calls, c.by = "host", c.id = x.inFlight,
         NEW y, Settled(x, c, y), y.inFlight = 0, y.state = x.state, y.buffering = x.buffering,
         y.recoveries[c.id].owns = x.recoveries[c.id].owns,
         NEW f \in FrameRecord, f.kind = "failed", f.id = c.id
  PROVE  RecInv(y, <<f>>)
<1> DEFINE l == <<f>>
<1>1. l \in Seq(FrameRecord) /\ l # <<>> /\ Head(l) = f /\ All(l) = {f} /\ Below(l) = {} BY Single
<1>2. Once(l) BY DEF Once
<1> HIDE DEF l
<1>3. Calm(y, l) BY <1>1 DEF Calm, Live, Top, HostKinds, Unguarded
<1>5. /\ Typed(y, l) /\ Attempts(y, l) /\ Starts(y, l) /\ Generations(y, l)
      /\ c.id # 0 /\ y.backoff = {} /\ x.state \in {"RECONNECTING", "CLOSED"}
              /\ (~x.closing => x.dialWindow)
      /\ \A d \in AutoCalls(y) : d.id # y.token
      /\ ~y.clientBuffering /\ (x.buffering => x.state = "CLOSED" \/ x.recoveries[c.id].owns)
  BY <1>3, CalmFacts, SettledKeeps, <1>1, <1>2 DEF SettledStack
<1>6. y.closing = x.closing /\ y.dialWindow = x.dialWindow BY DEF Settled, Same, Fields
<1>9. Driven(y, l) BY <1>1 DEF Driven
<1>10. ~y.closing => Holds(y, l) BY <1>5, <1>1, <1>6 DEF Typed, Holds
<1> QED BY <1>5, <1>9, <1>10, <1>1, <1>3, CalmFacts DEF RecInv, l, Budget, Recoveries, Buffers

\* A dial has settled: its call is over, and its connection is installed or not.
Dropped(u, c, x, ok) ==
  /\ Same(u, x, {"calls", "link", "alive", "gen"}) /\ x.calls = u.calls \ {c} /\ x.link \in Nat
  /\ ok => x.link = c.gen /\ x.gen = u.gen /\ c.gen = u.gen
  /\ ~ok => x.link \in {0, u.link} /\ x.gen \in {u.gen, u.gen + 1}

\* The fields such a call leaves as they were.
LEMMA DroppedFacts ==
  ASSUME NEW u, NEW c, NEW x, NEW ok, Dropped(u, c, x, ok)
  PROVE  /\ DOMAIN x = Fields /\ x.state = u.state
         /\ x.closing = u.closing /\ x.attempts = u.attempts /\ x.backoff = u.backoff
         /\ x.token = u.token /\ x.attemptInFlight = u.attemptInFlight
         /\ x.clientBuffering = u.clientBuffering /\ x.disposed = u.disposed
         /\ x.inFlight = u.inFlight /\ x.recoveries = u.recoveries
         /\ x.replacedFirstDial = u.replacedFirstDial /\ x.policy = u.policy
         /\ x.buffering = u.buffering /\ x.lossSpent = u.lossSpent
         /\ x.dialWindow = u.dialWindow
         /\ x.gen \in {u.gen, u.gen + 1}
BY DEF Dropped, Same, Fields

\* The last part of a dial that a park or the close superseded.
LEMMA SupersededDial ==
  ASSUME NEW u, RecInv(u, <<>>), NEW c \in u.calls, c.by = "host", NEW x, NEW ok \in BOOLEAN,
         Dropped(u, c, x, ok), MustStop(x, c.id)
  PROVE  RecInv(RejectAttempt(IF ok THEN DisconnectTransport(Release(x, c.id)) ELSE Release(x,
         c.id), c.id), <<>>)
<1> DEFINE r == c.id
           a == Release(x, r)
           z == IF ok THEN DisconnectTransport(a) ELSE a
           y == RejectAttempt(z, r)
<1>1. Typed(u, <<>>) /\ r \in 1..Len(u.recoveries) /\ u.recoveries \in Seq(RecoveryRecord)
      /\ u.gen \in Nat /\ u.link \in Nat
  BY DEF RecInv, Typed
<1>2. DOMAIN x = Fields /\ x.inFlight = u.inFlight /\ x.recoveries = u.recoveries
      /\ x.gen \in {u.gen, u.gen + 1}
      /\ x.disposed = u.disposed /\ x.state = u.state
  BY DroppedFacts
<1>3. Same(x, a, {"inFlight"}) /\ a.inFlight = IF x.inFlight = r THEN 0 ELSE x.inFlight
  BY <1>2, ReleaseIs
<1> HIDE DEF a
<1>4. DOMAIN a = Fields /\ a.gen = x.gen /\ a.link = x.link BY <1>3 DEF Same, Fields
<1>5. /\ Same(a, z, {"link", "alive", "gen"}) /\ z.link \in {0, u.link}
      /\ z.gen \in {u.gen, u.gen + 1}
  <2>1. CASE ok BY <2>1, <1>4, DisconnectIs DEF Dropped
  <2>2. CASE ~ok BY <1>2, <1>4, <2>2 DEF Dropped, Same
  <2> QED BY <2>1, <2>2
<1> HIDE DEF z
<1>6. Same(u, z, {"calls", "link", "alive", "gen", "inFlight"}) /\ DOMAIN z = Fields
      /\ z.calls = u.calls \ {c}
      /\ z.inFlight = a.inFlight /\ z.recoveries = u.recoveries
  BY <1>3, <1>5 DEF Dropped, Same, Fields
<1>7. /\ Same(z, y, {"recoveries", "buffering"})
      /\ SameRecs(z.recoveries, y.recoveries, r, {"owns", "outcome"})
      /\ y.recoveries[r].owns = FALSE /\ y.recoveries[r].outcome = "rejected"
      /\ z.recoveries[r].owns => ~y.buffering
      /\ ~z.recoveries[r].owns => y.buffering = z.buffering
  BY <1>1, <1>6, RejectIs
<1> HIDE DEF y, r
<1>8. CASE u.inFlight # r
  <2>4. RecInv(z, <<>>) BY <1>5, <1>6, DropKeeps, <1>1, <1>8, <1>2, <1>3 DEF r, Same, Fields
  <2>6. RecInv(y, <<>>) BY <2>4, EndKeeps, <1>1, <1>6, <1>7 DEF Ended
  <2> QED BY <2>6 DEF y, z, a, r
<1>9. CASE u.inFlight = r
  <2>1. u.closing BY <1>1, <1>2, <1>9 DEF MustStop, Typed, r
  <2>2. /\ y.inFlight = 0 /\ y.calls = u.calls \ {c} /\ y.state = u.state /\ y.link = z.link
             /\ y.gen = z.gen
        /\ z.buffering = u.buffering
    BY <1>2, <1>3, <1>6, <1>7, <1>9 DEF Same, Fields
  <2>5. RecInv(y, <<>>) BY <1>6, <1>7, <1>9, <2>1, <2>2, ShutKeeps, <1>1, <1>5 DEF r, Settled, Same
  <2> QED BY <2>5 DEF y, z, a, r
<1> QED BY <1>8, <1>9

\* finishDial, for whatever became of the dial and of the recovery.
LEMMA HostSettles ==
  ASSUME NEW u, RecInv(u, <<>>), NEW c \in u.calls, c.by = "host", NEW x, NEW ok \in BOOLEAN,
         Dropped(u, c, x, ok), FinishDial(x, c.id, ok)
  PROVE  RecInv(s, stack)'
<1> DEFINE r == c.id
<1>1. Typed(u, <<>>) /\ r \in 1..Len(u.recoveries) /\ u.recoveries \in Seq(RecoveryRecord)
      /\ r \in Nat
      /\ u.link \in Nat
  BY DEF RecInv, Typed
<1>2. DOMAIN x = Fields /\ x.inFlight = u.inFlight /\ x.recoveries = u.recoveries
      /\ x.state = u.state
      /\ x.gen \in {u.gen, u.gen + 1} /\ x.buffering = u.buffering
  BY DroppedFacts
<1>3. /\ Same(u, x, {"calls", "link", "alive", "gen"}) /\ x.calls = u.calls \ {c}
           /\ x.link \in Nat
      /\ ok => x.link = c.gen
  BY DEF Dropped
<1>4. CASE MustStop(x, r) BY <1>4, SupersededDial DEF FinishDial, Become
<1>5. CASE ~MustStop(x, r) /\ ok /\ x.state = "RECONNECTING"
  <2> DEFINE e == EndClientBuffering(x, r)
             y == [e EXCEPT !.state = "ACTIVE"]
             f == Frame("activated", r, NoPlan)
  <2>1. s' = y /\ stack' = <<f>> BY <1>5 DEF FinishDial, Become
  <2>2. /\ Same(x, e, {"recoveries", "buffering"})
        /\ SameRecs(u.recoveries, e.recoveries, r, {"owns"}) /\ e.recoveries[r].owns = FALSE
        /\ u.recoveries[r].owns => ~e.buffering
        /\ ~u.recoveries[r].owns => e.buffering = u.buffering
    BY <1>1, <1>2, EndIs
  <2> HIDE DEF e
  <2>4. Same(e, y, {"state"}) /\ y.state = "ACTIVE" BY <2>2 DEF Same, Fields
  <2> HIDE DEF y
  <2>5. f \in FrameRecord /\ f.kind = "activated" /\ f.id = r
    <3>1. "activated" \in Kinds /\ r \in Nat /\ NoPlan \in Plans
      BY <1>1, NoPlanIs DEF Kinds, HostKinds
    <3> QED BY <3>1 DEF Frame, FrameRecord
  <2> HIDE DEF f
  <2>6. /\ y.recoveries = e.recoveries /\ y.buffering = e.buffering /\ y.link = x.link
             /\ y.calls = x.calls
        /\ y.gen = x.gen /\ y.inFlight = x.inFlight
    BY <2>2, <2>4 DEF Same, Fields
  <2>7. Same(u, y, {"calls", "link", "alive", "gen", "inFlight", "recoveries", "buffering",
        "state"})
    BY <1>3, <2>2, <2>4 DEF Same
  <2>8. SameRecs(u.recoveries, y.recoveries, r, {"owns", "outcome"}) BY <2>2, <2>6 DEF SameRecs
  <2>9. u.inFlight = r BY <1>2, <1>5 DEF MustStop
  <2> HIDE DEF r
  <2>10. Settled(u, c, y) BY <1>2, <1>3, <1>5, <2>4, <2>6, <2>7, <2>8, <2>9 DEF Settled, r
  <2>11. y.inFlight = r /\ ~y.recoveries[r].owns /\ y.link = c.gen /\ u.state = "RECONNECTING"
         /\ (u.recoveries[r].owns => ~y.buffering)
                 /\ (~u.recoveries[r].owns => y.buffering = u.buffering)
    BY <1>2, <1>3, <1>5, <2>2, <2>6, <2>9
  <2>12. RecInv(y, <<f>>) BY <2>4, <2>5, <2>9, <2>10, <2>11, LandedKeeps DEF r
  <2> QED BY <2>1, <2>12
<1>6. CASE ~MustStop(x, r) /\ ~(ok /\ x.state = "RECONNECTING")
  <2> DEFINE a == Release(x, r)
             b == [a.recoveries EXCEPT ![r].outcome = "rejected"]
             y == [a EXCEPT !.recoveries = b]
             f == Frame("failed", r, NoPlan)
  <2>1. s' = y /\ stack' = <<f>> BY <1>6 DEF FinishDial, FailRecovery, Become
  <2>2. u.inFlight = r BY <1>2, <1>6 DEF MustStop
  <2>3. Same(x, a, {"inFlight"}) /\ a.inFlight = 0 BY <1>2, <2>2, ReleaseIs
  <2> HIDE DEF a
  <2>4. DOMAIN a = Fields /\ a.recoveries = u.recoveries BY <1>2, <2>3 DEF Same, Fields
  <2>5. SameRecs(u.recoveries, b, r, {"outcome"}) BY <1>1, <2>4, RecordIs
  <2> HIDE DEF b
  <2>6. Same(a, y, {"recoveries"}) /\ y.recoveries = b BY <2>4 DEF Same, Fields
  <2> HIDE DEF y
  <2>7. f \in FrameRecord /\ f.kind = "failed" /\ f.id = r
    <3>1. "failed" \in Kinds BY DEF Kinds
    <3> QED BY <1>1, <3>1, FrameFacts, NoPlanIs
  <2> HIDE DEF f
  <2>8. /\ y.buffering = u.buffering /\ y.link = x.link /\ y.calls = x.calls /\ y.state = u.state
        /\ y.gen = x.gen /\ y.inFlight = 0
    BY <1>2, <2>3, <2>6 DEF Same, Fields
  <2>9. Same(u, y, {"calls", "link", "alive", "gen", "inFlight", "recoveries", "buffering",
        "state"})
    BY <1>3, <2>3, <2>6 DEF Same
  <2>10. SameRecs(u.recoveries, y.recoveries, r, {"owns", "outcome"})
         /\ y.recoveries[r].owns = u.recoveries[r].owns
    BY <1>1, <2>5, <2>6 DEF SameRecs
  <2> HIDE DEF r
  <2>12. RecInv(y, <<f>>)
    BY <2>2, <2>7, <2>8, <2>10, RejectedKeeps, <1>2, <1>3, <2>9 DEF r, Settled
  <2> QED BY <2>1, <2>12
<1> QED BY <1>4, <1>5, <1>6

\* The first dial settles: the session is in use, parked or closed.
LEMMA FirstSettles ==
  ASSUME NEW u, RecInv(u, <<>>), NEW c \in u.calls, c.by = "first", NEW x, NEW ok \in BOOLEAN,
         Dropped(u, c, x, ok), FirstDialSettles(x, ok)
  PROVE  RecInv(s, stack)'
<1>1. Typed(u, <<>>) /\ Attempts(u, <<>>) /\ Starts(u, <<>>) BY DEF RecInv
<1>2. /\ DOMAIN x = Fields /\ x.state = u.state /\ x.closing = u.closing /\ x.backoff = u.backoff
      /\ x.attemptInFlight = u.attemptInFlight /\ x.inFlight = u.inFlight
              /\ x.disposed = u.disposed
      /\ x.gen \in {u.gen, u.gen + 1} /\ x.attempts = u.attempts /\ x.lossSpent = u.lossSpent
      /\ x.clientBuffering = u.clientBuffering
  BY DroppedFacts
<1>3. /\ Same(u, x, {"calls", "link", "alive", "gen"}) /\ x.calls = u.calls \ {c}
           /\ x.link \in Nat
      /\ ok \/ x.link \in {0, u.link}
  BY DEF Dropped
<1>5. u.state = "CONNECTING" => u.backoff = {} /\ ~u.attemptInFlight /\ u.inFlight = 0
      /\ ~u.buffering
                                /\ ~u.clientBuffering
  BY IdleFacts
<1>6. u.state = "CLOSED" => u.closing BY <1>1 DEF Typed
<1>7. RecInv(x, <<>>) BY <1>3, <1>2, <1>5, <1>6, DropKeeps, IdleFacts DEF Same, Dropped, Stray
<1>8. \A d \in x.calls : d.by # "first" BY <1>1, <1>3 DEF Starts
<1>9. stack' = <<>> /\ \/ s' = x
                       \/ u.state = "CONNECTING" /\ s' = [x EXCEPT !.state = "ACTIVE"]
                       \/ u.state = "CONNECTING" /\ s' = ParkUpstreamLost(x)
                       \/ u.state = "CONNECTING" /\ s' = Close(x)
  <2>1. CASE x.state # "CONNECTING" \/ x.replacedFirstDial
    BY <1>2, <2>1 DEF FirstDialSettles, Become
  <2>2. CASE ~(x.state # "CONNECTING" \/ x.replacedFirstDial) /\ ok
    BY <1>2, <2>2 DEF FirstDialSettles, Become
  <2>3. CASE ~(x.state # "CONNECTING" \/ x.replacedFirstDial) /\ ~ok
    BY <1>2, <2>3 DEF FirstDialSettles, Become
  <2> QED BY <2>1, <2>2, <2>3
<1>10. Core(x, <<>>) /\ FreshSound(x, <<>>) /\ (~x.closing => Holds(x, <<>>) /\ Budget(x, <<>>))
  BY <1>7, CoreOf
<1>11. ASSUME u.state = "CONNECTING" PROVE RecInv([x EXCEPT !.state = "ACTIVE"], <<>>)
  <2> DEFINE y == [x EXCEPT !.state = "ACTIVE"]
  <2>1. Same(x, y, {"state", "buffering", "clientBuffering", "attempts"}) /\ y.state = "ACTIVE"
        /\ y.buffering = x.buffering /\ y.clientBuffering = x.clientBuffering
                /\ y.attempts = x.attempts
        /\ y.lossSpent = x.lossSpent
    BY <1>2 DEF Same, Fields
  <2> HIDE DEF y
  <2>3. y.clientBuffering = FALSE /\ y.attempts \in 0..MaxAttempts
    BY <1>1, <1>2, <1>5, <1>11, <2>1 DEF Typed
  <2>4. ~x.closing => y.attempts = y.lossSpent
    BY IdleCalm, CalmFacts, <1>2, <1>10, <1>11, <2>1 DEF Budget
  <2>6. ~y.buffering /\ x.inFlight = 0 /\ ~x.attemptInFlight /\ x.backoff = {}
        /\ x.state = "CONNECTING"
    BY <1>2, <1>5, <1>11, <2>1, DroppedFacts
  <2>7. \A d \in x.calls : d.by # "transfer" /\ (x.state = "CONNECTING" => d.by # "first")
    BY <1>8, <1>1, <1>3, <1>11 DEF Starts
  <2>8. RecInv(y, <<>>) BY <1>10, <2>1, <2>3, <2>4, <2>6, <2>7, ActiveKeeps
  <2> QED BY <2>8 DEF y
<1>12. ASSUME u.state = "CONNECTING" PROVE RecInv(ParkUpstreamLost(x), <<>>)
  BY <1>2, <1>5, <1>7, <1>8, <1>10, <1>12, IdleCalm, ParkKeeps
<1>13. RecInv(Close(x), <<>>) BY <1>10, CloseKeeps DEF Top
<1> QED BY <1>7, <1>9, <1>11, <1>12, <1>13

\* The dial of a transfer settles.
LEMMA TransferEnds ==
  ASSUME NEW u, RecInv(u, <<>>), NEW c \in u.calls, c.by = "transfer", NEW x, NEW ok \in BOOLEAN,
         Dropped(u, c, x, ok), TransferSettles(x, ok)
  PROVE  RecInv(s, stack)'
<1>1. Typed(u, <<>>) /\ Attempts(u, <<>>) /\ Starts(u, <<>>) BY DEF RecInv
<1>2. /\ DOMAIN x = Fields /\ x.state = u.state /\ x.closing = u.closing /\ x.backoff = u.backoff
      /\ x.attemptInFlight = u.attemptInFlight /\ x.inFlight = u.inFlight
      /\ x.gen \in {u.gen, u.gen + 1} /\ x.attempts = u.attempts /\ x.lossSpent = u.lossSpent
      /\ x.clientBuffering = u.clientBuffering
  BY DroppedFacts
<1>3. /\ Same(u, x, {"calls", "link", "alive", "gen"}) /\ x.calls = u.calls \ {c}
           /\ x.link \in Nat
      /\ ok \/ x.link \in {0, u.link}
  BY DEF Dropped
<1>4. u.state \in {"TRANSFERRING", "CLOSED"} /\ (u.state = "CLOSED" => u.closing)
      /\ u.clientBuffering \in BOOLEAN /\ u.attempts \in 0..MaxAttempts
  BY <1>1 DEF Starts, Typed
<1>5. u.state = "TRANSFERRING" => u.backoff = {} /\ ~u.attemptInFlight /\ u.inFlight = 0
      /\ ~u.clientBuffering
  BY IdleFacts
<1>6. RecInv(x, <<>>) BY <1>3, <1>2, <1>4, <1>5, DropKeeps DEF Same
<1>7. Core(x, <<>>) /\ (~x.closing => Holds(x, <<>>) /\ Budget(x, <<>>)) BY <1>6, CoreOf
<1> DEFINE b == [x EXCEPT !.buffering = FALSE]
           y == [b EXCEPT !.state = "ACTIVE"]
<1>8. stack' = <<>> /\ \/ u.state = "TRANSFERRING" /\ s' = y
                       \/ s' = CloseWithReason(b)
  BY <1>2 DEF TransferSettles, Become
<1>9. Same(x, b, {"buffering"}) /\ b.buffering = FALSE /\ b.clientBuffering = x.clientBuffering
  BY <1>2 DEF Same, Fields
<1> HIDE DEF b
<1>11. Same(b, y, {"state"}) /\ y.state = "ACTIVE" BY <1>9 DEF Same, Fields
<1> HIDE DEF y
<1>13. ASSUME u.state = "TRANSFERRING" PROVE RecInv(y, <<>>)
  <2>1. Same(x, y, {"state", "buffering", "clientBuffering", "attempts"}) /\ y.buffering = FALSE
        /\ y.clientBuffering = x.clientBuffering /\ y.attempts = x.attempts
                /\ y.lossSpent = x.lossSpent
    BY <1>9, <1>11 DEF Same, Fields
  <2>2. y.clientBuffering = FALSE /\ y.attempts \in 0..MaxAttempts BY <1>2, <1>4, <1>5, <1>13, <2>1
  <2>3. ~x.closing => y.attempts = y.lossSpent
    BY IdleCalm, CalmFacts, <1>2, <1>7, <1>13, <2>1 DEF Budget
  <2>4. \A d \in x.calls : d.by # "transfer" BY <1>1, <1>3 DEF Starts
  <2>5. x.inFlight = 0 /\ ~x.attemptInFlight /\ x.backoff = {} /\ x.state = "TRANSFERRING"
    BY <1>2, <1>5, <1>13
  <2> QED BY <1>7, <1>11, <2>1, <2>2, <2>3, <2>4, <2>5, ActiveKeeps
<1> QED BY <1>8, <1>13, <1>2, <1>4, <1>9, <1>7, UnbufferCore, ClosingKeeps DEF Same

\* The dial of an automatic reconnect fails: it is retried, or its attempt fails.
LEMMA AutoFails ==
  ASSUME NEW u, RecInv(u, <<>>), NEW c \in u.calls, c.by = "auto", NEW x, Dropped(u, c, x, FALSE),
         NEW failure, AutoRejects(x, c, failure)
  PROVE  RecInv(s, stack)'
<1>1. Typed(u, <<>>) /\ Attempts(u, <<>>) /\ DOMAIN u = Fields /\ (~u.closing => Budget(u, <<>>))
  BY DEF RecInv, Typed
<1>2. /\ DOMAIN x = Fields /\ x.state = u.state /\ x.closing = u.closing /\ x.backoff = u.backoff
      /\ x.token = u.token /\ x.attemptInFlight = u.attemptInFlight /\ x.inFlight = u.inFlight
      /\ x.gen \in {u.gen, u.gen + 1} /\ x.attempts = u.attempts /\ x.lossSpent = u.lossSpent
  BY DEF Dropped, Same, Fields
<1>3. /\ Same(u, x, {"calls", "link", "alive", "gen"}) /\ x.calls = u.calls \ {c}
           /\ x.link \in Nat
      /\ x.link \in {0, u.link}
  BY DEF Dropped
<1>4. CASE c.id # x.token /\ Become(x, <<>>) BY <1>3, <1>2, <1>4, DropKeeps DEF Same, Become
<1>5. CASE c.id = x.token
  <2>1. u.attemptInFlight /\ u.backoff = {} /\ u.inFlight = 0
        /\ u.state \in {"RECONNECTING", "CLOSED"}
        /\ (~u.closing => Sound(u, c.plan)) /\ c.plan \in Plans
    BY <1>1, TypeFacts, <1>2, <1>5 DEF AutoCalls, Attempts, Budget
  <2> DEFINE y == [x EXCEPT !.attemptInFlight = FALSE]
             refused == failure = "refused" /\ c.plan.handle
             plan == IF refused THEN [c.plan EXCEPT !.handle = FALSE, !.fresh = TRUE] ELSE c.plan
             z == [y EXCEPT !.handle = @ /\ ~refused]
  <2>2. /\ Same(u, y, {"calls", "link", "alive", "gen", "attemptInFlight"}) /\ y.calls = x.calls
        /\ y.link = x.link /\ y.gen = x.gen /\ y.attemptInFlight = FALSE
    BY <1>2, <1>3 DEF Same, Fields
  <2>3. plan \in Plans /\ plan.planned = c.plan.planned /\ plan.spent = c.plan.spent
    BY <2>1 DEF Plans
  <2>4. \/ FailAttempt(y)
        \/ /\ x.state = "RECONNECTING" /\ BudgetLeft(x)
           /\ Become(ScheduleBudgetedDial(z, plan), <<>>)
    BY <1>5 DEF AutoRejects
  <2> HIDE DEF y, refused, plan
  <2>5. /\ y.state = u.state /\ y.closing = u.closing /\ y.backoff = {} /\ y.inFlight = 0
             /\ DOMAIN y = Fields
        /\ y.token = u.token
    BY <1>2, <2>1, <2>2 DEF Same, Fields
  <2>6. CASE FailAttempt(y)
    BY <1>2, <1>3, <1>5, <2>1, <2>2, DropKeeps, <2>5, <2>6, FailKeeps DEF Quiet
  <2>7. CASE x.state = "RECONNECTING" /\ BudgetLeft(x)
             /\ Become(ScheduleBudgetedDial(z, plan), <<>>)
    <3> DEFINE v == [u EXCEPT !.handle = z.handle]
    <3>1. Same(y, z, {"handle"}) BY <2>5 DEF Same, Fields
    <3>2. s' = ScheduleBudgetedDial(z, plan) /\ stack' = <<>> BY <2>7 DEF Become
    <3> HIDE DEF z
    <3>3. Same(u, v, Unread) /\ Same(u, v, {"handle"}) /\ v.handle = z.handle
      BY <1>1 DEF Same, Fields, Unread
    <3> HIDE DEF v
    <3>4. RecInv(v, <<>>) BY <3>3, UnreadKeeps
    <3>5. /\ v.calls = u.calls /\ v.token = u.token /\ v.link = u.link /\ v.gen = u.gen
          /\ v.inFlight = u.inFlight
      BY <3>3 DEF Same, Fields
    <3>6. Same(v, z, {"calls", "link", "alive", "gen", "attemptInFlight"})
      BY <2>2, <3>1, <3>3 DEF Same, Fields
    <3>7. /\ z.calls = y.calls /\ z.link = y.link /\ z.gen = y.gen /\ z.attemptInFlight = FALSE
          /\ z.backoff = {} /\ z.inFlight = 0 /\ z.state = u.state /\ z.closing = u.closing
      BY <2>2, <2>5, <3>1 DEF Same, Fields
    <3>8. Core(z, <<>>) /\ (~z.closing => Holds(z, <<>>))
      BY <1>2, <1>3, <1>5, <2>2, <3>4, <3>5, <3>6, <3>7, DropKeeps
    <3>10. z.attempts = u.attempts /\ z.lossSpent = u.lossSpent BY <2>2, <3>1 DEF Same, Fields
    <3>11. z.attempts < MaxAttempts /\ z.state = "RECONNECTING"
      BY <1>2, <2>7, <3>7, <3>10 DEF BudgetLeft
    <3>12. ~z.closing => Sound(z, plan) BY <1>3, <2>2, <3>7, <2>1, <2>3, <3>10 DEF Sound
    <3>13. RecInv(ScheduleBudgetedDial(z, plan), <<>>)
      BY <2>3, <3>8, <3>11, <3>12, ScheduleKeeps, <3>7, IdleCalm, Emptied DEF Quiet
    <3> QED BY <3>2, <3>13
  <2> QED BY <2>4, <2>6, <2>7
<1> QED BY <1>4, <1>5 DEF AutoRejects

\* The close of an old connection completes: its caller dials, or goes on without.
LEMMA CloseKeepsOn ==
  ASSUME RecInv(s, stack), CloseCompletes
  PROVE  RecInv(s, stack)'
<1>1. RecInv(s, <<>>) /\ Typed(s, <<>>) /\ DOMAIN s = Fields /\ s.gen \in Nat /\ s.link \in Nat
  BY DEF CloseCompletes, Idle, RecInv, Typed
<1>2. PICK c \in s.calls :
        LET x == [s EXCEPT !.calls = @ \ {c}] IN
        /\ c.phase = "closing"
        /\ Become(IF c.by = "transfer" \/ x.gen = c.gen THEN Connect(x, c.by, c.id, c.plan)
                  ELSE AutoResolves(x, c), <<>>)
  BY DEF CloseCompletes
<1> DEFINE x == [s EXCEPT !.calls = @ \ {c}]
<1>3. Same(s, x, {"calls"}) /\ x.calls = s.calls \ {c} /\ DOMAIN x = Fields /\ x.gen = s.gen
      /\ x.link = s.link
  BY <1>1 DEF Same, Fields
<1>4. c.by \in {"auto", "transfer"} /\ ~Stray(s, c) BY <1>1, <1>2, IdleFacts DEF Typed
<1>5. stack' = <<>> /\ s' = IF c.by = "transfer"
      \/ x.gen = c.gen THEN Connect(x, c.by, c.id, c.plan)
                            ELSE AutoResolves(x, c)
  BY <1>2 DEF Become
<1> HIDE DEF x
<1>6. CASE c.by = "transfer" \/ x.gen = c.gen
  <2> DEFINE y == Connect(x, c.by, c.id, c.plan)
             n == NewCall(c.by, c.id, "dialing", x.gen + 1, c.plan)
  <2>1. Same(x, y, {"gen", "calls"}) /\ y.gen = x.gen + 1 /\ y.calls = x.calls \cup {n}
    BY <1>3, ConnectIs
  <2>3. n \in CallRecord /\ n.by = c.by /\ n.id = c.id /\ n.plan = c.plan /\ n.phase = "dialing"
        /\ n.gen = s.gen + 1
    BY <1>1, <1>3, <1>4, TypeFacts DEF NewCall, CallRecord
  <2>4. c.by = "auto" => c.id = s.token BY <1>3, <1>4, <1>6 DEF Stray
  <2> HIDE DEF y, n
  <2>6. RecInv(y, <<>>) BY <1>1, <1>4, <2>3, <2>4, RedialKeeps, <1>3, <2>1 DEF Same, Fields
  <2> QED BY <1>5, <1>6, <2>6 DEF y
<1>7. CASE ~(c.by = "transfer" \/ x.gen = c.gen)
  BY <1>1, <1>3, <1>4, <1>7, AutoKeeps, <1>5 DEF Same
<1> QED BY <1>6, <1>7

\* A dial is set up, whoever began it.
LEMMA SuccessKeeps ==
  ASSUME RecInv(s, stack), DialSucceeds
  PROVE  RecInv(s, stack)'
<1>1. RecInv(s, <<>>) /\ DOMAIN s = Fields BY DEF DialSucceeds, Idle, RecInv, Typed
<1>2. PICK c \in s.calls :
        LET x == [s EXCEPT !.calls = @ \ {c}, !.link = c.gen, !.alive = TRUE] IN
        /\ c.phase = "dialing" /\ c.gen = s.gen
        /\ \/ c.by = "first" /\ FirstDialSettles(x, TRUE)
           \/ c.by = "auto" /\ Become(AutoResolves(x, c), <<>>)
           \/ c.by = "host" /\ FinishDial(x, c.id, TRUE)
           \/ c.by = "transfer" /\ TransferSettles(x, TRUE)
  BY DEF DialSucceeds
<1> DEFINE x == [s EXCEPT !.calls = @ \ {c}, !.link = c.gen, !.alive = TRUE]
<1>3. Same(s, x, {"calls", "link", "alive"}) /\ x.calls = s.calls \ {c} /\ x.link = c.gen
      /\ x.gen = s.gen
  BY <1>1 DEF Same, Fields
<1>4. c.gen \in Nat /\ c.gen = s.gen /\ ~Stray(s, c) BY <1>1, <1>2, IdleFacts
<1>5. \/ c.by = "first" /\ FirstDialSettles(x, TRUE)
      \/ c.by = "auto" /\ Become(AutoResolves(x, c), <<>>)
      \/ c.by = "host" /\ FinishDial(x, c.id, TRUE)
      \/ c.by = "transfer" /\ TransferSettles(x, TRUE)
  BY <1>2
<1> HIDE DEF x
<1>6. Dropped(s, c, x, TRUE) BY <1>3, <1>4 DEF Dropped, Same
<1>7. CASE c.by = "auto" /\ Become(AutoResolves(x, c), <<>>)
  BY <1>4, <1>7, <1>1, <1>3, AutoKeeps DEF Stray, Become
<1>8. CASE c.by = "first" /\ FirstDialSettles(x, TRUE) BY <1>1, <1>6, <1>8, FirstSettles
<1>9. CASE c.by = "host" /\ FinishDial(x, c.id, TRUE) BY <1>1, <1>6, <1>9, HostSettles
<1>10. CASE c.by = "transfer" /\ TransferSettles(x, TRUE) BY <1>1, <1>6, <1>10, TransferEnds
<1> QED BY <1>5, <1>7, <1>8, <1>9, <1>10

\* A dial fails, times out or was superseded.
LEMMA FailureKeeps ==
  ASSUME RecInv(s, stack), DialFails
  PROVE  RecInv(s, stack)'
<1>1. RecInv(s, <<>>) /\ DOMAIN s = Fields /\ s.gen \in Nat /\ s.link \in Nat
  BY DEF DialFails, Idle, RecInv, Typed
<1>2. PICK c \in s.calls, failure \in Failures :
        LET dropped == [s EXCEPT !.calls = @ \ {c}]
            x == IF c.gen = s.gen THEN AbortIncumbent(dropped) ELSE dropped
        IN /\ c.phase = "dialing"
           /\ \/ c.by = "first" /\ FirstDialSettles(x, FALSE)
              \/ c.by = "auto" /\ AutoRejects(x, c, failure)
              \/ c.by = "host" /\ FinishDial(x, c.id, FALSE)
              \/ c.by = "transfer" /\ TransferSettles(x, FALSE)
  BY DEF DialFails
<1> DEFINE dropped == [s EXCEPT !.calls = @ \ {c}]
           x == IF c.gen = s.gen THEN AbortIncumbent(dropped) ELSE dropped
<1>3. \/ c.by = "first" /\ FirstDialSettles(x, FALSE)
      \/ c.by = "auto" /\ AutoRejects(x, c, failure)
      \/ c.by = "host" /\ FinishDial(x, c.id, FALSE)
      \/ c.by = "transfer" /\ TransferSettles(x, FALSE)
  BY <1>2
<1>4. Same(s, dropped, {"calls"}) /\ dropped.calls = s.calls \ {c} BY <1>1 DEF Same, Fields
<1> HIDE DEF dropped
<1>5. DOMAIN dropped = Fields /\ dropped.gen = s.gen /\ dropped.link = s.link
  BY <1>4 DEF Same, Fields
<1>6. Same(dropped, x, {"link", "alive", "gen"}) /\ x.link \in {0, s.link}
      /\ x.gen \in {s.gen, s.gen + 1}
  <2>1. CASE c.gen = s.gen BY <1>5, <2>1, AbortIs
  <2>2. CASE c.gen # s.gen BY <1>5, <2>2 DEF Same
  <2> QED BY <2>1, <2>2
<1> HIDE DEF x
<1>8. Dropped(s, c, x, FALSE) BY <1>1, <1>6, <1>4 DEF Dropped, Same, Fields
<1>9. CASE c.by = "auto" /\ AutoRejects(x, c, failure) BY <1>1, <1>8, <1>9, AutoFails
<1>10. CASE c.by = "first" /\ FirstDialSettles(x, FALSE) BY <1>1, <1>8, <1>10, FirstSettles
<1>11. CASE c.by = "host" /\ FinishDial(x, c.id, FALSE) BY <1>1, <1>8, <1>11, HostSettles
<1>12. CASE c.by = "transfer" /\ TransferSettles(x, FALSE) BY <1>1, <1>8, <1>12, TransferEnds
<1> QED BY <1>3, <1>9, <1>10, <1>11, <1>12

\* Every step keeps the invariant.
LEMMA StepKeeps ==
  ASSUME ~Reentrant, RecInv(s, stack), Next
  PROVE  RecInv(s, stack)'
<1>1. CASE Start BY <1>1, StartKeeps
<1>2. CASE RunFrame BY <1>2, FramesKeep
<1>3. CASE BackoffFires BY <1>3, BackoffKeeps
<1>4. CASE DeadlineFires BY <1>4, DeadlineKeeps
<1>5. CASE CloseCompletes BY <1>5, CloseKeepsOn
<1>6. CASE DialSucceeds BY <1>6, SuccessKeeps
<1>7. CASE DialFails BY <1>7, FailureKeeps
<1>8. CASE FinishClose BY <1>8, FinishKeeps
<1>9. CASE TearDown BY <1>9, TearDownKeeps
<1>10. CASE ConnectionLost BY <1>10, LostKeeps
<1>11. CASE GoAway \/ CredentialExpires BY <1>11, WarningsKeep
<1>12. CASE ResumptionUpdate \/ TurnCompletes BY <1>12, UpdatesKeep
<1>13. CASE RecoverUpstream BY <1>13, RecoverKeeps
<1>14. CASE ParkUpstream BY <1>14, ParkUpstreamKeeps
<1>15. CASE HostCloses BY <1>15, ClosesKeep
<1>16. CASE Transfer BY <1>16, TransferKeeps
<1> QED BY <1>1, <1>2, <1>3, <1>4, <1>5, <1>6, <1>7, <1>8, <1>9, <1>10, <1>11, <1>12, <1>13,
     <1>14, <1>15, <1>16
  DEF Next, Internal, External, Timer, DialSettles

\* The invariant holds in every state, for any policies, limits and number of attempts,
\* recoveries and events, where the subscribers of an automatic reconnect do not call
\* the session back from its own announcements.
THEOREM RecoveryInductive ==
  ASSUME ~Reentrant
  PROVE  Spec => []RecInv(s, stack)
<1>1. RecInv(s, stack) /\ [Next]_vars => RecInv(s, stack)'
  <2> SUFFICES ASSUME RecInv(s, stack), [Next]_vars PROVE RecInv(s, stack)' OBVIOUS
  <2>1. CASE Next BY <2>1, StepKeeps
  <2>2. CASE UNCHANGED vars BY <2>2 DEF vars
  <2> QED BY <2>1, <2>2
<1> QED BY <1>1, InitKeeps, PTL DEF Spec

\* What the invariant says of the drivers.
LEMMA OneDriverHolds ==
  ASSUME RecInv(s, stack)
  PROVE  OneDriver
<1> SUFFICES ASSUME stack = <<>>, ~s.closing
             PROVE  Cardinality(Drivers) = IF s.state = "RECONNECTING" THEN 1 ELSE 0
  BY DEF OneDriver, Idle
<1> DEFINE A == {<<"backoff", plan>> : plan \in s.backoff}
           B == {<<"auto", c.id>> : c \in {c \in s.calls : c.by = "auto" /\ c.id = s.token
             /\ s.attemptInFlight}}
           C == {<<"host", c.id>> : c \in {c \in s.calls : c.by = "host" /\ c.id = s.inFlight}}
<1>1. Typed(s, <<>>) /\ Attempts(s, <<>>) /\ Recoveries(s, <<>>) /\ Driven(s, <<>>) BY DEF RecInv
<1>2. Drivers = A \cup B \cup C BY DEF Drivers
<1>3. \A p, q \in s.backoff : p = q BY <1>1 DEF Attempts
<1>4. /\ s.attemptInFlight \/ s.backoff # {} => s.state \in {"RECONNECTING", "CLOSED"}
           /\ s.inFlight = 0
      /\ ~(s.attemptInFlight /\ s.backoff # {})
  BY <1>1 DEF Attempts
<1>5. s.attemptInFlight => \E c \in s.calls : c.by = "auto" /\ c.id = s.token
  BY <1>1 DEF Attempts, AutoCalls
<1>6. s.inFlight # 0 => s.state \in {"RECONNECTING", "CLOSED"}
      /\ \E c \in s.calls : c.by = "host" /\ c.id = s.inFlight
  BY IdleCalm, CalmFacts, <1>1 DEF Recoveries
<1>7. s.state # "CLOSED" BY <1>1 DEF Typed
<1>8. s.state = "RECONNECTING" => s.backoff # {} \/ s.attemptInFlight \/ s.inFlight # 0
  BY Emptied, <1>1 DEF Top, Driven
<1>9. \A c \in s.calls : c.by = "host" => c.id # 0 BY <1>1 DEF Typed
<1>10. CASE s.backoff # {}
  <2>1. PICK p \in s.backoff : s.backoff = {p} BY <1>3, <1>10
  <2>3. Drivers = {<<"backoff", p>>} /\ s.state = "RECONNECTING"
    BY <1>2, <1>4, <1>7, <1>10, <1>9, <2>1
  <2> QED BY <2>3, FS_Singleton
<1>11. CASE s.attemptInFlight
  <2>2. Drivers = {<<"auto", s.token>>} /\ s.state = "RECONNECTING"
    BY <1>2, <1>4, <1>7, <1>11, <1>5, <1>9
  <2> QED BY <2>2, FS_Singleton
<1>12. CASE s.inFlight # 0
  <2>2. Drivers = {<<"host", s.inFlight>>} /\ s.state = "RECONNECTING"
    BY <1>2, <1>6, <1>7, <1>12, <1>4
  <2> QED BY <2>2, FS_Singleton
<1>13. CASE ~(s.backoff # {} \/ s.attemptInFlight \/ s.inFlight # 0)
  BY <1>9, <1>13, <1>2, <1>8, FS_EmptySet
<1> QED BY <1>10, <1>11, <1>12, <1>13

\* The books of the reconnects follow from it.
LEMMA BooksHold ==
  ASSUME RecInv(s, stack)
  PROVE  RecoveryBooksAreKept
<1>1. OneDriver BY OneDriverHolds
<1>2. BufferingEnds BY IdleFacts DEF BufferingEnds, Idle
<1>3. DialWindowExact
  <2> SUFFICES ASSUME stack = <<>>, ~s.closing
               PROVE  s.dialWindow <=> s.state = "UPSTREAM_LOST" \/ s.inFlight # 0
    BY DEF DialWindowExact, Idle
  <2> QED BY IdleCalm, CalmFacts, Emptied DEF Holds, RecInv
<1>4. BudgetCountsLosses
  <2> SUFFICES ASSUME stack = <<>>, ~s.closing, s.state = "ACTIVE"
               PROVE  s.attempts = s.lossSpent
    BY DEF BudgetCountsLosses, Idle
  <2> QED BY IdleCalm, CalmFacts DEF Budget, RecInv
<1> QED BY <1>1, <1>2, <1>3, <1>4 DEF RecoveryBooksAreKept

\* RecoveryBooksAreKept: one driver redials, no buffering and no hold is left behind,
\* and the budget counts what losses spent, through hand-overs between reconnect and
\* host.
THEOREM RecoveryBooksKept ==
  ASSUME ~Reentrant
  PROVE  Spec => []RecoveryBooksAreKept
BY RecoveryInductive, BooksHold, PTL

\* No connection is installed, and no recovery activates.
Steady(x, y) ==
  /\ DOMAIN y = Fields /\ y.link \in {0, x.link} /\ Len(y.recoveries) = Len(x.recoveries)
  /\ \A r \in 1..Len(x.recoveries) :
       y.recoveries[r].outcome = x.recoveries[r].outcome \/ y.recoveries[r].outcome = "rejected"

\* Two such steps in a row are one.
LEMMA SteadyTwice ==
  ASSUME NEW x, NEW y, NEW z, Steady(x, y), Steady(y, z)
  PROVE  Steady(x, z)
BY DEF Steady

\* A step that leaves the recoveries alone, and the link or none.
LEMMA SteadyAlike ==
  ASSUME NEW x, NEW y, DOMAIN y = Fields, y.recoveries = x.recoveries, y.link = 0
         \/ y.link = x.link
  PROVE  Steady(x, y)
BY DEF Steady

\* The functions of the transport and of the close are such steps,
LEMMA SteadyParts ==
  ASSUME NEW x, DOMAIN x = Fields
  PROVE  /\ Steady(x, x) /\ Steady(x, AbortIncumbent(x)) /\ Steady(x, DisconnectTransport(x))
         /\ Steady(x, AbandonAttempt(x)) /\ Steady(x, CloseWithReason(x)) /\ Steady(x, Close(x))
         /\ Steady(x, OpenWindow(x)) /\ Steady(x, EnterReconnecting(x))
         /\ \A r : Steady(x, Release(x, r))
<1>1. Steady(x, x) BY SteadyAlike
<1>2. Steady(x, AbortIncumbent(x)) BY AbortIs, SteadyAlike DEF Same, Fields
<1>3. Steady(x, DisconnectTransport(x)) BY DisconnectIs, SteadyAlike DEF Same, Fields
<1>4. Steady(x, AbandonAttempt(x))
  <2>1. LET y == AbandonAttempt(x) IN DOMAIN y = Fields /\ y.recoveries = x.recoveries
        /\ y.link = 0
    BY AbandonIs DEF Same, Fields
  <2> QED BY <2>1, SteadyAlike
<1>5. Steady(x, CloseWithReason(x))
  <2>1. LET y == CloseWithReason(x) IN DOMAIN y = Fields /\ y.recoveries = x.recoveries
        /\ y.link = x.link
    BY CloseReasonIs DEF Same, Fields
  <2> QED BY <2>1, SteadyAlike
<1>6. Steady(x, Close(x))
  <2> DEFINE y == Close(x)
  <2>1. /\ Same(x, y, {"link", "alive", "gen", "token", "attemptInFlight", "backoff", "closing",
             "disposed"})
        /\ x.attemptInFlight => y.link = 0
        /\ ~x.attemptInFlight => y.link = x.link
    BY CloseIs
  <2> HIDE DEF y
  <2>3. Steady(x, y) BY <2>1, SteadyAlike DEF Same, Fields
  <2> QED BY <2>3 DEF y
<1>7. Steady(x, OpenWindow(x))
  <2>1. LET y == OpenWindow(x) IN DOMAIN y = Fields /\ y.recoveries = x.recoveries
        /\ y.link = x.link
    BY WindowIs DEF Same, Fields
  <2> QED BY <2>1, SteadyAlike
<1>8. Steady(x, EnterReconnecting(x)) BY SteadyAlike DEF EnterReconnecting, Fields
<1>9. ASSUME NEW r PROVE Steady(x, Release(x, r)) BY ReleaseIs, SteadyAlike DEF Same, Fields
<1> QED BY <1>1, <1>2, <1>3, <1>4, <1>5, <1>6, <1>7, <1>8, <1>9

\* so are the park and giving up,
LEMMA SteadyParks ==
  ASSUME NEW x, DOMAIN x = Fields
  PROVE  Steady(x, ParkUpstreamLost(x)) /\ Steady(x, GiveUp(x))
<1> DEFINE y == ParkUpstreamLost(x)
<1>1. Steady(x, y)
  <2>1. CASE Parks(x)
    <3>1. Same(x, y, {"link", "alive", "gen", "token", "attemptInFlight", "backoff",
                      "clientBuffering", "buffering", "state", "dialWindow"})
          /\ (y.link = 0 \/ y.link = x.link)
      BY <2>1, ParkIs
    <3> HIDE DEF y
    <3> QED BY <3>1, SteadyAlike DEF Same, Fields
  <2>2. CASE ~Parks(x) BY <2>2, ParkIs, SteadyParts
  <2> QED BY <2>1, <2>2
<1> QED BY <1>1, SteadyParts DEF GiveUp

\* every way to begin a dial,
LEMMA SteadyDials ==
  ASSUME NEW x, DOMAIN x = Fields, NEW plan
  PROVE  /\ Steady(x, ScheduleBudgetedDial(x, plan))
         /\ \A by, id : Steady(x, Connect(x, by, id, plan))
         /\ x.gen \in Nat => /\ Steady(x, RunReconnect(x, plan))
                             /\ \A by, id : Steady(x, DisconnectThenConnect(x, by, id, plan))
<1>1. Steady(x, ScheduleBudgetedDial(x, plan))
  <2> DEFINE y == ScheduleBudgetedDial(x, plan)
  <2>1. Same(x, y, {"attempts", "lossSpent", "backoff"}) BY ScheduleIs
  <2> HIDE DEF y
  <2>3. Steady(x, y) BY SteadyAlike, <2>1 DEF Same, Fields
  <2> QED BY <2>3 DEF y
<1>2. ASSUME NEW by, NEW id PROVE Steady(x, Connect(x, by, id, plan))
  BY ConnectIs, SteadyAlike DEF Same, Fields
<1>3. ASSUME x.gen \in Nat PROVE Steady(x, RunReconnect(x, plan))
  <2> DEFINE y == RunReconnect(x, plan)
  <2>1. Same(x, y, {"token", "attemptInFlight", "link", "alive", "gen", "calls"}) /\ y.link = 0
    BY <1>3, RunIs
  <2> HIDE DEF y
  <2>3. Steady(x, y) BY <2>1, SteadyAlike DEF Same, Fields
  <2> QED BY <2>3 DEF y
<1>4. ASSUME x.gen \in Nat, NEW by, NEW id PROVE Steady(x, DisconnectThenConnect(x, by, id, plan))
  <2> DEFINE y == DisconnectThenConnect(x, by, id, plan)
  <2>1. Same(x, y, {"link", "alive", "gen", "calls"}) /\ y.link = 0 BY <1>4, DialIs
  <2> HIDE DEF y
  <2>3. Steady(x, y) BY <2>1, SteadyAlike DEF Same, Fields
  <2> QED BY <2>3 DEF y
<1> QED BY <1>1, <1>2, <1>3, <1>4

\* and every end of a recovery but its success.
LEMMA SteadyEnds ==
  ASSUME NEW x, DOMAIN x = Fields, x.recoveries \in Seq(RecoveryRecord),
         NEW r \in 1..Len(x.recoveries)
  PROVE  /\ Steady(x, EndClientBuffering(x, r)) /\ Steady(x, RejectAttempt(x, r))
              /\ Steady(x, Stop(x, r))
         /\ Steady(x, [x EXCEPT !.recoveries[r].settled = TRUE])
         /\ Steady(x, [x EXCEPT !.recoveries[r].outcome = "rejected"])
<1>1. Steady(x, EndClientBuffering(x, r))
  <2> DEFINE y == EndClientBuffering(x, r)
  <2>1. Same(x, y, {"recoveries", "buffering"})
        /\ SameRecs(x.recoveries, y.recoveries, r, {"owns"})
    BY EndIs
  <2> HIDE DEF y
  <2>3. Steady(x, y) BY <2>1 DEF Steady, SameRecs, Same, Fields
  <2> QED BY <2>3 DEF y
<1>2. Steady(x, RejectAttempt(x, r))
  <2> DEFINE y == RejectAttempt(x, r)
  <2>1. Same(x, y, {"recoveries", "buffering"})
        /\ SameRecs(x.recoveries, y.recoveries, r, {"owns", "outcome"})
        /\ y.recoveries[r].outcome = "rejected"
    BY RejectIs
  <2> HIDE DEF y
  <2>3. Steady(x, y) BY <2>1 DEF Steady, SameRecs, Same, Fields
  <2> QED BY <2>3 DEF y
<1>3. Steady(x, Stop(x, r))
  <2> DEFINE y == Stop(x, r)
  <2>1. Superseded(x, r, y) BY StopIs
  <2> HIDE DEF y
  <2>2. Steady(x, y) BY <2>1 DEF Superseded, Steady, SameRecs, Same, Fields
  <2> QED BY <2>2 DEF y
<1>4. Steady(x, [x EXCEPT !.recoveries[r].settled = TRUE])
  <2> DEFINE b == [x.recoveries EXCEPT ![r].settled = TRUE]
             y == [x EXCEPT !.recoveries = b]
  <2>1. SameRecs(x.recoveries, b, r, {"settled"}) BY RecordIs
  <2> HIDE DEF b
  <2>2. DOMAIN y = Fields /\ y.link = x.link /\ y.recoveries = b BY DEF Fields
  <2> HIDE DEF y
  <2>3. Steady(x, y) BY <2>1, <2>2 DEF Steady, SameRecs
  <2> QED BY <2>3 DEF y, b
<1>5. Steady(x, [x EXCEPT !.recoveries[r].outcome = "rejected"])
  <2> DEFINE b == [x.recoveries EXCEPT ![r].outcome = "rejected"]
             y == [x EXCEPT !.recoveries = b]
  <2>1. SameRecs(x.recoveries, b, r, {"outcome"}) /\ b[r].outcome = "rejected" BY RecordIs
  <2> HIDE DEF b
  <2>2. DOMAIN y = Fields /\ y.link = x.link /\ y.recoveries = b BY DEF Fields
  <2> HIDE DEF y
  <2>3. Steady(x, y) BY <2>1, <2>2 DEF Steady, SameRecs
  <2> QED BY <2>3 DEF y, b
<1> QED BY <1>1, <1>2, <1>3, <1>4, <1>5

\* A frame that runs installs nothing and activates nothing, unless it is the drain.
LEMMA SteadyFrames ==
  ASSUME RecInv(s, stack), RunFrame
  PROVE  \/ Steady(s, s')
         \/ /\ Head(stack).kind = "drained" /\ ~MustStop(s, Head(stack).id)
            /\ s' = [Release(s, Head(stack).id) EXCEPT !.recoveries[Head(stack).id].outcome = "activated"]
<1> DEFINE f == Head(stack)
<1>1. Typed(s, stack) /\ DOMAIN s = Fields /\ stack # <<>> /\ s.gen \in Nat
      /\ s.recoveries \in Seq(RecoveryRecord)
  BY DEF RunFrame, RecInv, Typed
<1>2. Steady(s, s) /\ Steady(s, ParkUpstreamLost(s)) /\ Steady(s, GiveUp(s))
      /\ Steady(s, EnterReconnecting(s))
      /\ Steady(s, DisconnectTransport(s)) /\ Steady(s, AbortIncumbent(s))
              /\ Steady(s, OpenWindow(s))
  BY <1>1, SteadyParts, SteadyParks
<1>3. ASSUME f.kind \in HostKinds \cup {"failed"}
      PROVE  f.id \in 1..Len(s.recoveries)
  BY <1>1, <1>3, HostFrame
<1>4. CASE f.kind = "first" /\ FirstDial(s) BY <1>4, <1>1, <1>2, SteadyDials DEF FirstDial, Become
<1>5. CASE f.kind = "window" /\ WindowOpens(s)
  <2> DEFINE w == OpenWindow(s)
  <2>1. s' = ScheduleBudgetedDial(w, [NoPlan EXCEPT !.handle = TRUE])
    BY <1>5 DEF WindowOpens, Become
  <2>2. Steady(s, w) /\ DOMAIN w = Fields BY <1>2 DEF Steady
  <2> HIDE DEF w
  <2>3. Steady(w, s') BY <2>1, <2>2, SteadyDials
  <2> QED BY <2>2, <2>3, SteadyTwice
<1>6. CASE f.kind = "planned" /\ PlannedWindowOpens(s, f.plan)
  <2> DEFINE w == OpenWindow(s)
             p == [f.plan EXCEPT !.planned = TRUE]
  <2>1. s' = RunReconnect(w, p) BY <1>6 DEF PlannedWindowOpens, Become
  <2>2. w.gen \in Nat BY <1>1, WindowIs DEF Same, Fields
  <2>3. Steady(s, w) /\ DOMAIN w = Fields BY <1>2 DEF Steady
  <2> HIDE DEF w, p
  <2>4. Steady(w, s') BY <2>1, <2>2, <2>3, SteadyDials
  <2> QED BY <2>3, <2>4, SteadyTwice
<1>7. CASE f.kind = "freshPlanned" /\ FreshRotationGoesOn(s)
  BY <1>2, <1>7 DEF FreshRotationGoesOn, Become
<1>8. CASE f.kind = "freshDial" /\ FreshDialGoesOn(s, f.id, f.plan)
  BY <1>8, <1>1, <1>2, SteadyDials DEF FreshDialGoesOn, Become
<1>9. CASE f.kind = "expired" /\ ExpiredConnectionCloses(s, f.id)
  <2> DEFINE a == AbortIncumbent(s)
  <2>1. \/ s' = s \/ s' = a \/ s' = ParkUpstreamLost(a) \/ s' = EnterReconnecting(a)
             \/ s' = GiveUp(a)
    BY <1>9 DEF ExpiredConnectionCloses, TriggerReconnect, Become
  <2>2. Steady(s, a) /\ DOMAIN a = Fields BY <1>2 DEF Steady
  <2> HIDE DEF a
  <2> QED BY <1>2, <2>1, <2>2, SteadyTwice, SteadyParts, SteadyParks
<1>10. CASE f.kind = "report" /\ Become(GiveUp(s), Tail(stack)) BY <1>2, <1>10 DEF Become
<1>11. CASE f.kind = "parked" /\ Become(DisconnectTransport(s), Tail(stack))
  BY <1>2, <1>11 DEF Become
<1>12. CASE f.kind = "failed" /\ RecoveryFailed(s, f.id)
  <2> DEFINE e == EndClientBuffering(s, f.id)
  <2>1. s' = ParkUpstreamLost(e) \/ s' = e BY <1>12 DEF RecoveryFailed, Become
  <2>2. Steady(s, e) BY <1>1, <1>3, <1>12, SteadyEnds
  <2> HIDE DEF e
  <2> QED BY <2>1, <2>2, SteadyTwice, SteadyParks DEF Steady
<1>13. CASE f.kind = "boundary" /\ BoundaryCrossed(s, f.id)
  <2> DEFINE e == [s EXCEPT !.recoveries[f.id].settled = TRUE]
  <2>1. s' = Stop(s, f.id) \/ s' = AbortIncumbent(e) BY <1>13 DEF BoundaryCrossed, Become
  <2>2. Steady(s, e) /\ Steady(s, Stop(s, f.id)) BY <1>1, <1>3, <1>13, SteadyEnds DEF HostKinds
  <2> HIDE DEF e
  <2>3. Steady(e, AbortIncumbent(e)) BY <2>2, SteadyParts DEF Steady
  <2> QED BY <2>1, <2>2, <2>3, SteadyTwice
<1>14. CASE f.kind = "aborted" /\ IncumbentAborted(s, f.id)
  BY <1>14, <1>1, <1>3, SteadyEnds, <1>2 DEF IncumbentAborted, Become, HostKinds
<1>15. CASE f.kind = "announced" /\ BoundaryAnnounced(s, f.id)
  <2> DEFINE y == [s EXCEPT !.handle = FALSE]
  <2>1. s' = Stop(y, f.id) \/ s' = Connect(y, "host", f.id, NoPlan)
    BY <1>15 DEF BoundaryAnnounced, Become
  <2>2. DOMAIN y = Fields /\ y.recoveries = s.recoveries /\ y.link = s.link BY <1>1 DEF Fields
  <2> HIDE DEF y
  <2>3. Steady(s, y) BY <2>2, SteadyAlike
  <2>4. Steady(y, Stop(y, f.id)) /\ Steady(y, Connect(y, "host", f.id, NoPlan))
    BY <1>1, <1>3, <1>15, <2>2, SteadyEnds, SteadyDials DEF HostKinds
  <2> QED BY <2>1, <2>3, <2>4, SteadyTwice
<1>16. CASE f.kind = "activated" /\ Activated(s, f.id)
  <2> DEFINE y == [s EXCEPT !.attempts = 0, !.lossSpent = 0, !.dialWindow = FALSE]
  <2>1. s' = Stop(s, f.id) \/ s' = y BY <1>16 DEF Activated, Become
  <2>2. DOMAIN y = Fields /\ y.recoveries = s.recoveries /\ y.link = s.link BY <1>1 DEF Fields
  <2> HIDE DEF y
  <2>3. Steady(s, y) BY <2>2, SteadyAlike
  <2> QED BY <2>1, <2>3, <1>1, <1>3, <1>16, SteadyEnds DEF HostKinds
<1>17. CASE f.kind = "drained" /\ Drained(s, f.id)
  BY <1>1, <1>3, <1>17, SteadyEnds DEF HostKinds, Drained, Become
<1> QED BY <1>4, <1>5, <1>6, <1>7, <1>8, <1>9, <1>10, <1>11, <1>12, <1>13, <1>14, <1>15,
           <1>16, <1>17 DEF RunFrame

\* triggerReconnect installs nothing.
LEMMA SteadyTrigger ==
  ASSUME NEW x, DOMAIN x = Fields, NEW rest, TriggerReconnect(x, rest)
  PROVE  Steady(x, s')
<1> QED BY SteadyParts, SteadyParks DEF TriggerReconnect, Become

\* Nor does anything the host or the server does.
LEMMA SteadyCalls ==
  ASSUME RecInv(s, stack),
         \/ ConnectionLost \/ GoAway \/ CredentialExpires \/ ResumptionUpdate \/ TurnCompletes
         \/ ParkUpstream \/ HostCloses \/ Transfer \/ Start \/ FinishClose \/ TearDown
  PROVE  Steady(s, s')
<1>1. Typed(s, stack) /\ DOMAIN s = Fields /\ s.gen \in Nat
      /\ s.recoveries \in Seq(RecoveryRecord)
  BY DEF RecInv, Typed
<1>2. Steady(s, s) /\ Steady(s, EnterReconnecting(s)) /\ Steady(s, Close(s))
      /\ Steady(s, DisconnectTransport(s))
  BY <1>1, SteadyParts
<1>3. CASE ConnectionLost
  <2> DEFINE y == [s EXCEPT !.alive = FALSE]
  <2>1. TriggerReconnect(y, <<>>) \/ TriggerReconnect(s, <<>>) BY <1>3 DEF ConnectionLost
  <2>2. DOMAIN y = Fields /\ y.recoveries = s.recoveries /\ y.link = s.link BY <1>1 DEF Fields
  <2> HIDE DEF y
  <2>3. Steady(s, y) BY <2>2, SteadyAlike
  <2> QED BY <1>1, <2>1, <2>2, <2>3, SteadyTrigger, SteadyTwice
<1>4. CASE GoAway \/ CredentialExpires
  BY <1>2, <1>4 DEF GoAway, CredentialExpires, ReconnectBeforeClose, Become
<1>5. CASE ResumptionUpdate \/ TurnCompletes \/ Start \/ FinishClose
  <2>1. DOMAIN s' = Fields /\ s'.recoveries = s.recoveries /\ s'.link = s.link
    BY <1>1, <1>5 DEF ResumptionUpdate, TurnCompletes, Start, FinishClose, Become, Fields
  <2> QED BY <2>1, SteadyAlike
<1>6. CASE ParkUpstream
  <2> DEFINE a == [s EXCEPT !.inFlight = 0]
             x == IF s.inFlight = 0 THEN s ELSE EndClientBuffering(a, s.inFlight)
  <2>1. s' = ParkUpstreamLost(x) BY <1>6 DEF ParkUpstream, Become
  <2>2. Steady(s, x)
    <3>1. CASE s.inFlight = 0 BY <1>2, <3>1
    <3>2. CASE s.inFlight # 0
      <4>1. DOMAIN a = Fields /\ a.recoveries = s.recoveries /\ a.link = s.link BY <1>1 DEF Fields
      <4>2. s.inFlight \in 1..Len(s.recoveries) BY <1>1, <3>2 DEF Typed
      <4>3. x = EndClientBuffering(a, s.inFlight) BY <3>2
      <4> HIDE DEF a, x
      <4> QED BY SteadyTwice, <1>1, <4>1, <4>2, <4>3, SteadyAlike, SteadyEnds
    <3> QED BY <3>1, <3>2
  <2> HIDE DEF x
  <2> QED BY <2>1, <2>2, SteadyTwice, SteadyParks DEF Steady
<1>7. CASE HostCloses BY <1>2, <1>7 DEF HostCloses, Become
<1>8. CASE Transfer
  <2> DEFINE a == [s EXCEPT !.state = "TRANSFERRING", !.buffering = TRUE]
  <2>1. s' = DisconnectThenConnect(a, "transfer", 0, NoPlan) BY <1>8 DEF Transfer, Become
  <2>2. DOMAIN a = Fields /\ a.recoveries = s.recoveries /\ a.link = s.link /\ a.gen \in Nat
    BY <1>1 DEF Fields
  <2> HIDE DEF a
  <2> QED BY SteadyTwice, <2>1, <2>2, SteadyAlike, SteadyDials
<1>9. CASE TearDown
  <2> DEFINE d == DisconnectTransport(s)
  <2>1. s' = [d EXCEPT !.tornDown = TRUE] BY <1>9 DEF TearDown, Become
  <2>2. DOMAIN d = Fields BY <1>2 DEF Steady
  <2> HIDE DEF d
  <2> QED BY SteadyTwice, <1>2, SteadyAlike, <2>1, <2>2 DEF d, Fields
<1> QED BY <1>3, <1>4, <1>5, <1>6, <1>7, <1>8, <1>9

\* A failed attempt installs nothing,
LEMMA SteadyFails ==
  ASSUME NEW x, DOMAIN x = Fields, FailAttempt(x)
  PROVE  Steady(x, s')
<1>1. DOMAIN s' = Fields /\ s'.recoveries = x.recoveries /\ s'.link = x.link
  BY DEF FailAttempt, Become, Fields
<1> QED BY <1>1, SteadyAlike

\* nor does the resolution of a reconnect by itself.
LEMMA SteadyResolves ==
  ASSUME NEW x, DOMAIN x = Fields, NEW c
  PROVE  Steady(x, AutoResolves(x, c))
<1>1. LET y == AutoResolves(x, c) IN DOMAIN y = Fields /\ y.recoveries = x.recoveries
      /\ y.link = x.link
  BY DEF AutoResolves, Fields
<1> QED BY <1>1, SteadyAlike

\* Timers, and the close of an old connection.
LEMMA SteadyTimers ==
  ASSUME RecInv(s, stack), BackoffFires \/ DeadlineFires \/ CloseCompletes
  PROVE  Steady(s, s')
<1>1. DOMAIN s = Fields /\ s.gen \in Nat BY DEF RecInv, Typed
<1>2. CASE BackoffFires
  <2>1. PICK plan \in s.backoff :
          LET x == [s EXCEPT !.backoff = @ \ {plan}]
          IN s' = x \/ s' = ParkUpstreamLost(x) \/ s' = RunReconnect(x, plan)
    BY <1>2 DEF BackoffFires, Become
  <2> DEFINE x == [s EXCEPT !.backoff = @ \ {plan}]
  <2>2. DOMAIN x = Fields /\ x.recoveries = s.recoveries /\ x.link = s.link /\ x.gen \in Nat
    BY <1>1 DEF Fields
  <2>3. s' = x \/ s' = ParkUpstreamLost(x) \/ s' = RunReconnect(x, plan) BY <2>1
  <2> HIDE DEF x
  <2> QED BY <2>3, SteadyTwice, <2>2, SteadyAlike, SteadyParks, SteadyDials
<1>3. CASE DeadlineFires
  <2> DEFINE a == AbandonAttempt(s)
  <2>1. FailAttempt(a) /\ Steady(s, a) BY <1>1, <1>3, SteadyParts DEF DeadlineFires
  <2> HIDE DEF a
  <2> QED BY <2>1, SteadyFails, SteadyTwice DEF Steady
<1>4. CASE CloseCompletes
  <2>1. PICK c \in s.calls :
          LET x == [s EXCEPT !.calls = @ \ {c}]
          IN s' = Connect(x, c.by, c.id, c.plan) \/ s' = AutoResolves(x, c)
    BY <1>4 DEF CloseCompletes, Become
  <2> DEFINE x == [s EXCEPT !.calls = @ \ {c}]
  <2>2. DOMAIN x = Fields /\ x.recoveries = s.recoveries /\ x.link = s.link BY <1>1 DEF Fields
  <2>3. s' = Connect(x, c.by, c.id, c.plan) \/ s' = AutoResolves(x, c) BY <2>1
  <2> HIDE DEF x
  <2>4. Steady(s, x) BY <2>2, SteadyAlike
  <2> QED BY <2>3, <2>4, SteadyTwice, <2>2, SteadyDials, SteadyResolves
<1> QED BY <1>2, <1>3, <1>4

\* The rest of start() after its dial,
LEMMA SteadyFirstDial ==
  ASSUME NEW x, DOMAIN x = Fields, NEW ok, FirstDialSettles(x, ok)
  PROVE  Steady(x, s')
<1> DEFINE y == [x EXCEPT !.state = "ACTIVE"]
<1>1. s' = x \/ s' = y \/ s' = ParkUpstreamLost(x) \/ s' = Close(x) BY DEF FirstDialSettles, Become
<1>2. DOMAIN y = Fields /\ y.recoveries = x.recoveries /\ y.link = x.link BY DEF Fields
<1> HIDE DEF y
<1>3. Steady(x, y) BY <1>2, SteadyAlike
<1> QED BY <1>1, <1>3, SteadyParts, SteadyParks

\* of a transfer,
LEMMA SteadyTransfer ==
  ASSUME NEW x, DOMAIN x = Fields, NEW ok, TransferSettles(x, ok)
  PROVE  Steady(x, s')
<1>1. DOMAIN s' = Fields /\ s'.recoveries = x.recoveries /\ s'.link = x.link
  BY DEF TransferSettles, CloseWithReason, Become, Fields
<1> QED BY <1>1, SteadyAlike

\* of a reconnect that was rejected,
LEMMA SteadyRejects ==
  ASSUME NEW x, DOMAIN x = Fields, NEW c, NEW failure, AutoRejects(x, c, failure)
  PROVE  Steady(x, s')
<1> DEFINE y == [x EXCEPT !.attemptInFlight = FALSE]
           refused == failure = "refused" /\ c.plan.handle
           z == [y EXCEPT !.handle = @ /\ ~refused]
<1>1. s' = x \/ FailAttempt(y) \/ \E p : s' = ScheduleBudgetedDial(z, p) BY DEF AutoRejects, Become
<1>2. DOMAIN y = Fields /\ y.recoveries = x.recoveries /\ y.link = x.link BY DEF Fields
<1>3. DOMAIN z = Fields /\ z.recoveries = x.recoveries /\ z.link = x.link BY DEF Fields
<1> HIDE DEF y, z
<1> QED BY <1>1, SteadyTwice, <1>2, <1>3, SteadyAlike, SteadyFails, SteadyDials

\* and of a recovery, which drops the connection if it must stop.
LEMMA SteadyFinish ==
  ASSUME NEW x, DOMAIN x = Fields, x.recoveries \in Seq(RecoveryRecord),
         NEW r \in 1..Len(x.recoveries), NEW ok, FinishDial(x, r, ok)
  PROVE  Steady(x, s') /\ (ok /\ MustStop(x, r) => s'.link = 0)
<1> DEFINE a == Release(x, r)
           d == DisconnectTransport(a)
           e == EndClientBuffering(x, r)
           e2 == [e EXCEPT !.state = "ACTIVE"]
           f == [a EXCEPT !.recoveries[r].outcome = "rejected"]
<1>1. \/ MustStop(x, r) /\ ~ok /\ s' = RejectAttempt(a, r)
      \/ MustStop(x, r) /\ ok /\ s' = RejectAttempt(d, r)
      \/ ~MustStop(x, r) /\ (s' = e2 \/ s' = f)
  BY DEF FinishDial, FailRecovery, Become
<1>2. Steady(x, a) /\ DOMAIN a = Fields /\ a.recoveries = x.recoveries
  BY SteadyParts, ReleaseIs DEF Same, Fields
<1>3. Steady(x, e) /\ DOMAIN e = Fields BY SteadyEnds DEF Steady
<1> HIDE DEF a, e
<1>4. Steady(a, d) /\ DOMAIN d = Fields /\ d.recoveries = x.recoveries /\ d.link = 0
  BY <1>2, SteadyParts, DisconnectIs DEF Same, Fields
<1>5. Steady(a, f) /\ Steady(a, RejectAttempt(a, r)) BY <1>2, SteadyEnds
<1>6. DOMAIN e2 = Fields /\ e2.recoveries = e.recoveries /\ e2.link = e.link BY <1>3 DEF Fields
<1> HIDE DEF d, f, e2
<1>7. Steady(e, e2) BY <1>6, SteadyAlike
<1>8. Steady(d, RejectAttempt(d, r)) /\ RejectAttempt(d, r).link = 0
  <2> DEFINE y == RejectAttempt(d, r)
  <2>2. Same(d, y, {"recoveries", "buffering"}) /\ Steady(d, y) BY <1>4, RejectIs, SteadyEnds
  <2> HIDE DEF y
  <2> QED BY <1>4, <2>2 DEF y, Same, Fields
<1> QED BY <1>1, <1>2, <1>3, <1>4, <1>5, <1>7, <1>8, SteadyTwice

\* A dial that fails installs nothing.
LEMMA SteadyDialFails ==
  ASSUME RecInv(s, stack), DialFails
  PROVE  Steady(s, s')
<1>1. Typed(s, stack) /\ DOMAIN s = Fields /\ s.recoveries \in Seq(RecoveryRecord)
  BY DEF RecInv, Typed
<1>2. PICK c \in s.calls, failure \in Failures :
        LET dropped == [s EXCEPT !.calls = @ \ {c}]
            x == IF c.gen = s.gen THEN AbortIncumbent(dropped) ELSE dropped
        IN \/ c.by = "first" /\ FirstDialSettles(x, FALSE)
           \/ c.by = "auto" /\ AutoRejects(x, c, failure)
           \/ c.by = "host" /\ FinishDial(x, c.id, FALSE)
           \/ c.by = "transfer" /\ TransferSettles(x, FALSE)
  BY DEF DialFails
<1> DEFINE dropped == [s EXCEPT !.calls = @ \ {c}]
           x == IF c.gen = s.gen THEN AbortIncumbent(dropped) ELSE dropped
<1>3. \/ c.by = "first" /\ FirstDialSettles(x, FALSE)
      \/ c.by = "auto" /\ AutoRejects(x, c, failure)
      \/ c.by = "host" /\ FinishDial(x, c.id, FALSE)
      \/ c.by = "transfer" /\ TransferSettles(x, FALSE)
  BY <1>2
<1>4. DOMAIN dropped = Fields /\ dropped.recoveries = s.recoveries /\ dropped.link = s.link
  BY <1>1 DEF Fields
<1> HIDE DEF dropped
<1>6. Steady(s, x) BY SteadyTwice, <1>4, SteadyAlike, SteadyParts
<1>7. x.recoveries = s.recoveries BY <1>4, AbortIs DEF Same, Fields
<1>8. DOMAIN x = Fields BY <1>6 DEF Steady
<1>9. c.by = "host" => c.id \in 1..Len(s.recoveries) BY <1>1 DEF Typed
<1> HIDE DEF x
<1>10. Steady(x, s')
  BY <1>1, <1>3, <1>7, <1>8, <1>9, SteadyFirstDial, SteadyTransfer, SteadyRejects,
     SteadyFinish
<1> QED BY <1>6, <1>10, SteadyTwice

\* The step property of DialsLandWhereTheyBegan.
LandsAlready ==
  /\ \A r \in 1..Len(s.recoveries) :
       s'.recoveries[r].outcome = "activated" /\ s.recoveries[r].outcome = "pending"
         => s.state = "ACTIVE" /\ s.link = s.recoveries[r].epoch
  /\ s.state = "UPSTREAM_LOST" /\ s'.state = "UPSTREAM_LOST" => s'.link \in {0, s.link}

\* Such a step satisfies it.
LEMMA SteadyLands ==
  ASSUME Steady(s, s')
  PROVE  LandsAlready
BY DEF Steady, LandsAlready

\* A dial that is set up finds its own session waiting for it, or its link is dropped.
LEMMA DialLands ==
  ASSUME RecInv(s, stack), DialSucceeds
  PROVE  LandsAlready
<1>1. PICK c \in s.calls :
        LET x == [s EXCEPT !.calls = @ \ {c}, !.link = c.gen, !.alive = TRUE]
        IN /\ c.phase = "dialing" /\ c.gen = s.gen
           /\ \/ c.by = "first" /\ FirstDialSettles(x, TRUE)
              \/ c.by = "auto" /\ Become(AutoResolves(x, c), <<>>)
              \/ c.by = "host" /\ FinishDial(x, c.id, TRUE)
              \/ c.by = "transfer" /\ TransferSettles(x, TRUE)
  BY DEF DialSucceeds
<1> DEFINE x == [s EXCEPT !.calls = @ \ {c}, !.link = c.gen, !.alive = TRUE]
<1>2. \/ c.by = "first" /\ FirstDialSettles(x, TRUE)
      \/ c.by = "auto" /\ s' = AutoResolves(x, c)
      \/ c.by = "host" /\ FinishDial(x, c.id, TRUE)
      \/ c.by = "transfer" /\ TransferSettles(x, TRUE)
  BY <1>1 DEF Become
<1>3. stack = <<>> /\ RecInv(s, <<>>) BY DEF DialSucceeds, Idle
<1>4. Typed(s, stack) /\ Attempts(s, stack) /\ Starts(s, stack) /\ DOMAIN s = Fields
      /\ s.recoveries \in Seq(RecoveryRecord)
  BY DEF RecInv, Typed
<1>5. DOMAIN x = Fields /\ x.recoveries = s.recoveries /\ x.state = s.state
      /\ x.inFlight = s.inFlight
  BY <1>4 DEF Fields
<1> HIDE DEF x
<1>6. c.by = "host" => c.id \in 1..Len(s.recoveries) BY <1>4 DEF Typed
<1>7. Steady(x, s')
  BY <1>2, <1>4, <1>5, <1>6, SteadyFirstDial, SteadyTransfer, SteadyResolves, SteadyFinish
<1>8. s.state = "UPSTREAM_LOST" => s'.link = 0
  <2> SUFFICES ASSUME s.state = "UPSTREAM_LOST"
               PROVE  s'.link = 0
    OBVIOUS
  <2>1. ~Stray(s, c) BY <1>3, IdleFacts
  <2>2. c.by # "first" BY <1>1, <2>1 DEF Stray
  <2>3. c.by # "transfer" BY <1>4 DEF Starts
  <2>4. c.by # "auto"
    <3> SUFFICES ASSUME c.by = "auto"
                 PROVE  FALSE
      OBVIOUS
    <3> QED BY <1>4, <1>1, <2>1 DEF Attempts, Stray, AutoCalls
  <2>5. c.by = "host" /\ FinishDial(x, c.id, TRUE) BY <1>2, <2>2, <2>3, <2>4
  <2>6. s.inFlight # c.id BY <1>6, <2>5, <1>3, IdleFacts
  <2>7. MustStop(x, c.id) BY <1>5, <2>6 DEF MustStop
  <2> QED BY <1>4, <1>5, <1>6, <2>5, <2>7, SteadyFinish
<1> QED BY <1>5, <1>7, <1>8 DEF Steady, LandsAlready

\* A recovery that begins leaves those before it alone.
LEMMA RecoverLands ==
  ASSUME RecInv(s, stack), RecoverUpstream
  PROVE  LandsAlready
<1> DEFINE r == Len(s.recoveries) + 1
           rec == [epoch |-> AttemptEpoch(s), outcome |-> "pending", settled |-> FALSE,
                   owns |-> s.clientBuffering]
<1>1. DOMAIN s = Fields /\ s.recoveries \in Seq(RecoveryRecord) BY DEF RecInv, Typed
<1>2. s'.recoveries = Append(s.recoveries, rec) /\ s'.link = s.link
  BY <1>1 DEF RecoverUpstream, BeginHostRecovery, Become, Fields
<1> HIDE DEF rec
<1> QED BY <1>2, <1>1 DEF LandsAlready

\* The one that activates is in use, under the generation it promised.
LEMMA DrainLands ==
  ASSUME RecInv(s, stack), stack # <<>>, Head(stack).kind = "drained",
         ~MustStop(s, Head(stack).id),
         s' = [Release(s, Head(stack).id) EXCEPT !.recoveries[Head(stack).id].outcome = "activated"]
  PROVE  LandsAlready
<1> DEFINE f == Head(stack)
           b == [s.recoveries EXCEPT ![f.id].outcome = "activated"]
           a == Release(s, f.id)
<1>1. DOMAIN s = Fields /\ s.recoveries \in Seq(RecoveryRecord) BY DEF RecInv, Typed
<1>2. Same(s, a, {"inFlight"}) BY <1>1, ReleaseIs
<1>3. s' = [a EXCEPT !.recoveries[f.id].outcome = "activated"] OBVIOUS
<1> HIDE DEF a
<1>4. s'.recoveries = b /\ s'.link = s.link BY <1>2, <1>3 DEF Same, Fields
<1>6. s.state = "ACTIVE" /\ Epoch(s, f) = s.link
  BY DEF RecInv, Recoveries, Generations, MustStop, Live, Top
<1>7. \A q \in 1..Len(s.recoveries) : q # f.id => b[q] = s.recoveries[q] BY <1>1
<1> QED BY <1>4, <1>6, <1>7 DEF LandsAlready, Epoch

\* Every step from a state with the invariant.
LEMMA StepLands ==
  ASSUME RecInv(s, stack), Next
  PROVE  LandsAlready
<1>1. CASE Start \/ FinishClose \/ TearDown \/ ConnectionLost \/ GoAway \/ CredentialExpires
           \/ ResumptionUpdate \/ TurnCompletes \/ ParkUpstream \/ HostCloses \/ Transfer
  BY <1>1, SteadyCalls, SteadyLands
<1>2. CASE RunFrame BY <1>2, SteadyFrames, SteadyLands, DrainLands DEF RunFrame
<1>3. CASE Timer \/ CloseCompletes BY <1>3, SteadyTimers, SteadyLands DEF Timer
<1>4. CASE DialSettles BY <1>4, SteadyDialFails, SteadyLands, DialLands DEF DialSettles
<1>5. CASE RecoverUpstream BY <1>5, RecoverLands
<1> QED BY <1>1, <1>2, <1>3, <1>4, <1>5 DEF Next, Internal, External

\* DialsLandWhereTheyBegan: a recovery that activates is the one whose connection is
\* installed, under the generation it promised, and no dial lands on a parked session.
THEOREM DialsLand ==
  ASSUME ~Reentrant
  PROVE  Spec => DialsLandWhereTheyBegan
<1>1. Spec => []RecInv(s, stack) BY RecoveryInductive
<1>2. ASSUME RecInv(s, stack), [Next]_vars
      PROVE  [LandsAlready]_vars
  BY <1>2, StepLands
<1>3. [LandsAlready]_vars =>
        [\A r \in 1..Len(s.recoveries) :
           s'.recoveries[r].outcome = "activated" /\ s.recoveries[r].outcome = "pending"
             => s.state = "ACTIVE" /\ s.link = s.recoveries[r].epoch]_vars
  BY DEF LandsAlready
<1>4. [LandsAlready]_vars =>
        [s.state = "UPSTREAM_LOST" /\ s'.state = "UPSTREAM_LOST" => s'.link \in {0, s.link}]_vars
  BY DEF LandsAlready
<1> QED
  BY <1>1, <1>2, <1>3, <1>4, PTL DEF Spec, DialsLandWhereTheyBegan, ActivatesItsOwnDial,
     ParkedStaysDown
=============================================================================
