---------------------------- MODULE Notifications ---------------------------
(***************************************************************************)
(* Background notifications in actor mode, from the session's call sites   *)
(* to the wire: the SyntheticOutputHold and the ActorNotificationSink of   *)
(* VoiceSession, the NotificationActor with its queue, and TransportActor  *)
(* as the subscriber that writes what is delivered, restarted by its       *)
(* Supervisor when a write throws.                                         *)
(*                                                                         *)
(* No handler here awaits, but a mailbox hands out one envelope per        *)
(* microtask: the session tells the actor of several things in one block,  *)
(* and a promise settles, while earlier envelopes are still under way.     *)
(***************************************************************************)
EXTENDS Naturals, Sequences

CONSTANTS Truncation,   \* capabilities.messageTruncation of the transport
          Keys,         \* dedup keys
          NoKey,        \* an absent dedupKey
          MaxRestarts,  \* restarts the transport's supervision policy grants
          MaxMail,      \* bound: envelopes that wait for 'notification' when it is told more
          MaxPublish,   \* bound: notifications published
          MaxFailures   \* bound: writes that throw

ASSUME NotificationAssumption ==
  /\ Truncation \in BOOLEAN
  /\ NoKey \notin Keys
  /\ MaxRestarts \in Nat /\ MaxMail \in Nat /\ MaxPublish \in Nat /\ MaxFailures \in Nat

VARIABLES freshSpeech, dialWindow,  \* the two holds of SyntheticOutputHold
          sinkStarted,    \* ActorNotificationSink.audioStartedThisTurn
          notifMail,      \* mailbox of 'notification'
          audioReceived, interrupted, held, queue,  \* fields of NotificationActor
          subscribed,     \* whether 'transport' is in NotificationActor.subscribers
          transportMail,  \* mailbox of 'transport'
          restarting,     \* restarts between onStop and onStart
          restarts,       \* restarts granted in the supervisor's window
          wire,           \* history: notifications written, in order
          published,      \* history: notifications published
          superseded,     \* history: ids a later one with the same key replaced
          lost,           \* history: ids delivered to nobody, or whose write threw
          underWay,       \* history: the last id that may be ahead of the hold engaged
          failures        \* history: writes that threw

sessionSide == <<freshSpeech, dialWindow, sinkStarted>>
actorSide == <<audioReceived, interrupted, held, queue, subscribed>>
transportSide == <<transportMail, restarting, restarts, failures>>
history == <<wire, published, superseded, lost>>

notificationVars == <<sessionSide, underWay, notifMail, actorSide, transportSide, history>>

Note == [id : 1..MaxPublish, priority : {"normal", "high"}, key : Keys \cup {NoKey}]

Signals == {"audio_started", "reset_audio", "interrupted", "turn_complete",
            "hold", "release", "subscribe", "unsubscribe"}

Signal == [type : Signals]

Publication == [type : {"publish"}, note : Note]

Delivery == [type : {"delivered"}, note : Note]

Cancel == [type |-> "cancel_generation"]

NotificationInit ==
  /\ freshSpeech = FALSE /\ dialWindow = FALSE /\ sinkStarted = FALSE
  /\ notifMail = <<>>
  /\ audioReceived = FALSE /\ interrupted = FALSE /\ held = FALSE
  /\ queue = <<>>
  /\ subscribed = TRUE
  /\ transportMail = <<>> /\ restarting = 0 /\ restarts = 0 /\ failures = 0
  /\ wire = <<>> /\ published = 0 /\ superseded = {} /\ lost = {} /\ underWay = 0

-----------------------------------------------------------------------------
(* The session's call sites: what each tells the NotificationActor.        *)

Fits(n) == Len(notifMail) + n <= MaxMail

Tell(type) == notifMail' = Append(notifMail, [type |-> type])

TellBoth(first, second) ==
  notifMail' = notifMail \o <<[type |-> first], [type |-> second]>>

AudioOutput ==
  /\ Fits(1)
  /\ ~sinkStarted
  /\ sinkStarted' = TRUE
  /\ Tell("audio_started")
  /\ UNCHANGED <<freshSpeech, dialWindow, underWay, actorSide, transportSide, history>>

\* Before a greeting, and after a reconnect that owes no function response.
ResetAudio ==
  /\ Fits(1)
  /\ sinkStarted' = FALSE
  /\ Tell("reset_audio")
  /\ UNCHANGED <<freshSpeech, dialWindow, underWay, actorSide, transportSide, history>>

Interrupted ==
  /\ Fits(2)
  /\ sinkStarted' = FALSE
  /\ TellBoth("reset_audio", "interrupted")
  /\ UNCHANGED <<freshSpeech, dialWindow, underWay, actorSide, transportSide, history>>

TurnComplete ==
  /\ Fits(1)
  /\ sinkStarted' = FALSE
  /\ Tell("turn_complete")
  /\ UNCHANGED <<freshSpeech, dialWindow, underWay, actorSide, transportSide, history>>

Publish ==
  /\ Fits(1)
  /\ published < MaxPublish
  /\ published' = published + 1
  /\ \E priority \in {"normal", "high"}, key \in Keys \cup {NoKey} :
       notifMail' = Append(notifMail,
         [type |-> "publish",
          note |-> [id |-> published', priority |-> priority, key |-> key]])
  /\ UNCHANGED <<sessionSide, underWay, actorSide, transportSide, wire, superseded, lost>>

Holding == freshSpeech \/ dialWindow

\* What is under way when a hold is engaged goes on to the wire: the hold is an
\* envelope behind it.
HoldBegins ==
  underWay' = IF notifMail = <<>> /\ transportMail = <<>> THEN 0
              ELSE IF Holding THEN underWay ELSE published

EngageHold ==
  /\ Fits(1)
  /\ HoldBegins
  /\ freshSpeech' = TRUE
  /\ Tell("hold")
  /\ UNCHANGED <<dialWindow, sinkStarted, actorSide, transportSide, history>>

ReleaseHold ==
  /\ Fits(1)
  /\ freshSpeech
  /\ freshSpeech' = FALSE
  /\ IF dialWindow THEN UNCHANGED notifMail ELSE Tell("release")
  /\ UNCHANGED <<dialWindow, sinkStarted, underWay, actorSide, transportSide, history>>

EngageDialWindow ==
  /\ Fits(1)
  /\ HoldBegins
  /\ dialWindow' = TRUE
  /\ Tell("hold")
  /\ UNCHANGED <<freshSpeech, sinkStarted, actorSide, transportSide, history>>

\* The drain after the release runs only when the session finds the model idle.
ReleaseDialWindow ==
  /\ Fits(2)
  /\ dialWindow
  /\ dialWindow' = FALSE
  /\ \/ freshSpeech /\ UNCHANGED <<notifMail, sinkStarted>>
     \/ ~freshSpeech /\ Tell("release") /\ UNCHANGED sinkStarted
     \/ ~freshSpeech /\ TellBoth("release", "turn_complete") /\ sinkStarted' = FALSE
  /\ UNCHANGED <<freshSpeech, underWay, actorSide, transportSide, history>>

-----------------------------------------------------------------------------
(* NotificationActor.                                                      *)

ReceiveNotice(type) ==
  /\ notifMail # <<>>
  /\ Head(notifMail).type = type
  /\ notifMail' = Tail(notifMail)
  /\ UNCHANGED <<sessionSide, underWay, restarting, restarts, failures, wire, published>>

\* deliver: cut the model off first where the transport can, then fan out.
Envelopes(n) ==
  (IF n.priority = "high" /\ Truncation /\ audioReceived THEN <<Cancel>> ELSE <<>>)
    \o (IF subscribed THEN <<[type |-> "delivered", note |-> n]>> ELSE <<>>)

Deliver(n) ==
  /\ transportMail' = transportMail \o Envelopes(n)
  /\ lost' = IF subscribed THEN lost ELSE lost \cup {n.id}

\* High priority goes to the front of the queue.
Filed(n, q) == IF n.priority = "high" THEN <<n>> \o q ELSE Append(q, n)

SameKey(n) == {i \in 1..Len(queue) : n.key # NoKey /\ queue[i].key = n.key}

\* The queue without the entries that n replaces, in its order.
Deduped(n) ==
  LET kept[i \in 0..Len(queue)] ==
        IF i = 0 THEN <<>>
        ELSE IF i \in SameKey(n) THEN kept[i - 1] ELSE Append(kept[i - 1], queue[i])
  IN  kept[Len(queue)]

GoesOutThoughHeld(n) == ~audioReceived \/ (n.priority = "high" /\ Truncation)
GoesOut(n) == ~held /\ (~audioReceived \/ (n.priority = "high" /\ Truncation))

\* Dedup comes first, whichever way the new notification goes.
HandlePublish ==
  /\ ReceiveNotice("publish")
  /\ LET n == Head(notifMail).note IN
       /\ superseded' = superseded \cup {queue[i].id : i \in SameKey(n)}
       /\ \/ /\ GoesOut(n)
             /\ Deliver(n)
             /\ queue' = Deduped(n)
          \/ /\ ~GoesOut(n)
             /\ queue' = Filed(n, Deduped(n))
             /\ UNCHANGED <<transportMail, lost>>
  /\ UNCHANGED <<audioReceived, interrupted, held, subscribed>>

HandleAudioStarted ==
  /\ ReceiveNotice("audio_started")
  /\ audioReceived' = TRUE
  /\ UNCHANGED <<interrupted, held, queue, subscribed, transportMail, superseded, lost>>

HandleResetAudio ==
  /\ ReceiveNotice("reset_audio")
  /\ audioReceived' = FALSE
  /\ UNCHANGED <<interrupted, held, queue, subscribed, transportMail, superseded, lost>>

HandleInterrupted ==
  /\ ReceiveNotice("interrupted")
  /\ interrupted' = TRUE
  /\ UNCHANGED <<audioReceived, held, queue, subscribed, transportMail, superseded, lost>>

HandleSetHeld ==
  /\ \/ ReceiveNotice("hold") /\ held' = TRUE
     \/ ReceiveNotice("release") /\ held' = FALSE
  /\ UNCHANGED <<audioReceived, interrupted, queue, subscribed, transportMail, superseded, lost>>

HandleSubscription ==
  /\ \/ ReceiveNotice("subscribe") /\ subscribed' = TRUE
     \/ ReceiveNotice("unsubscribe") /\ subscribed' = FALSE
  /\ UNCHANGED <<audioReceived, interrupted, held, queue, transportMail, superseded, lost>>

FlushPeeks ==
  \/ /\ held \/ queue = <<>>
     /\ UNCHANGED <<queue, transportMail, lost>>
  \/ /\ ~held /\ queue # <<>>
     /\ UNCHANGED queue
     /\ transportMail' = Append(transportMail, [type |-> "delivered", note |-> Head(queue)])
     /\ UNCHANGED lost

\* flushOne, after audioReceived was cleared: nothing is left to cut off.
FlushOne ==
  \/ /\ held \/ queue = <<>>
     /\ UNCHANGED <<queue, transportMail, lost>>
  \/ /\ ~held /\ queue # <<>>
     /\ queue' = Tail(queue)
     /\ transportMail' = IF subscribed
                         THEN Append(transportMail, [type |-> "delivered", note |-> Head(queue)])
                         ELSE transportMail
     /\ lost' = IF subscribed THEN lost ELSE lost \cup {Head(queue).id}

HandleTurnComplete ==
  /\ ReceiveNotice("turn_complete")
  /\ audioReceived' = FALSE
  /\ interrupted' = FALSE
  /\ IF interrupted THEN UNCHANGED <<queue, transportMail, lost>> ELSE FlushOne
  /\ UNCHANGED <<held, subscribed, superseded>>

-----------------------------------------------------------------------------
(* TransportActor.                                                         *)

HandleCancel ==
  /\ transportMail # <<>>
  /\ Head(transportMail) = Cancel
  /\ transportMail' = Tail(transportMail)
  /\ UNCHANGED <<sessionSide, underWay, notifMail, actorSide, restarting, restarts, failures, history>>

WriteNotification ==
  /\ transportMail # <<>>
  /\ Head(transportMail).type = "delivered"
  /\ transportMail' = Tail(transportMail)
  /\ wire' = Append(wire, Head(transportMail).note)
  /\ UNCHANGED <<sessionSide, underWay, notifMail, actorSide, restarting, restarts, failures>>
  /\ UNCHANGED <<published, superseded, lost>>

\* A write that throws restarts the actor: onStop unsubscribes at once, and the
\* next envelope is handled before onStart runs.  Past the limit the failure is
\* only escalated, to nobody.
WriteThrows ==
  /\ failures < MaxFailures
  /\ transportMail # <<>>
  /\ Head(transportMail).type = "delivered"
  /\ transportMail' = Tail(transportMail)
  /\ lost' = lost \cup {Head(transportMail).note.id}
  /\ failures' = failures + 1
  /\ \/ /\ restarts < MaxRestarts
        /\ restarts' = restarts + 1
        /\ restarting' = restarting + 1
        /\ Tell("unsubscribe")
     \/ /\ restarts >= MaxRestarts
        /\ UNCHANGED <<restarts, restarting, notifMail>>
  /\ UNCHANGED <<sessionSide, underWay, actorSide, wire, published, superseded>>

RestartForgetsSubscription ==
  /\ restarting > 0
  /\ restarting' = restarting - 1
  /\ UNCHANGED <<sessionSide, underWay, notifMail, actorSide, transportMail, restarts, failures, history>>

FinishRestart ==
  /\ restarting > 0
  /\ restarting' = restarting - 1
  /\ Tell("subscribe")
  /\ UNCHANGED <<sessionSide, underWay, actorSide, transportMail, restarts, failures, history>>

-----------------------------------------------------------------------------

SessionCalls ==
  \/ AudioOutput \/ ResetAudio \/ Interrupted \/ TurnComplete \/ Publish
  \/ EngageHold \/ ReleaseHold \/ EngageDialWindow \/ ReleaseDialWindow

ActorHandles ==
  \/ HandlePublish \/ HandleAudioStarted \/ HandleResetAudio \/ HandleInterrupted
  \/ HandleSetHeld \/ HandleSubscription \/ HandleTurnComplete

TransportHandles == HandleCancel \/ WriteNotification \/ WriteThrows \/ FinishRestart

NotificationNext == SessionCalls \/ ActorHandles \/ TransportHandles

\* The event loop always drains the mailboxes and settles a restart.
NotificationSpec ==
  /\ NotificationInit
  /\ [][NotificationNext]_notificationVars
  /\ WF_notificationVars(ActorHandles)
  /\ WF_notificationVars(HandleCancel \/ WriteNotification)
  /\ WF_notificationVars(FinishRestart)

-----------------------------------------------------------------------------
(* Properties.                                                             *)

\* The state variables hold what the fields and mailboxes can hold.
NotificationTypeOK ==
  /\ freshSpeech \in BOOLEAN /\ dialWindow \in BOOLEAN /\ sinkStarted \in BOOLEAN
  /\ notifMail \in Seq(Signal \cup Publication)
  /\ audioReceived \in BOOLEAN /\ interrupted \in BOOLEAN /\ held \in BOOLEAN
  /\ queue \in Seq(Note)
  /\ subscribed \in BOOLEAN
  /\ transportMail \in Seq(Delivery \cup {Cancel})
  /\ restarting \in Nat /\ restarts \in Nat /\ failures \in Nat
  /\ wire \in Seq(Note)
  /\ published \in 0..MaxPublish
  /\ superseded \subseteq 1..MaxPublish /\ lost \subseteq 1..MaxPublish
  /\ underWay \in 0..MaxPublish

\* The sink's debounce and the actor's gate agree whenever the mailbox is empty:
\* no reset clears one and leaves the other, which would swallow the next
\* audio_started or hold notifications back for a turn nobody speaks in.
GateFollowsSink == notifMail = <<>> => audioReceived = sinkStarted

\* Delivery is held exactly while one of the two independent holds is engaged,
\* in whatever order recoveries and user evidence engage and release them.
HoldFollowsReasons == notifMail = <<>> => held = (freshSpeech \/ dialWindow)

\* While no connection can carry output or fresh speech is awaited, nothing is
\* written to the provider save what was under way when the hold was engaged: the
\* hold is an envelope behind others, and every later publication is behind it.
HeldWritesNothingNew ==
  [][Holding /\ wire' # wire => wire'[Len(wire')].id <= underWay]_notificationVars

\* The notifications with an id that are in a place of their own.
Places(id) ==
  {<<"mail", i>> : i \in {i \in 1..Len(notifMail) :
                            notifMail[i].type = "publish" /\ notifMail[i].note.id = id}}
  \cup {<<"queue", i>> : i \in {i \in 1..Len(queue) : queue[i].id = id}}
  \cup {<<"delivered", i>> : i \in {i \in 1..Len(transportMail) :
                            transportMail[i].type = "delivered" /\ transportMail[i].note.id = id}}
  \cup {<<"wire", i>> : i \in {i \in 1..Len(wire) : wire[i].id = id}}
  \cup {<<"superseded", 0>> : i \in superseded \cap {id}}
  \cup {<<"lost", 0>> : i \in lost \cap {id}}

\* A published notification is in exactly one place: waiting, written once,
\* replaced by a newer one, or given up where a write threw or nobody listened.
AccountedOnce == \A id \in 1..published : \E p \in Places(id) : Places(id) = {p}

\* Latest wins: of two notifications with the same key, an older one is never
\* written after a newer one, whether either was queued or delivered at once.
LatestWins ==
  \A i, j \in 1..Len(wire) :
    i < j /\ wire[i].key = wire[j].key /\ wire[i].key # NoKey => wire[i].id < wire[j].id

\* A model that is cut off is cut off for something: until a write throws, every
\* cancel in the transport's mailbox stands right before the urgent notification
\* it makes room for.  (While a restarting TransportActor is unsubscribed the
\* notification goes to nobody and the cancel stands alone.)
CancelMakesRoom ==
  \A i \in 1..Len(transportMail) :
    failures = 0 /\ transportMail[i] = Cancel =>
      /\ i < Len(transportMail)
      /\ transportMail[i + 1].type = "delivered"
      /\ transportMail[i + 1].note.priority = "high"

\* A restarted TransportActor is subscribed again, so what is published after it
\* is delivered: no restart leaves the session without its wire.
ResubscribesAfterRestart == ~subscribed ~> subscribed

\* A notification handed to the transport is written, unless its write throws or
\* a restart of the TransportActor drops it: no cancel or restart strands it.
DeliveredIsWritten ==
  \A id \in 1..MaxPublish :
    (\E i \in 1..Len(transportMail) :
       transportMail[i].type = "delivered" /\ transportMail[i].note.id = id)
      ~> (id \in lost \/ \E i \in 1..Len(wire) : wire[i].id = id)

\* The queue of notifications is faithful: nothing vanishes or is written twice, a
\* newer value is never overtaken by an older one, and an interrupt has its reason.
QueueIsFaithful == AccountedOnce /\ LatestWins /\ CancelMakesRoom
=============================================================================
