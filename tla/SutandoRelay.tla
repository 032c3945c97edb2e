---------------------------- MODULE SutandoRelay ----------------------------
(***************************************************************************)
(* Delegating tasks to an agent on the user's Mac: the relay server the    *)
(* Mac polls, its durable ledger, and the subagent instance whose calls    *)
(* wait for the results.  A task is leased to a poll, executed once its    *)
(* ack is answered, and its result posted back; leases, deadlines and the  *)
(* watchdog run out at any time; the process dies and starts again with    *)
(* what the ledger holds.  An abandoned task that may be running is told   *)
(* to stop by a task of its own.  The Mac and the network, which loses     *)
(* answers, are the environment.                                           *)
(***************************************************************************)
EXTENDS Integers, FiniteSets

CONSTANTS MaxTasks,      \* delegations
          MaxParked,     \* polls that wait
          MaxCrashes,    \* restarts of the process
          MaxRelayFaults, \* ledger writes that fail
          MaxLosses,     \* answers to an ack that are lost
          NoticeSessions \* sessions that claim recovery notices

ASSUME SutandoAssumption ==
  /\ {MaxTasks, MaxParked} \subseteq Nat \ {0}
  /\ {MaxCrashes, MaxRelayFaults, MaxLosses} \subseteq Nat /\ 0 \notin NoticeSessions

VARIABLES relay,    \* the server of this life of the process, see SutandoInit
          ledger,   \* the states recorded of each task
          mac,      \* what the Mac makes of each task
          calls,    \* the instance's calls, and its state
          mishaps   \* [crashes, faults, losses]

sutandoVars == <<relay, ledger, mac, calls, mishaps>>

Delegations == 1 .. MaxTasks

\* The instruction to stop task t has an id of its own.
StopOf(t) == t + MaxTasks
TaskIds == 1 .. 2 * MaxTasks

RelayTaskState == {"queued", "leased", "acked", "completed", "orphaned", "expired", "cancelled"}
Intents == {"cancelled", "watchdog_expired", "session_closed"}
LedgerState == {"submitted", "acked", "completed", "notice_consumed"} \cup Intents

NoNotice == [kind |-> "none", by |-> 0]

SutandoInit ==
  /\ relay = [state |-> [t \in TaskIds |-> "none"],   \* none: not in the map
              waiter |-> {},          \* tasks with a waiter
              parked |-> 0,
              recovered |-> {},       \* result-eligible from before
              notice |-> [t \in TaskIds |-> NoNotice],
              fresh |-> FALSE,        \* presence()
              orphans |-> {}]         \* history: results in the orphan log
  /\ ledger = [t \in TaskIds |-> {}]
  /\ mac = [has |-> {}, running |-> {}, done |-> {}, posted |-> {},
            again |-> FALSE]          \* history: it executed a task twice
  /\ calls = [st |-> [t \in Delegations |-> "none"],  \* chained, running, done
              got |-> [t \in Delegations |-> "none"],
              watchdog |-> {},        \* tasks whose watchdog is armed
              disposed |-> FALSE,
              stops |-> [t \in Delegations |-> 0]]    \* history: instructions sent
  /\ mishaps = [crashes |-> 0, faults |-> 0, losses |-> 0]

-----------------------------------------------------------------------------
(* The server.  The operators take and return relay, ledger, mac and calls *)
(* as one record; ok tells whether the ledger write succeeds.              *)

World == [relay |-> relay, ledger |-> ledger, mac |-> mac, calls |-> calls]

Turns(w, ok) ==
  /\ relay' = w.relay /\ ledger' = w.ledger /\ mac' = w.mac /\ calls' = w.calls
  /\ mishaps.faults + (IF ok THEN 0 ELSE 1) <= MaxRelayFaults
  /\ mishaps' = [mishaps EXCEPT !.faults = @ + (IF ok THEN 0 ELSE 1)]

LedgerAppend(w, t, state, ok) == IF ok THEN [w EXCEPT !.ledger[t] = @ \cup {state}] ELSE w

QueuedTasks(w) == {t \in TaskIds : w.relay.state[t] = "queued"}

\* leaseQueued(): a poll is answered with every queued task; got tells whether
\* the answer reaches the Mac.
LeaseQueued(w, got) ==
  [w EXCEPT !.relay.state = [t \in TaskIds |-> IF t \in QueuedTasks(w) THEN "leased" ELSE @[t]],
            !.mac.has = IF got THEN @ \cup QueuedTasks(w) ELSE @]

\* wakePollers(): the first one takes them all.
WakePollers(w) ==
  IF w.relay.parked = 0 THEN w ELSE LeaseQueued([w EXCEPT !.relay.parked = 0], TRUE)

\* submit(): a failing ledger write does not keep the task back.
SubmitTask(w, t, ok) ==
  WakePollers([LedgerAppend(w, t, "submitted", ok)
               EXCEPT !.relay.state[t] = "queued", !.relay.waiter = @ \cup {t}])

\* A call ends: its waiter and its watchdog with it.
CallEnds(w, t, got) ==
  [w EXCEPT !.calls.st[t] = "done", !.calls.got[t] = got, !.calls.watchdog = @ \ {t},
            !.relay.waiter = @ \ {t}]

\* cancel(): the intent recorded first, then the task revoked, or orphaned if
\* the Mac may be executing it; an orphan is told to stop
\* (submitCancelInstruction()).
CancelTask(w, t, reason, ok) ==
  LET v == LedgerAppend(w, t, reason, ok)
  IN  CASE w.relay.state[t] \in {"queued", "leased"} ->
             [v EXCEPT !.relay.state[t] = "cancelled", !.relay.waiter = @ \ {t}]
        [] w.relay.state[t] = "acked" ->
             SubmitTask([v EXCEPT !.relay.state[t] = "orphaned", !.relay.waiter = @ \ {t},
                                  !.calls.stops[t] = @ + 1], StopOf(t), TRUE)
        [] OTHER -> w

-----------------------------------------------------------------------------
(* The instance.                                                           *)

\* invoke(): chained after the call before it.
InvokeSutando(t) ==
  /\ calls.st[t] = "none" /\ ~calls.disposed
  /\ \A u \in 1 .. t - 1 : calls.st[u] # "none"
  /\ Turns([World EXCEPT !.calls.st[t] = "chained"], TRUE)

\* runOne(): refused once disposed or aborted, else submitted.  The watchdog is
\* armed at once only while the Mac is there.
RunOne(t) ==
  /\ calls.st[t] = "chained"
  /\ \A u \in 1 .. t - 1 : calls.st[u] = "done"
  /\ \E ok \in BOOLEAN, aborted \in BOOLEAN :
       IF calls.disposed \/ aborted THEN Turns(CallEnds(World, t, "refused"), TRUE) /\ ok
       ELSE LET v == [World EXCEPT !.calls.st[t] = "running"]
            IN  Turns(SubmitTask([v EXCEPT !.calls.watchdog =
                                    IF relay.fresh THEN @ \cup {t} ELSE @], t, ok), ok)

\* The signal of a call aborts, or its watchdog fires.
CallGivesUp(t, reason) ==
  /\ calls.st[t] = "running"
  /\ reason = "watchdog_expired" => t \in calls.watchdog
  /\ \E ok \in BOOLEAN : Turns(CallEnds(CancelTask(World, t, reason, ok), t, reason), ok)

\* dispose(): the task outstanding (one at most) is abandoned.
DisposeSutando ==
  /\ ~calls.disposed
  /\ \E ok \in BOOLEAN :
       LET v   == [World EXCEPT !.calls.disposed = TRUE]
           out == {t \in Delegations : calls.st[t] = "running"}
       IN  IF out = {} THEN Turns(v, TRUE) /\ ok
           ELSE LET t == CHOOSE t \in out : TRUE
                IN  Turns(CallEnds(CancelTask(v, t, "session_closed", ok), t,
                                   "session_closed"), ok)

-----------------------------------------------------------------------------
(* The Mac and the clock.                                                  *)

\* GET /v1/tasks: answered at once, parked, or refused at the limit.
HandlePoll ==
  \E got \in BOOLEAN :
    /\ \/ /\ QueuedTasks(World) # {}
          /\ Turns(LeaseQueued(World, got), TRUE)
       \/ /\ QueuedTasks(World) = {} /\ relay.parked < MaxParked /\ got
          /\ Turns([World EXCEPT !.relay.parked = @ + 1], TRUE)

\* A parked poll ends unanswered, or its connection closes.
PollEnds ==
  /\ relay.parked > 0
  /\ Turns([World EXCEPT !.relay.parked = @ - 1], TRUE)

\* Mutant: an ack that is not recorded is accepted.
AckedAnyway(w, t, ok) ==
  [LedgerAppend(w, t, "acked", ok)
   EXCEPT !.relay.state[t] = "acked",
          !.calls.watchdog = IF t \in Delegations /\ w.calls.st[t] = "running"
                             THEN @ \cup {t} ELSE @]

\* The ack of a leased task is recorded before it is answered: a failed write
\* leaves the task to be leased again.  Its delivery arms the watchdog.
Acked(w, t, ok) ==
  IF ~ok THEN w
  ELSE [LedgerAppend(w, t, "acked", ok)
        EXCEPT !.relay.state[t] = "acked",
               !.calls.watchdog = IF t \in Delegations /\ w.calls.st[t] = "running"
                                  THEN @ \cup {t} ELSE @]

\* POST ack: the Mac executes the task if the answer is 200 and reaches it;
\* any other answer drops its copy.
HandleAck(t) ==
  /\ t \in mac.has
  /\ \E ok \in BOOLEAN, got \in BOOLEAN :
       LET v  == IF relay.state[t] = "leased" THEN Acked(World, t, ok) ELSE World
           go == v.relay.state[t] = "acked" /\ relay.state[t] = "leased" /\ got
       IN  /\ ~ok => relay.state[t] = "leased"
           /\ ~got => relay.state[t] = "leased" /\ mishaps.losses < MaxLosses
           /\ relay' = v.relay /\ ledger' = v.ledger /\ calls' = v.calls
           /\ mac' = [mac EXCEPT !.has = @ \ {t},
                                 !.running = IF go THEN @ \cup {t} ELSE @,
                                 !.again = @ \/ (go /\ t \in mac.running \cup mac.done)]
           /\ mishaps.faults + (IF ok THEN 0 ELSE 1) <= MaxRelayFaults
           /\ mishaps' = [mishaps EXCEPT !.faults = @ + (IF ok THEN 0 ELSE 1),
                                         !.losses = @ + (IF got THEN 0 ELSE 1)]

MacFinishes(t) ==
  /\ t \in mac.running
  /\ Turns([World EXCEPT !.mac.running = @ \ {t}, !.mac.done = @ \cup {t}], TRUE)

\* POST result: to the waiter, or to the orphan log when nobody waits for it
\* any more (a task of an earlier life, or an abandoned one).
HandleResult(t) ==
  /\ t \in mac.done \ mac.posted
  /\ \E ok \in BOOLEAN :
       LET v == [World EXCEPT !.mac.posted = @ \cup {t}]
           orphaned == [v EXCEPT !.relay.orphans = @ \cup {t}]
       IN  CASE relay.state[t] = "acked" /\ t \in relay.waiter ->
                  LET told == LedgerAppend([v EXCEPT !.relay.state[t] = "completed"],
                                           t, "completed", ok)
                  IN  Turns(IF t \in Delegations THEN CallEnds(told, t, "answer")
                            ELSE [told EXCEPT !.relay.waiter = @ \ {t}], ok)
             [] relay.state[t] = "acked" /\ t \notin relay.waiter ->
                  ok /\ Turns([orphaned EXCEPT !.relay.state[t] = "orphaned"], TRUE)
             [] relay.state[t] = "orphaned" -> ok /\ Turns(orphaned, TRUE)
             [] relay.state[t] = "none" /\ t \in relay.recovered ->
                  Turns(LedgerAppend([orphaned EXCEPT !.relay.recovered = @ \ {t}],
                                     t, "completed", ok), ok)
             [] OTHER -> ok /\ Turns(v, TRUE)

\* The heartbeat, and its absence.
Presence ==
  Turns([World EXCEPT !.relay.fresh = ~@], TRUE)

\* sweep(): a lease runs out and the task is queued again; a task not
\* delivered by its deadline expires, just leased again or not.
Sweep(t) ==
  \E lease \in BOOLEAN, deadline \in BOOLEAN :
    LET again == IF lease /\ relay.state[t] = "leased"
                 THEN WakePollers([World EXCEPT !.relay.state[t] = "queued"]) ELSE World
    IN  /\ lease => relay.state[t] = "leased"
        /\ deadline => relay.state[t] \in {"queued", "leased"}
        /\ lease \/ deadline
        /\ Turns(IF ~deadline THEN again
                 ELSE LET v == [again EXCEPT !.relay.state[t] = "expired"]
                      IN  IF t \in Delegations THEN CallEnds(v, t, "stale")
                          ELSE [v EXCEPT !.relay.waiter = @ \ {t}], TRUE)

-----------------------------------------------------------------------------
(* Restart and the recovery notices.                                       *)

\* reap(): tasks of no life that nobody completed, abandoned or announced.
Reaped(l, r) ==
  [t \in TaskIds |->
    IF r.state[t] # "none" \/ l[t] = {} \/ r.notice[t] # NoNotice
       \/ l[t] \cap ({"completed", "notice_consumed"} \cup Intents) # {}
    THEN r.notice[t]
    ELSE [NoNotice EXCEPT !.kind = IF "acked" \in l[t] THEN "unclaimed" ELSE "dropped"]]

\* The process dies; start() reads the ledger.
CrashAndStart ==
  /\ mishaps.crashes < MaxCrashes
  /\ LET fresh == [state |-> [t \in TaskIds |-> "none"], waiter |-> {}, parked |-> 0,
                   recovered |-> {t \in TaskIds : "acked" \in ledger[t]
                                                  /\ "completed" \notin ledger[t]},
                   notice |-> [t \in TaskIds |-> NoNotice], fresh |-> FALSE,
                   orphans |-> relay.orphans]
     IN  relay' = [fresh EXCEPT !.notice = Reaped(ledger, fresh)]
  /\ calls' = [calls EXCEPT !.st = [t \in Delegations |->
                                      IF @[t] = "none" THEN "none" ELSE "done"],
                            !.got = [t \in Delegations |->
                                      IF calls.st[t] \in {"chained", "running"}
                                      THEN "lost" ELSE @[t]],
                            !.watchdog = {}, !.disposed = FALSE]
  /\ mishaps' = [mishaps EXCEPT !.crashes = @ + 1]
  /\ UNCHANGED <<ledger, mac>>

\* claimRecoveryNotices(): those no live lease holds.
ClaimNotices(s) ==
  /\ \E t \in TaskIds : relay.notice[t].kind # "none" /\ relay.notice[t].by = 0
  /\ Turns([World EXCEPT !.relay.notice =
             [t \in TaskIds |-> IF @[t].kind # "none" /\ @[t].by = 0
                                THEN [@[t] EXCEPT !.by = s] ELSE @[t]]], TRUE)

\* ackRecoveryNotice(): by the session that holds it, once it is recorded.
AckNotice(s, t) ==
  /\ relay.notice[t].by = s
  /\ \E ok \in BOOLEAN :
       Turns(IF ok THEN [LedgerAppend(World, t, "notice_consumed", ok)
                         EXCEPT !.relay.notice[t] = NoNotice] ELSE World, ok)

\* A lease on notices runs out, or the session releases them.
ReleaseNotices(s) ==
  /\ \E t \in TaskIds : relay.notice[t].by = s
  /\ Turns([World EXCEPT !.relay.notice =
             [t \in TaskIds |-> IF @[t].by = s THEN [@[t] EXCEPT !.by = 0] ELSE @[t]]], TRUE)

SutandoNext ==
  \/ \E t \in Delegations : \/ InvokeSutando(t) \/ RunOne(t)
                            \/ \E reason \in {"cancelled", "watchdog_expired"} :
                                 CallGivesUp(t, reason)
  \/ DisposeSutando \/ HandlePoll \/ PollEnds \/ Presence \/ CrashAndStart
  \/ \E t \in TaskIds : HandleAck(t) \/ MacFinishes(t) \/ HandleResult(t) \/ Sweep(t)
  \/ \E s \in NoticeSessions : \/ ClaimNotices(s) \/ ReleaseNotices(s)
                               \/ \E t \in TaskIds : AckNotice(s, t)

SutandoSpec == SutandoInit /\ [][SutandoNext]_sutandoVars

-----------------------------------------------------------------------------
(* Properties.                                                             *)

SutandoTypeOK ==
  /\ relay.state \in [TaskIds -> RelayTaskState \cup {"none"}]
  /\ ledger \in [TaskIds -> SUBSET LedgerState]
  /\ mac.has \cup mac.running \cup mac.done \subseteq TaskIds

\* The Mac executes a task once at most, however often it was leased and
\* whatever answers were lost, and an instruction to stop goes out once, for
\* a task the Mac had.
ExecutedOnce ==
  /\ ~mac.again
  /\ \A t \in Delegations : calls.stops[t] <= 1

\* What the user is told after a restart is true and complete: a task said to
\* be dropped was and will be executed by nobody, and one of an earlier life
\* that nobody completed or gave up is announced until it is acknowledged.
NoticesAreTrue ==
  /\ \A t \in TaskIds : relay.notice[t].kind = "dropped" => t \notin mac.running \cup mac.done
  /\ \A t \in TaskIds :
       /\ relay.state[t] = "none" /\ ledger[t] # {}
       /\ ledger[t] \cap ({"completed", "notice_consumed"} \cup Intents) = {}
       => relay.notice[t].kind # "none"
  /\ \A t \in mac.running \cup mac.done : "acked" \in ledger[t]

\* A result the Mac posts is answered to the call that waits or is in the
\* orphan log, never both and never lost.
ResultsHaveAFate ==
  \A t \in mac.posted : t \in Delegations =>
    (t \in relay.orphans) # (calls.got[t] = "answer")

\* A call that waits has a clock that ends it: the watchdog, or the deadline
\* of a task the Mac has not taken; and calls of an instance take turns.
CallsHaveAClock ==
  /\ \A t \in Delegations :
       calls.st[t] = "running" =>
         /\ t \in calls.watchdog \/ relay.state[t] \in {"queued", "leased"}
         /\ t \in relay.waiter
  /\ Cardinality({t \in Delegations : calls.st[t] = "running"}) <= 1

DelegationsAreAccounted ==
  SutandoTypeOK /\ ExecutedOnce /\ NoticesAreTrue /\ ResultsHaveAFate /\ CallsHaveAClock
=============================================================================
