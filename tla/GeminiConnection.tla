-------------------------- MODULE GeminiConnection --------------------------
(***************************************************************************)
(* The connection management of GeminiLiveTransport and its                *)
(* ConnectionLifecycleLedger: dials (with a static key or a credential     *)
(* fetched for each), the generation fence (dialGen) that keeps the events *)
(* of a superseded dial away from the live handlers, disconnect(),         *)
(* reconnect(), transferSession(), abortIncumbent(), and the lifecycle     *)
(* reports, whose observers may call back into the transport from inside   *)
(* any of them.  The sockets, the provider and the clock are the           *)
(* environment.                                                            *)
(*                                                                         *)
(* The fence is modelled by the dial that passes it (0: none does); a      *)
(* reconnect() that compares dialGen with an earlier value of it holds     *)
(* `moved` instead, and `ticks` counts the advances within one step.       *)
(***************************************************************************)
EXTENDS Integers, FiniteSets, TLC

CONSTANTS GeminiProviders,        \* values of a credentialProvider being configured
          SlowCloses,       \* values of Session.close() taking its time
          MaxDials,         \* dials in a behaviour
          MaxCalls,         \* calls of the owner in flight
          MaxOwner,         \* calls of the owner and of observers in a behaviour
          MaxServer         \* credentials, closes and updates of the server

ASSUME GeminiAssumption ==
  /\ GeminiProviders \subseteq BOOLEAN /\ SlowCloses \subseteq BOOLEAN
  /\ {MaxDials, MaxCalls, MaxOwner, MaxServer} \subseteq Nat

VARIABLES gem,     \* the transport, see GeminiInit
          gemCfg,  \* [provider, slow]
          gemUsed  \* the calls and the events so far

gemVars == <<gem, gemCfg, gemUsed>>

Dials == 1 .. MaxDials
Calls == 1 .. MaxCalls

\* race: the connect() of the dial.  failing: its rejection is a microtask.
NewDial == [race |-> "none",      \* none, running, failing, up, ended
            fetch |-> FALSE,      \* dialWithCredential() awaits the provider
            sock |-> "none",      \* none, dialing, open, closing, closed
            set |-> FALSE,        \* setupDone
            told |-> {}]          \* history: the reports of its attempt

NewCall == [op |-> "none", st |-> "none", on |-> 0, moved |-> FALSE]

GeminiInit ==
  /\ gem = [fence |-> 0,          \* the dial whose generation dialGen is
            next |-> 1,
            session |-> 0,
            resolver |-> 0,       \* setupResolver
            pending |-> 0,        \* pendingSetup
            fetch |-> 0,          \* credentialFetch
            expiry |-> 0,         \* credentialExpiry
            closing |-> 0,        \* pendingDisconnectClose
            attempt |-> 0, setup |-> FALSE, closed |-> 0,   \* the ledger
            handle |-> 0,         \* effectiveResumptionHandle: the dial it is of
            react |-> [on |-> "none", op |-> "none"],  \* what an observer will do
            ticks |-> 0,
            misnamed |-> FALSE,   \* history: a report of another dial's attempt
            dial |-> [d \in Dials |-> NewDial],
            call |-> [c \in Calls |-> NewCall]]
  /\ gemCfg \in [provider : GeminiProviders, slow : SlowCloses]
  /\ gemUsed = [owner |-> 0, server |-> 0]

-----------------------------------------------------------------------------
(* The fence and the ledger.  Each operator takes the transport and returns*)
(* it; N tells the observers, who may act at once.                         *)

\* ++dialGen, to dial d or to nobody's.
Advance(g, d) ==
  [g EXCEPT !.fence = d, !.ticks = @ + 1,
            !.call = [c \in Calls |-> [@[c] EXCEPT !.moved = TRUE]]]

\* Nobody acts on a report of a call made by an observer.
GeminiQuiet(g, kind) == g

\* The ledger emits for the attempt it holds; d is the dial it is about.
GeminiEmit(g, d, kind, N(_, _)) ==
  N([g EXCEPT !.dial[g.attempt].told = @ \cup {kind},
              !.misnamed = @ \/ d # g.attempt \/ kind \in g.dial[g.attempt].told], kind)

BeginAttempt(g, d, N(_, _)) ==
  N([g EXCEPT !.attempt = d, !.setup = FALSE], "attempt")

SetupOkWith(g, d, N(_, _)) == GeminiEmit([g EXCEPT !.setup = TRUE], d, "ok", N)

SetupFailedWith(g, d, N(_, _)) == GeminiEmit(g, d, "failed", N)

\* claimClose(): an attempt closes once, whatever signals arrive.
SocketClosedWith(g, d, N(_, _)) ==
  IF g.closed = g.attempt THEN g
  ELSE GeminiEmit([g EXCEPT !.closed = g.attempt], d, "closed", N)

LocalDisconnectWith(g, d, N(_, _)) == IF g.setup THEN SocketClosedWith(g, d, N) ELSE g

-----------------------------------------------------------------------------
(* Dials.                                                                  *)

Fail(g, d) ==
  IF g.dial[d].race = "running" THEN [g EXCEPT !.dial[d].race = "failing"] ELSE g

\* The provider's abort listeners run at once, the rejection after them.
CancelCredentialFetch(g, N(_, _)) ==
  IF g.fetch = 0 THEN g
  ELSE N(Fail([g EXCEPT !.fetch = 0, !.dial[g.fetch].fetch = FALSE], g.fetch), "cancel")

\* The dial that connect() makes once its attempt is told: a static credential
\* dials, the provider's is fetched first.
Dial(g, d) ==
  IF ~gemCfg.provider THEN [g EXCEPT !.dial[d].sock = "dialing"]
  ELSE IF g.fence # d THEN Fail(g, d)
  ELSE [g EXCEPT !.fetch = d, !.dial[d].fetch = TRUE]

\* connect(), up to its first await.  An observer of `attempt` that retired it
\* leaves a provider's dial without a fetch and a static one to its end.  The
\* abort listeners of the fetch it supersedes do not dial (no owner does).
GeminiConnectWith(g, N(_, _)) ==
  LET d == g.next
      begun == [Advance([CancelCredentialFetch([g EXCEPT !.next = d + 1, !.resolver = d], GeminiQuiet)
                           EXCEPT !.expiry = 0], d)
                  EXCEPT !.pending = IF gemCfg.provider THEN d ELSE 0,
                         !.dial[d].race = "running"]
  IN IF d > MaxDials THEN g ELSE Dial(BeginAttempt(begun, d, N), d)

CredentialFailedWith(g, d, N(_, _)) == SocketClosedWith(g, d, N)

\* The stage of a provider's attempt that no accepted credential has dialed.
AtProvider(g, d) == g.dial[d].sock = "none"

\* The credential of a pending attempt fails, fetched or not yet, unless an observer
\* has moved the fence since.
CredentialGivenUp(first, g, d, N(_, _)) ==
  IF AtProvider(first, d) /\ g.ticks = first.ticks THEN CredentialFailedWith(g, d, N) ELSE g

SetupGivenUp(first, g, d, N(_, _)) ==
  IF g.ticks = first.ticks THEN SetupFailedWith(g, d, N) ELSE g

GiveUp(first, d, N(_, _)) ==
  SetupGivenUp(first,
    CredentialGivenUp(first,
      IF AtProvider(first, d) THEN CancelCredentialFetch(first, N) ELSE first, d, N), d, N)

\* PendingSetup.retire(); its steps stop once an observer has moved the fence.
Retire(g, d, N(_, _)) ==
  IF d = 0 THEN g
  ELSE Fail(IF g.fence # d THEN g
            ELSE GiveUp([Advance(g, 0) EXCEPT !.call = [c \in Calls |->
                           IF g.call[c].st = "starting" THEN g.call[c] ELSE @[c]]], d, N), d)

CloseSock(g, d) ==
  IF g.dial[d].sock \in {"dialing", "open"} THEN [g EXCEPT !.dial[d].sock = "closing"] ELSE g

\* Its generation's end is reported once the session is detached.
DetachSessionWith(g, N(_, _)) ==
  IF g.session = 0 THEN [g EXCEPT !.expiry = 0]
  ELSE N([g EXCEPT !.session = 0, !.expiry = 0], "end")

\* Slow closes are awaited.
LeaveSession(g, d, N(_, _)) ==
  LET left == CloseSock(LocalDisconnectWith(g, d, N), d)
  IN IF gemCfg.slow /\ left.dial[d].sock = "closing" THEN [left EXCEPT !.closing = d] ELSE left

\* The part of disconnect() before its await.
GeminiDisconnectWith(g, N(_, _)) ==
  LET retired == Retire(DetachSessionWith([g EXCEPT !.pending = 0], N), g.pending, N)
  IN IF g.session = 0 THEN retired ELSE LeaveSession(retired, g.session, N)

\* abortIncumbent() closes what it detached and forgets the resumption handle.
Abandon(g, d) == [(IF d = 0 THEN g ELSE CloseSock(g, d)) EXCEPT !.handle = 0]

AbortIncumbentWith(g, N(_, _)) ==
  Abandon(DetachSessionWith(CancelCredentialFetch(Advance(g, 0), N), N), g.session)

-----------------------------------------------------------------------------
(* What an observer does from inside a report.                             *)

Reactions == [on : {"attempt", "ok", "failed", "closed", "cancel", "end", "expiry"},
              op : {"connect", "disconnect", "abort"}]
NoReaction == [on |-> "none", op |-> "none"]

Observed(g, kind) ==
  LET h == [g EXCEPT !.react = NoReaction]
  IN IF g.react.on # kind THEN g
     ELSE IF g.react.op = "disconnect" THEN GeminiDisconnectWith(h, GeminiQuiet)
     ELSE IF g.react.op = "abort" THEN AbortIncumbentWith(h, GeminiQuiet)
     ELSE IF h.session = 0 THEN GeminiConnectWith(h, GeminiQuiet) ELSE h

-----------------------------------------------------------------------------
(* The operations above as the owner and the sockets call them.            *)

SetupOk(g, d) == SetupOkWith(g, d, Observed)

SetupFailed(g, d) == SetupFailedWith(g, d, Observed)

SocketClosed(g, d) == SocketClosedWith(g, d, Observed)

LocalDisconnect(g, d) == LocalDisconnectWith(g, d, Observed)

CredentialFailed(g, d) == CredentialFailedWith(g, d, Observed)

DetachSession(g) == DetachSessionWith(g, Observed)

GeminiConnect(g) == GeminiConnectWith(g, Observed)

GeminiDisconnect(g) == GeminiDisconnectWith(g, Observed)

AbortIncumbent(g) == AbortIncumbentWith(g, Observed)

\* The finally of connect().
ConnectOver(g, d) ==
  LET e == [g EXCEPT !.dial[d].race = "ended", !.pending = IF @ = d THEN 0 ELSE @]
  IN IF e.dial[d].sock = "open" THEN CloseSock(e, d) ELSE e

\* The catch of connect().
ConnectFails(g, d) ==
  ConnectOver(IF g.fence = d THEN SetupFailed([Advance(g, 0) EXCEPT !.session = 0], d)
              ELSE IF g.session = d THEN [g EXCEPT !.session = 0] ELSE g, d)

Failing(g) == {d \in Dials : g.dial[d].race = "failing"}

\* The microtasks after a step: the rejections, of the current dial first.
Drain(g) ==
  LET one(h) == IF Failing(h) = {} THEN h
                ELSE ConnectFails(h, IF h.fence \in Failing(h) THEN h.fence
                                     ELSE CHOOSE d \in Failing(h) : TRUE)
  IN one(one(one(g)))

\* Mutant: a reconnect() dials whoever owns the connection by now.
GoesOnAlways(g, c) ==
  IF g.call[c].op = "disconnect" THEN [g EXCEPT !.call[c] = NewCall]
  ELSE GeminiConnect([g EXCEPT !.call[c] = NewCall])

\* How a call goes on after its disconnect().
GoesOn(g, c) ==
  IF g.call[c].op = "transfer" \/ (g.call[c].op = "reconnect" /\ ~g.call[c].moved)
  THEN GeminiConnect([g EXCEPT !.call[c] = NewCall])
  ELSE [g EXCEPT !.call[c] = NewCall]

-----------------------------------------------------------------------------
(* Steps.  F is the handler; an observer may act in one of its reports,    *)
(* and the microtasks follow.                                              *)

Does(F(_), owner, server) ==
  \E r \in {NoReaction} \cup Reactions :
    \E h \in {Drain(F([gem EXCEPT !.react = r]))} :
      /\ h.react = NoReaction
      /\ gemUsed' = [owner |-> gemUsed.owner + owner + (IF r = NoReaction THEN 0 ELSE 1),
                     server |-> gemUsed.server + server]
      /\ gemUsed'.owner <= MaxOwner /\ gemUsed'.server <= MaxServer
      /\ gem' = [h EXCEPT !.ticks = 0]
      /\ UNCHANGED gemCfg

\* The owner connects a transport that holds no connection.
OwnerConnects ==
  /\ gem.session = 0 /\ gem.next <= MaxDials
  /\ Does(LAMBDA g : GeminiConnect(g), 1, 0)

\* The call waits for the close of the session it left, or goes on.
Called(g, c, left) ==
  IF left # 0 /\ g.closing = left
  THEN [g EXCEPT !.call[c].st = "closing", !.call[c].on = left]
  ELSE GoesOn(g, c)

\* disconnect(), reconnect() and transferSession() begin alike.
OwnerCalls(c, op) ==
  /\ gem.call[c].op = "none"
  /\ op = "transfer" => ~gemCfg.slow
  /\ op # "disconnect" => gem.next <= MaxDials
  /\ Does(LAMBDA g :
            Called(GeminiDisconnect([g EXCEPT !.call[c].op = op, !.call[c].st = "starting"]),
                   c, g.session), 1, 0)

OwnerAborts == Does(LAMBDA g : AbortIncumbent(g), 1, 0)

\* The close() a call awaits settles.
CloseSettles(c) ==
  /\ gem.call[c].st = "closing"
  /\ Does(LAMBDA g : GoesOn([g EXCEPT !.closing = IF @ = g.call[c].on THEN 0 ELSE @], c), 0, 0)

FetchEnds(g, d) == [g EXCEPT !.fetch = IF @ = d THEN 0 ELSE @, !.dial[d].fetch = FALSE]

\* A credential that comes after its dial was superseded is not used.
CredentialReturns(d) ==
  /\ gem.dial[d].fetch
  /\ Does(LAMBDA g : LET h == FetchEnds(g, d)
                     IN IF g.fence # d THEN Fail(h, d)
                        ELSE [h EXCEPT !.dial[d].sock = "dialing"], 0, 0)

\* It throws, takes too long, or returns what is refused.
CredentialFails(d) ==
  /\ gem.dial[d].fetch
  /\ Does(LAMBDA g :
            LET h == FetchEnds(g, d)
            IN Fail(IF g.fence # d THEN h ELSE CredentialFailed(h, d), d), 0, 1)

\* setupComplete resolves the connect() that the latest dial's resolver is of.
Resolve(g) ==
  IF g.resolver = 0 THEN g ELSE [g EXCEPT !.dial[g.resolver].set = TRUE, !.resolver = 0]

\* The connect() that is resolved watches the credential's expiry.
Up(g, d) ==
  IF ~g.dial[d].set THEN g
  ELSE [g EXCEPT !.dial[d].race = "up",
                 !.expiry = IF gemCfg.provider /\ g.fence = d /\ g.session = d THEN d ELSE @]

\* The dial resolves: its session is installed, then setupComplete is handled.
Install(g, d) ==
  IF g.fence # d THEN Fail(g, d)
  ELSE Up(Resolve(SetupOk([g EXCEPT !.session = d, !.pending = 0], d)), d)

\* A connect() that is over closes the session it abandoned.
GeminiSetupCompletes(d) ==
  /\ gem.dial[d].sock = "dialing"
  /\ Does(LAMBDA g :
            IF g.dial[d].race = "running" THEN Install([g EXCEPT !.dial[d].sock = "open"], d)
            ELSE CloseSock(g, d), 0, 0)

\* onclose.
SocketCloses(d) ==
  /\ gem.dial[d].sock \in {"dialing", "open", "closing"}
  /\ Does(LAMBDA g :
            LET h == [g EXCEPT !.dial[d].sock = "closed"]
                e == IF h.dial[d].set THEN h ELSE Fail(h, d)
            IN IF h.fence # d THEN h
               ELSE SocketClosed([e EXCEPT !.expiry = IF @ = d THEN 0 ELSE @], d),
          0, IF gem.dial[d].sock = "closing" THEN 0 ELSE 1)

\* The fetch is given half of the deadline.
ConnectTimesOut(d) ==
  /\ gem.dial[d].race = "running" /\ ~gem.dial[d].fetch
  /\ Does(LAMBDA g : Fail(g, d), 0, 0)

\* A session resumption update; the fence stops a superseded dial's.
ResumptionUpdate(d, resumable) ==
  /\ gem.dial[d].sock \in {"open", "closing"} /\ gem.fence = d
  /\ Does(LAMBDA g : [g EXCEPT !.handle = IF resumable THEN d ELSE 0], 0, 1)

CredentialExpires ==
  /\ gem.expiry # 0
  /\ Does(LAMBDA g :
            LET d == g.session
                h == IF g.fence # g.expiry \/ d = 0 THEN g ELSE Observed(g, "expiry")
                e == DetachSession(Advance(h, 0))
            IN IF g.fence # g.expiry \/ d = 0 \/ h.fence # g.expiry \/ h.session # d
               THEN [h EXCEPT !.expiry = IF @ = g.expiry THEN 0 ELSE @]
               ELSE CloseSock(LocalDisconnect(e, d), d), 0, 0)

ForceKill(c) ==
  /\ gem.call[c].op = "reconnect" /\ gem.session # 0
  /\ Does(LAMBDA g : IF g.call[c].moved THEN g ELSE [g EXCEPT !.session = 0], 0, 0)

GeminiNext ==
  \/ OwnerConnects
  \/ \E c \in Calls : \/ \E op \in {"disconnect", "reconnect", "transfer"} : OwnerCalls(c, op)
                      \/ CloseSettles(c)
                      \/ ForceKill(c)
  \/ OwnerAborts
  \/ \E d \in Dials : \/ CredentialReturns(d) \/ CredentialFails(d)
                      \/ GeminiSetupCompletes(d) \/ SocketCloses(d) \/ ConnectTimesOut(d)
                      \/ \E resumable \in BOOLEAN : ResumptionUpdate(d, resumable)
  \/ CredentialExpires

GeminiSpec == GeminiInit /\ [][GeminiNext]_gemVars

-----------------------------------------------------------------------------
(* Properties.                                                             *)

\* Every lifecycle report is about the attempt it names, is made once, and no
\* attempt both completes its setup and fails it, even when an observer of one
\* report dials, disconnects or aborts from inside it
\* (ConnectionLifecycleLedger, retire() and the catch of connect()).
ReportsNameTheirAttempt ==
  /\ ~gem.misnamed
  /\ \A d \in Dials : ~({"ok", "failed"} \subseteq gem.dial[d].told)

\* An open socket is the attached session's, or its dial is still awaited: a
\* connection nobody holds is closed, whichever dial or call superseded it.
NothingUnowned ==
  \A d \in Dials : gem.dial[d].sock = "open" =>
                     gem.session = d \/ gem.dial[d].race = "running"

\* The attached session's messages pass the fence, and the credential watched
\* is its own.
SessionHears ==
  /\ gem.session # 0 => gem.fence = gem.session
  /\ gem.expiry # 0 => gem.expiry = gem.session

\* Reports, sockets and messages belong to the dial that made them, whatever an
\* observer does from inside a report.
DialsKeepTheirOwn == ReportsNameTheirAttempt /\ NothingUnowned /\ SessionHears
=============================================================================
