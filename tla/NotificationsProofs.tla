------------------------- MODULE NotificationsProofs ------------------------
(***************************************************************************)
(* Theorems about the notifications, for any number of publications, keys  *)
(* and restarts.                                                           *)
(*                                                                         *)
(* The flags: what the session has told and the actor has not handled yet  *)
(* is in the mailbox.  The invariant says, of each pair of flags, which    *)
(* messages may still be under way when the two differ, and which may not. *)
(*                                                                         *)
(* The queue: the wire, the mailbox of the transport, the queue and the    *)
(* mailbox of the actor are one line of notifications.  A notification only*)
(* moves forward in it or leaves it, and two of a key are in the order of  *)
(* their publication: those that were written or handed over are older than*)
(* what is queued, and a queued one is replaced before a newer one passes. *)
(***************************************************************************)
EXTENDS Notifications, SequenceTheorems, WellFoundedInduction, TLAPS

Messages == Signal \cup Publication

Has(type) == \E i \in 1..Len(notifMail) : notifMail[i].type = type

\* No message under way is of a type in K.
FreeOf(K) == \A i \in 1..Len(notifMail) : notifMail[i].type \notin K

\* The last message under way of a type in K is of type t.
LastIs(K, t) ==
  \E i \in 1..Len(notifMail) :
    /\ notifMail[i].type = t
    /\ \A j \in 1..Len(notifMail) : i < j => notifMail[j].type \notin K

GateTypes == {"audio_started", "reset_audio", "turn_complete"}
HoldTypes == {"hold", "release"}

\* The gate of the actor lags behind the sink only by what is in the mailbox: the
\* last message about it says what the sink has.
GateInv ==
  /\ FreeOf(GateTypes) => (audioReceived <=> sinkStarted)
  /\ ~FreeOf(GateTypes) => (sinkStarted <=> LastIs(GateTypes, "audio_started"))

\* So does the hold of the actor behind the session's.
HoldInv ==
  /\ FreeOf(HoldTypes) => (held <=> Holding)
  /\ ~FreeOf(HoldTypes) => (Holding <=> LastIs(HoldTypes, "hold"))

FlagInv ==
  /\ notifMail \in Seq(Messages)
  /\ freshSpeech \in BOOLEAN /\ dialWindow \in BOOLEAN /\ sinkStarted \in BOOLEAN
  /\ audioReceived \in BOOLEAN /\ held \in BOOLEAN
  /\ published \in 0..MaxPublish
  /\ GateInv
  /\ HoldInv

-----------------------------------------------------------------------------
(* What telling and receiving do to the messages under way.                *)

\* An empty mailbox has no message of any type.
LEMMA EmptyHasNothing ==
  ASSUME notifMail = <<>>, NEW type
  PROVE  ~Has(type)
  BY DEF Has

\* One more message makes one more type under way, and keeps the head.
LEMMA AppendHas ==
  ASSUME notifMail \in Seq(Messages), NEW msg \in Messages, notifMail' = Append(notifMail, msg)
  PROVE  /\ notifMail' \in Seq(Messages)
         /\ \A type : Has(type)' <=> Has(type) \/ msg.type = type
         /\ notifMail # <<>> => notifMail' # <<>> /\ Head(notifMail') = Head(notifMail)
         /\ notifMail = <<>> => notifMail' # <<>> /\ Head(notifMail') = msg
  <1>1. /\ notifMail' \in Seq(Messages) /\ Len(notifMail') = Len(notifMail) + 1
        /\ \A i \in 1..Len(notifMail) : notifMail'[i] = notifMail[i]
        /\ notifMail'[Len(notifMail) + 1] = msg
        /\ Len(notifMail) \in Nat
    OBVIOUS
  <1>2. ASSUME NEW type PROVE Has(type)' <=> Has(type) \/ msg.type = type
    <2>1. ASSUME Has(type) PROVE Has(type)' BY <1>1, <2>1 DEF Has
    <2>2. ASSUME msg.type = type PROVE Has(type)' BY <1>1, <2>2 DEF Has
    <2>3. ASSUME Has(type)' PROVE Has(type) \/ msg.type = type
      <3>1. PICK i \in 1..Len(notifMail') : notifMail'[i].type = type BY <2>3 DEF Has
      <3>2. CASE i \in 1..Len(notifMail) BY <1>1, <3>1, <3>2 DEF Has
      <3>3. CASE i = Len(notifMail) + 1 BY <1>1, <3>1, <3>3
      <3> QED BY <1>1, <3>2, <3>3
    <2> QED BY <2>1, <2>2, <2>3
  <1> QED BY <1>1, <1>2

\* A message received is no longer under way; every other one still is.
LEMMA ReceiveHas ==
  ASSUME notifMail \in Seq(Messages), NEW kind, ReceiveNotice(kind)
  PROVE  /\ notifMail' \in Seq(Messages)
         /\ \A type : Has(type)' => Has(type)
         /\ \A type : Has(type) /\ type # kind => Has(type)'
         /\ Has(kind)
         /\ Head(notifMail).type = kind
  <1>1. /\ notifMail # <<>> /\ notifMail' = Tail(notifMail) /\ Head(notifMail).type = kind
        /\ Len(notifMail) \in Nat \ {0} /\ Head(notifMail) = notifMail[1]
    BY DEF ReceiveNotice
  <1>2. /\ notifMail' \in Seq(Messages) /\ Len(notifMail') = Len(notifMail) - 1
        /\ \A i \in 1..Len(notifMail') : notifMail'[i] = notifMail[i + 1]
    BY <1>1
  <1>3. ASSUME NEW type, Has(type)' PROVE Has(type)
    <2>1. PICK i \in 1..Len(notifMail') : notifMail'[i].type = type BY <1>3 DEF Has
    <2> QED BY <1>2, <2>1, <1>1 DEF Has
  <1>4. ASSUME NEW type, Has(type), type # kind PROVE Has(type)'
    <2>1. PICK i \in 1..Len(notifMail) : notifMail[i].type = type BY <1>4 DEF Has
    <2>2. i # 1 BY <1>1, <1>4, <2>1
    <2>3. i - 1 \in 1..Len(notifMail') /\ (i - 1) + 1 = i BY <1>1, <1>2, <2>1, <2>2
    <2> QED BY <2>3, <1>2, <2>1 DEF Has
  <1>5. Has(kind) BY <1>1 DEF Has
  <1> QED BY <1>1, <1>2, <1>3, <1>4, <1>5

LEMMA TellHas ==
  ASSUME notifMail \in Seq(Messages), NEW kind \in Signals, Tell(kind)
  PROVE  /\ notifMail' \in Seq(Messages)
         /\ \A type : Has(type)' <=> Has(type) \/ type = kind
         /\ notifMail # <<>> => notifMail' # <<>> /\ Head(notifMail') = Head(notifMail)
         /\ notifMail = <<>> => notifMail' # <<>> /\ Head(notifMail').type = kind
  <1> QED BY AppendHas DEF Tell, Messages, Signal

\* Two messages told are two more.
LEMMA TellBothHas ==
  ASSUME notifMail \in Seq(Messages), NEW first \in Signals, NEW second \in Signals, TellBoth(first, second)
  PROVE  /\ notifMail' \in Seq(Messages)
         /\ Len(notifMail) \in Nat /\ Len(notifMail') = Len(notifMail) + 2
         /\ \A i \in 1..Len(notifMail) : notifMail'[i] = notifMail[i]
         /\ notifMail'[Len(notifMail) + 1].type = first /\ notifMail'[Len(notifMail) + 2].type = second
         /\ \A type : Has(type)' => Has(type) \/ type = first \/ type = second
<1> DEFINE a == [type |-> first]
           b == [type |-> second]
<1>1. a \in Messages /\ b \in Messages /\ a.type = first /\ b.type = second BY DEF Messages, Signal
<1>2. notifMail' = notifMail \o <<a, b>> BY DEF TellBoth
<1> HIDE DEF a, b
<1>3. /\ notifMail' \in Seq(Messages)
      /\ Len(notifMail) \in Nat /\ Len(notifMail') = Len(notifMail) + 2
      /\ \A i \in 1..Len(notifMail) : notifMail'[i] = notifMail[i]
      /\ notifMail'[Len(notifMail) + 1] = a /\ notifMail'[Len(notifMail) + 2] = b
  BY <1>1, <1>2
<1>4. ASSUME NEW type, Has(type)' PROVE Has(type) \/ type = first \/ type = second
  <2>1. PICK i \in 1..Len(notifMail') : notifMail'[i].type = type BY <1>4 DEF Has
  <2>2. i \in 1..Len(notifMail) \/ i = Len(notifMail) + 1 \/ i = Len(notifMail) + 2 BY <1>3
  <2> QED BY <1>1, <1>3, <2>1, <2>2 DEF Has
<1> QED BY <1>1, <1>3, <1>4

\* A message of K more is the last of K; another changes nothing about K.
LEMMA AppendLast ==
  ASSUME notifMail \in Seq(Messages), NEW msg \in Messages, notifMail' = Append(notifMail, msg),
         NEW K, NEW t \in K
  PROVE  /\ msg.type \in K => ~FreeOf(K)' /\ (LastIs(K, t)' <=> msg.type = t)
         /\ msg.type \notin K => (FreeOf(K)' <=> FreeOf(K)) /\ (LastIs(K, t)' <=> LastIs(K, t))
<1> DEFINE l == Len(notifMail)
<1>1. /\ l \in Nat /\ Len(notifMail') = l + 1 /\ notifMail'[l + 1] = msg
      /\ \A i \in 1..l : notifMail'[i] = notifMail[i]
  OBVIOUS
<1> HIDE DEF l
<1>2. 1..Len(notifMail') = 1..l \cup {l + 1} /\ \A i \in 1..l : i < l + 1 /\ ~(l + 1 < i) BY <1>1
<1>3. l + 1 \in 1..Len(notifMail') /\ ~(l + 1 < l + 1) BY <1>1
<1>4. ASSUME msg.type \in K PROVE ~FreeOf(K)' /\ (LastIs(K, t)' <=> msg.type = t)
  <2>1. ~FreeOf(K)' BY <1>1, <1>3, <1>4 DEF FreeOf
  <2>2. ASSUME LastIs(K, t)' PROVE msg.type = t
    <3>1. PICK i \in 1..Len(notifMail') :
            /\ notifMail'[i].type = t
            /\ \A j \in 1..Len(notifMail') : i < j => notifMail'[j].type \notin K
      BY <2>2 DEF LastIs
    <3>2. i = l + 1 BY <1>1, <1>2, <1>3, <1>4, <3>1
    <3> QED BY <1>1, <3>1, <3>2
  <2>3. ASSUME msg.type = t PROVE LastIs(K, t)' BY <1>1, <1>2, <1>3, <2>3 DEF LastIs
  <2> QED BY <2>1, <2>2, <2>3
<1>5. ASSUME msg.type \notin K
      PROVE (FreeOf(K)' <=> FreeOf(K)) /\ (LastIs(K, t)' <=> LastIs(K, t))
  <2>1. FreeOf(K)' <=> FreeOf(K) BY <1>1, <1>2, <1>5 DEF FreeOf, l
  <2>2. ASSUME LastIs(K, t)' PROVE LastIs(K, t)
    <3>1. PICK i \in 1..Len(notifMail') :
            /\ notifMail'[i].type = t
            /\ \A j \in 1..Len(notifMail') : i < j => notifMail'[j].type \notin K
      BY <2>2 DEF LastIs
    <3>2. i \in 1..l BY <1>1, <1>2, <1>5, <3>1
    <3> QED BY <1>1, <1>2, <3>1, <3>2 DEF LastIs, l
  <2>3. ASSUME LastIs(K, t) PROVE LastIs(K, t)'
    <3>1. PICK i \in 1..l :
            /\ notifMail[i].type = t
            /\ \A j \in 1..l : i < j => notifMail[j].type \notin K
      BY <2>3 DEF LastIs, l
    <3>2. \A j \in 1..Len(notifMail') : i < j => notifMail'[j].type \notin K
      BY <1>1, <1>2, <1>5, <3>1
    <3> QED BY <1>1, <1>2, <3>1, <3>2 DEF LastIs
  <2> QED BY <2>1, <2>2, <2>3
<1> QED BY <1>4, <1>5

\* A signal told is a message more.
LEMMA TellLast ==
  ASSUME notifMail \in Seq(Messages), NEW kind \in Signals, Tell(kind), NEW K, NEW t \in K
  PROVE  /\ kind \in K => ~FreeOf(K)' /\ (LastIs(K, t)' <=> kind = t)
         /\ kind \notin K => (FreeOf(K)' <=> FreeOf(K)) /\ (LastIs(K, t)' <=> LastIs(K, t))
<1> DEFINE x == [type |-> kind]
<1>1. x \in Messages /\ x.type = kind /\ notifMail' = Append(notifMail, x)
  BY DEF Tell, Messages, Signal
<1> HIDE DEF x
<1> QED BY <1>1, AppendLast

\* Of two messages told, one of K is the last of K.
LEMMA TellBothLast ==
  ASSUME notifMail \in Seq(Messages), NEW first \in Signals, NEW second \in Signals,
         TellBoth(first, second), NEW K, NEW t \in K
  PROVE  /\ second \in K => ~FreeOf(K)' /\ (LastIs(K, t)' <=> second = t)
         /\ first \in K /\ second \notin K => ~FreeOf(K)' /\ (LastIs(K, t)' <=> first = t)
         /\ first \notin K /\ second \notin K
              => (FreeOf(K)' <=> FreeOf(K)) /\ (LastIs(K, t)' <=> LastIs(K, t))
<1> DEFINE l == Len(notifMail)
           m == Len(notifMail')
<1>1. /\ l \in Nat /\ m = l + 2 /\ \A i \in 1..l : notifMail'[i] = notifMail[i]
      /\ notifMail'[l + 1].type = first /\ notifMail'[l + 2].type = second
  BY TellBothHas
<1>2. /\ 1..m = 1..l \cup {l + 1, l + 2} /\ \A i \in 1..l : i < l + 1 /\ i < l + 2
      /\ l + 1 < l + 2 /\ l + 1 \in 1..m /\ l + 2 \in 1..m
      /\ \A j \in 1..m : (l + 1 < j => j = l + 2) /\ ~(l + 2 < j)
  BY <1>1
<1> HIDE DEF l, m
<1>3. FreeOf(K)' <=> \A i \in 1..m : notifMail'[i].type \notin K BY DEF FreeOf, m
<1>4. FreeOf(K) <=> \A i \in 1..l : notifMail[i].type \notin K BY DEF FreeOf, l
<1>5. LastIs(K, t)' <=> \E i \in 1..m : notifMail'[i].type = t
                          /\ \A j \in 1..m : i < j => notifMail'[j].type \notin K
  BY DEF LastIs, m
<1>6. LastIs(K, t) <=> \E i \in 1..l : notifMail[i].type = t
                          /\ \A j \in 1..l : i < j => notifMail[j].type \notin K
  BY DEF LastIs, l
<1>7. ASSUME second \in K PROVE ~FreeOf(K)' /\ (LastIs(K, t)' <=> second = t)
  BY <1>1, <1>2, <1>3, <1>5, <1>7
<1>8. ASSUME first \in K, second \notin K PROVE ~FreeOf(K)' /\ (LastIs(K, t)' <=> first = t)
  BY <1>1, <1>2, <1>3, <1>5, <1>8
<1>9. ASSUME first \notin K, second \notin K
      PROVE (FreeOf(K)' <=> FreeOf(K)) /\ (LastIs(K, t)' <=> LastIs(K, t))
  BY <1>1, <1>2, <1>3, <1>4, <1>5, <1>6, <1>9
<1> QED BY <1>7, <1>8, <1>9

\* A message received leaves the last of K, unless it was the only one.
LEMMA ReceiveLast ==
  ASSUME notifMail \in Seq(Messages), NEW kind, ReceiveNotice(kind), NEW K, NEW t \in K
  PROVE  /\ FreeOf(K) <=> FreeOf(K)' /\ kind \notin K
         /\ ~FreeOf(K)' => (LastIs(K, t)' <=> LastIs(K, t))
         /\ FreeOf(K)' /\ kind \in K => (LastIs(K, t) <=> kind = t)
<1> DEFINE l == Len(notifMail)
           m == Len(notifMail')
<1>1. /\ l \in Nat /\ m \in Nat /\ l = m + 1 /\ notifMail[1].type = kind
      /\ \A i \in 1..m : notifMail'[i] = notifMail[i + 1]
  BY DEF ReceiveNotice
<1>2. /\ \A i \in 1..l : i = 1 \/ \E j \in 1..m : i = j + 1
      /\ \A j \in 1..m : j + 1 \in 1..l /\ 1 < j + 1
      /\ 1 \in 1..l
  <2>1. ASSUME NEW i \in 1..l, i # 1 PROVE \E j \in 1..m : i = j + 1
    <3>1. i - 1 \in 1..m /\ i = (i - 1) + 1 BY <1>1, <2>1
    <3> QED BY <3>1
  <2> QED BY <1>1, <2>1
<1>3. \A i, j \in 1..m : i < j <=> i + 1 < j + 1 BY <1>1
<1> HIDE DEF l, m
<1>4. FreeOf(K)' <=> \A i \in 1..m : notifMail'[i].type \notin K BY DEF FreeOf, m
<1>5. FreeOf(K) <=> \A i \in 1..l : notifMail[i].type \notin K BY DEF FreeOf, l
<1>6. LastIs(K, t)' <=> \E i \in 1..m : notifMail'[i].type = t
                          /\ \A j \in 1..m : i < j => notifMail'[j].type \notin K
  BY DEF LastIs, m
<1>7. LastIs(K, t) <=> \E i \in 1..l : notifMail[i].type = t
                          /\ \A j \in 1..l : i < j => notifMail[j].type \notin K
  BY DEF LastIs, l
<1>8. FreeOf(K) <=> FreeOf(K)' /\ kind \notin K BY <1>1, <1>2, <1>4, <1>5
<1>9. ASSUME ~FreeOf(K)', LastIs(K, t)' PROVE LastIs(K, t)
  <2>1. PICK i \in 1..m : notifMail'[i].type = t
                            /\ \A j \in 1..m : i < j => notifMail'[j].type \notin K
    BY <1>6, <1>9
  <2>2. ASSUME NEW j \in 1..l, i + 1 < j PROVE notifMail[j].type \notin K
    <3>1. j # 1 BY <1>1, <2>2
    <3>2. PICK h \in 1..m : j = h + 1 BY <1>2, <3>1
    <3> QED BY <1>1, <1>3, <2>1, <2>2, <3>2
  <2> QED BY <1>1, <1>2, <1>7, <2>1, <2>2
<1>10. ASSUME ~FreeOf(K)', LastIs(K, t) PROVE LastIs(K, t)'
  <2>1. PICK i \in 1..l : notifMail[i].type = t /\ \A j \in 1..l : i < j => notifMail[j].type \notin K
    BY <1>7, <1>10
  <2>2. i # 1
    <3>1. PICK j \in 1..m : notifMail'[j].type \in K BY <1>4, <1>10
    <3> QED BY <1>1, <1>2, <2>1, <3>1
  <2>3. PICK h \in 1..m : i = h + 1 BY <1>2, <2>2
  <2>4. ASSUME NEW j \in 1..m, h < j PROVE notifMail'[j].type \notin K
    <3>1. j + 1 \in 1..l /\ i < j + 1 BY <1>2, <1>3, <2>3, <2>4
    <3> QED BY <1>1, <2>1, <3>1
  <2> QED BY <1>1, <1>6, <2>1, <2>3, <2>4
<1>11. ASSUME FreeOf(K)', kind \in K PROVE LastIs(K, t) <=> kind = t
  <2>1. \A j \in 1..l : 1 < j => notifMail[j].type \notin K
    <3>1. ASSUME NEW j \in 1..l, 1 < j PROVE notifMail[j].type \notin K
      <4>1. PICK h \in 1..m : j = h + 1 BY <1>2, <3>1
      <4> QED BY <1>1, <1>4, <1>11, <4>1
    <3> QED BY <3>1
  <2>2. ASSUME NEW i \in 1..l, notifMail[i].type = t PROVE i = 1 BY <1>1, <1>2, <2>1, <2>2
  <2> QED BY <1>1, <1>2, <1>7, <2>1, <2>2
<1> QED BY <1>8, <1>9, <1>10, <1>11

-----------------------------------------------------------------------------
(* The invariant, one lemma per side.                                      *)

\* An empty mailbox is free of every type.
LEMMA EmptyIsFree ==
  ASSUME notifMail = <<>>, NEW K
  PROVE  FreeOf(K)
BY DEF FreeOf

LEMMA InitFlags ==
  ASSUME NotificationInit
  PROVE  FlagInv
<1>1. published \in 0..MaxPublish /\ notifMail \in Seq(Messages)
  BY NotificationAssumption DEF NotificationAssumption, NotificationInit
<1>2. FreeOf(GateTypes) /\ FreeOf(HoldTypes) BY EmptyIsFree DEF NotificationInit
<1> QED BY <1>1, <1>2 DEF FlagInv, GateInv, HoldInv, Holding, NotificationInit

\* What a publication says of the flags: nothing.
LEMMA PublishLast ==
  ASSUME notifMail \in Seq(Messages), published \in 0..MaxPublish, Publish
  PROVE  /\ notifMail' \in Seq(Messages) /\ published' \in 0..MaxPublish
         /\ \A K : "publish" \notin K => FreeOf(K)' <=> FreeOf(K)
         /\ \A K : \A t \in K : "publish" \notin K => (LastIs(K, t)' <=> LastIs(K, t))
         /\ Has("unsubscribe")' <=> Has("unsubscribe")
<1>1. PICK msg \in Messages : msg.type = "publish" /\ notifMail' = Append(notifMail, msg)
  <2>1. PICK priority \in {"normal", "high"}, key \in Keys \cup {NoKey} :
          notifMail' = Append(notifMail,
            [type |-> "publish",
             note |-> [id |-> published', priority |-> priority, key |-> key]])
    BY DEF Publish
  <2>2. published' \in 1..MaxPublish BY NotificationAssumption DEF NotificationAssumption, Publish
  <2> QED BY <2>1, <2>2 DEF Messages, Publication, Note
<1>2. published' \in 0..MaxPublish BY NotificationAssumption DEF NotificationAssumption, Publish
<1>3. ASSUME NEW K, NEW t \in K, "publish" \notin K
      PROVE  (FreeOf(K)' <=> FreeOf(K)) /\ (LastIs(K, t)' <=> LastIs(K, t))
  BY <1>1, <1>3, AppendLast
<1>4. ASSUME NEW K, "publish" \notin K PROVE FreeOf(K)' <=> FreeOf(K)
  <2>1. CASE K = {} BY <2>1 DEF FreeOf
  <2>2. CASE K # {} BY <1>3, <1>4, <2>2
  <2> QED BY <2>1, <2>2
<1>5. (Has("unsubscribe")' <=> Has("unsubscribe")) /\ notifMail' \in Seq(Messages)
  BY <1>1, AppendHas
<1> QED BY <1>2, <1>3, <1>4, <1>5

\* A signal about one pair of flags leaves the other pair alone.
LEMMA GateTold ==
  ASSUME FlagInv, NEW kind \in Signals, Tell(kind), audioReceived' = audioReceived,
         kind \in GateTypes => (sinkStarted' <=> kind = "audio_started"),
         kind \notin GateTypes => sinkStarted' = sinkStarted
  PROVE  GateInv'
<1> DEFINE t == "audio_started"
<1>1. t \in GateTypes BY DEF GateTypes
<1>2. notifMail \in Seq(Messages) /\ GateInv BY DEF FlagInv
<1> HIDE DEF t
<1>3. /\ kind \in GateTypes => ~FreeOf(GateTypes)' /\ (LastIs(GateTypes, t)' <=> kind = t)
      /\ kind \notin GateTypes => /\ FreeOf(GateTypes)' <=> FreeOf(GateTypes)
                                  /\ LastIs(GateTypes, t)' <=> LastIs(GateTypes, t)
  BY <1>1, <1>2, TellLast
<1> QED BY <1>2, <1>3 DEF GateInv, t

LEMMA HoldTold ==
  ASSUME FlagInv, NEW kind \in Signals, Tell(kind), held' = held,
         kind \in HoldTypes => (Holding' <=> kind = "hold"),
         kind \notin HoldTypes => (Holding' <=> Holding)
  PROVE  HoldInv'
<1> DEFINE t == "hold"
<1>1. t \in HoldTypes BY DEF HoldTypes
<1>2. notifMail \in Seq(Messages) /\ HoldInv BY DEF FlagInv
<1> HIDE DEF t
<1>3. /\ kind \in HoldTypes => ~FreeOf(HoldTypes)' /\ (LastIs(HoldTypes, t)' <=> kind = t)
      /\ kind \notin HoldTypes => /\ FreeOf(HoldTypes)' <=> FreeOf(HoldTypes)
                                  /\ LastIs(HoldTypes, t)' <=> LastIs(HoldTypes, t)
  BY <1>1, <1>2, TellLast
<1> QED BY <1>2, <1>3 DEF HoldInv, t

\* What the session does says in the mailbox what it did to the flags.
LEMMA SessionFlags ==
  ASSUME FlagInv, SessionCalls
  PROVE  FlagInv'
<1>0. /\ notifMail \in Seq(Messages) /\ GateInv /\ HoldInv /\ published \in 0..MaxPublish
      /\ freshSpeech \in BOOLEAN /\ dialWindow \in BOOLEAN /\ sinkStarted \in BOOLEAN
      /\ audioReceived \in BOOLEAN /\ held \in BOOLEAN
  BY DEF FlagInv
<1>1. ASSUME NEW kind \in Signals, Tell(kind), UNCHANGED <<audioReceived, held, published>>,
             freshSpeech' \in BOOLEAN, dialWindow' \in BOOLEAN, sinkStarted' \in BOOLEAN,
             kind \in GateTypes => (sinkStarted' <=> kind = "audio_started"),
             kind \notin GateTypes => sinkStarted' = sinkStarted,
             kind \in HoldTypes => (Holding' <=> kind = "hold"),
             kind \notin HoldTypes => (Holding' <=> Holding)
      PROVE  FlagInv'
  <2>1. GateInv' BY <1>1, GateTold
  <2>2. HoldInv' BY <1>1, HoldTold
  <2>3. notifMail' \in Seq(Messages) BY <1>0, <1>1, TellHas
  <2> QED BY <1>0, <1>1, <2>1, <2>2, <2>3 DEF FlagInv
<1>2. CASE AudioOutput
  BY <1>0, <1>1, <1>2 DEF AudioOutput, Signals, GateTypes, HoldTypes, Holding, actorSide, history
<1>3. CASE ResetAudio
  BY <1>0, <1>1, <1>3 DEF ResetAudio, Signals, GateTypes, HoldTypes, Holding, actorSide, history
<1>4. CASE Interrupted
  <2>1. /\ TellBoth("reset_audio", "interrupted") /\ sinkStarted' = FALSE
        /\ "reset_audio" \in Signals /\ "interrupted" \in Signals
        /\ UNCHANGED <<freshSpeech, dialWindow, audioReceived, held, published>>
    BY <1>4 DEF Interrupted, actorSide, history, Signals
  <2>2. notifMail' \in Seq(Messages) BY <1>0, <2>1, TellBothHas
  <2>3. ~FreeOf(GateTypes)' /\ ~LastIs(GateTypes, "audio_started")'
    <3>1. "reset_audio" \in GateTypes /\ "interrupted" \notin GateTypes /\ "audio_started" \in GateTypes
      BY DEF GateTypes
    <3>2. ~FreeOf(GateTypes)' /\ (LastIs(GateTypes, "audio_started")' <=> "reset_audio" = "audio_started")
      BY <1>0, <2>1, <3>1, TellBothLast
    <3> QED BY <3>2
  <2>4. /\ FreeOf(HoldTypes)' <=> FreeOf(HoldTypes)
        /\ LastIs(HoldTypes, "hold")' <=> LastIs(HoldTypes, "hold")
    BY <1>0, <2>1, TellBothLast DEF HoldTypes
  <2> QED BY <1>0, <2>1, <2>2, <2>3, <2>4 DEF FlagInv, GateInv, HoldInv, Holding
<1>5. CASE TurnComplete
  BY <1>0, <1>1, <1>5 DEF TurnComplete, Signals, GateTypes, HoldTypes, Holding, actorSide, history
<1>6. CASE Publish
  <2>1. UNCHANGED <<freshSpeech, dialWindow, sinkStarted, audioReceived, held>>
    BY <1>6 DEF Publish, sessionSide, actorSide
  <2>2. /\ notifMail' \in Seq(Messages) /\ published' \in 0..MaxPublish
        /\ (FreeOf(GateTypes)' <=> FreeOf(GateTypes)) /\ (FreeOf(HoldTypes)' <=> FreeOf(HoldTypes))
        /\ LastIs(GateTypes, "audio_started")' <=> LastIs(GateTypes, "audio_started")
        /\ LastIs(HoldTypes, "hold")' <=> LastIs(HoldTypes, "hold")
    BY <1>0, <1>6, PublishLast DEF GateTypes, HoldTypes
  <2> QED BY <1>0, <2>1, <2>2 DEF FlagInv, GateInv, HoldInv, Holding
<1>7. CASE EngageHold
  BY <1>0, <1>1, <1>7 DEF EngageHold, Signals, GateTypes, HoldTypes, Holding, actorSide, history
<1>8. CASE ReleaseHold
  <2>1. /\ freshSpeech' = FALSE /\ freshSpeech
        /\ UNCHANGED <<dialWindow, sinkStarted, audioReceived, held, published>>
        /\ (dialWindow /\ UNCHANGED notifMail) \/ (~dialWindow /\ Tell("release"))
    BY <1>8 DEF ReleaseHold, actorSide, history
  <2>2. CASE dialWindow /\ UNCHANGED notifMail
    BY <1>0, <2>1, <2>2 DEF FlagInv, GateInv, HoldInv, Holding, FreeOf, LastIs
  <2>3. CASE ~dialWindow /\ Tell("release")
    BY <1>0, <1>1, <2>1, <2>3 DEF Signals, GateTypes, HoldTypes, Holding
  <2> QED BY <2>1, <2>2, <2>3
<1>9. CASE EngageDialWindow
  BY <1>0, <1>1, <1>9 DEF EngageDialWindow, Signals, GateTypes, HoldTypes, Holding, actorSide, history
<1>10. CASE ReleaseDialWindow
  <2>1. /\ dialWindow' = FALSE /\ dialWindow
        /\ UNCHANGED <<freshSpeech, audioReceived, held, published>>
    BY <1>10 DEF ReleaseDialWindow, actorSide, history
  <2>2. CASE freshSpeech /\ UNCHANGED <<notifMail, sinkStarted>>
    BY <1>0, <2>1, <2>2 DEF FlagInv, GateInv, HoldInv, Holding, FreeOf, LastIs
  <2>3. CASE ~freshSpeech /\ Tell("release") /\ UNCHANGED sinkStarted
    BY <1>0, <1>1, <2>1, <2>3 DEF Signals, GateTypes, HoldTypes, Holding
  <2>4. CASE ~freshSpeech /\ TellBoth("release", "turn_complete") /\ sinkStarted' = FALSE
    <3>1. "release" \in Signals /\ "turn_complete" \in Signals BY DEF Signals
    <3>2. notifMail' \in Seq(Messages) BY <1>0, <2>4, <3>1, TellBothHas
    <3>3. ~FreeOf(GateTypes)' /\ ~LastIs(GateTypes, "audio_started")'
      BY <1>0, <2>4, <3>1, TellBothLast DEF GateTypes
    <3>4. ~FreeOf(HoldTypes)' /\ ~LastIs(HoldTypes, "hold")'
      BY <1>0, <2>4, <3>1, TellBothLast DEF HoldTypes
    <3> QED BY <1>0, <2>1, <2>4, <3>2, <3>3, <3>4 DEF FlagInv, GateInv, HoldInv, Holding
  <2> QED BY <1>10, <2>2, <2>3, <2>4 DEF ReleaseDialWindow
<1> QED BY <1>2, <1>3, <1>4, <1>5, <1>6, <1>7, <1>8, <1>9, <1>10 DEF SessionCalls

\* A notice handled does to the actor's flags what it says.
LEMMA NoticeFlags ==
  ASSUME FlagInv, NEW kind, ReceiveNotice(kind), audioReceived' \in BOOLEAN, held' \in BOOLEAN,
         kind \in GateTypes => (audioReceived' <=> kind = "audio_started"),
         kind \notin GateTypes => audioReceived' = audioReceived,
         kind \in HoldTypes => (held' <=> kind = "hold"),
         kind \notin HoldTypes => held' = held
  PROVE  FlagInv'
<1>1. /\ notifMail \in Seq(Messages) /\ GateInv /\ HoldInv /\ published \in 0..MaxPublish
      /\ freshSpeech \in BOOLEAN /\ dialWindow \in BOOLEAN /\ sinkStarted \in BOOLEAN
      /\ UNCHANGED <<freshSpeech, dialWindow, sinkStarted, published>>
  BY DEF FlagInv, ReceiveNotice, sessionSide
<1>2. notifMail' \in Seq(Messages) BY <1>1, ReceiveHas
<1> DEFINE t == "audio_started"
           h == "hold"
<1>3. t \in GateTypes /\ h \in HoldTypes BY DEF GateTypes, HoldTypes
<1> HIDE DEF t, h
<1>4. /\ FreeOf(GateTypes) <=> FreeOf(GateTypes)' /\ kind \notin GateTypes
      /\ ~FreeOf(GateTypes)' => (LastIs(GateTypes, t)' <=> LastIs(GateTypes, t))
      /\ FreeOf(GateTypes)' /\ kind \in GateTypes => (LastIs(GateTypes, t) <=> kind = t)
  BY <1>1, <1>3, ReceiveLast
<1>5. /\ FreeOf(HoldTypes) <=> FreeOf(HoldTypes)' /\ kind \notin HoldTypes
      /\ ~FreeOf(HoldTypes)' => (LastIs(HoldTypes, h)' <=> LastIs(HoldTypes, h))
      /\ FreeOf(HoldTypes)' /\ kind \in HoldTypes => (LastIs(HoldTypes, h) <=> kind = h)
  BY <1>1, <1>3, ReceiveLast
<1>6. GateInv' BY <1>1, <1>4 DEF GateInv, t
<1>7. HoldInv' BY <1>1, <1>5 DEF HoldInv, Holding, h
<1> QED BY <1>1, <1>2, <1>6, <1>7 DEF FlagInv

LEMMA ActorFlags ==
  ASSUME FlagInv, ActorHandles
  PROVE  FlagInv'
<1>0. audioReceived \in BOOLEAN /\ held \in BOOLEAN BY DEF FlagInv
<1> USE DEF GateTypes, HoldTypes
<1>1. CASE HandlePublish BY <1>0, <1>1, NoticeFlags DEF HandlePublish
<1>2. CASE HandleAudioStarted BY <1>0, <1>2, NoticeFlags DEF HandleAudioStarted
<1>3. CASE HandleResetAudio BY <1>0, <1>3, NoticeFlags DEF HandleResetAudio
<1>4. CASE HandleInterrupted BY <1>0, <1>4, NoticeFlags DEF HandleInterrupted
<1>5. CASE HandleSetHeld BY <1>0, <1>5, NoticeFlags DEF HandleSetHeld
<1>6. CASE HandleSubscription BY <1>0, <1>6, NoticeFlags DEF HandleSubscription
<1>7. CASE HandleTurnComplete BY <1>0, <1>7, NoticeFlags DEF HandleTurnComplete
<1> QED BY <1>1, <1>2, <1>3, <1>4, <1>5, <1>6, <1>7 DEF ActorHandles

LEMMA TransportFlags ==
  ASSUME FlagInv, TransportHandles
  PROVE  FlagInv'
<1>0. /\ notifMail \in Seq(Messages) /\ published \in 0..MaxPublish
      /\ freshSpeech \in BOOLEAN /\ dialWindow \in BOOLEAN /\ sinkStarted \in BOOLEAN
      /\ audioReceived \in BOOLEAN /\ held \in BOOLEAN
  BY DEF FlagInv
<1>1. UNCHANGED <<sessionSide, actorSide, published>>
      /\ (UNCHANGED notifMail \/ Tell("subscribe") \/ Tell("unsubscribe"))
  BY DEF TransportHandles, HandleCancel, WriteNotification, WriteThrows, FinishRestart, history
<1>2. CASE UNCHANGED notifMail
  BY <1>1, <1>2 DEF FlagInv, GateInv, HoldInv, Holding, FreeOf, LastIs, sessionSide, actorSide
<1>3. ASSUME NEW kind \in {"subscribe", "unsubscribe"}, Tell(kind) PROVE FlagInv'
  <2>1. kind \in Signals /\ kind \notin GateTypes /\ kind \notin HoldTypes
    BY DEF Signals, GateTypes, HoldTypes
  <2>2. notifMail' \in Seq(Messages) BY <1>0, <1>3, <2>1, TellHas
  <2>3. UNCHANGED <<freshSpeech, dialWindow, sinkStarted, audioReceived, held>>
    BY <1>1 DEF sessionSide, actorSide
  <2>4. GateInv' BY <1>3, <2>1, <2>3, GateTold
  <2>5. HoldInv' BY <1>3, <2>1, <2>3, HoldTold DEF Holding
  <2> QED BY <1>0, <1>1, <2>2, <2>3, <2>4, <2>5 DEF FlagInv
<1> QED BY <1>1, <1>2, <1>3

\* The invariant holds throughout every run.
THEOREM FlagsInductive == NotificationSpec => []FlagInv
  <1>1. NotificationInit => FlagInv BY InitFlags
  <1>2. FlagInv /\ [NotificationNext]_notificationVars => FlagInv'
    <2>1. ASSUME FlagInv, UNCHANGED notificationVars PROVE FlagInv'
      BY <2>1 DEF notificationVars, sessionSide, actorSide, transportSide, history, FlagInv, GateInv, HoldInv,
         Holding, FreeOf, LastIs
    <2> QED BY <2>1, SessionFlags, ActorFlags, TransportFlags DEF NotificationNext
  <1> QED BY <1>1, <1>2, PTL DEF NotificationSpec

-----------------------------------------------------------------------------
(* What follows from it.                                                   *)

\* The debounce of the sink and the gate of the actor agree between messages.
THEOREM GateAgrees == NotificationSpec => []GateFollowsSink
  <1>1. FlagInv => GateFollowsSink BY EmptyIsFree DEF FlagInv, GateInv, GateFollowsSink
  <1> QED BY <1>1, FlagsInductive, PTL

\* Delivery is held exactly while one of the two holds is engaged.
THEOREM HoldAgrees == NotificationSpec => []HoldFollowsReasons
  <1>1. FlagInv => HoldFollowsReasons
    BY EmptyIsFree DEF FlagInv, HoldInv, Holding, HoldFollowsReasons
  <1> QED BY <1>1, FlagsInductive, PTL

-----------------------------------------------------------------------------
(* The queue of notifications and where each of them is.                   *)

\* Whether x, an entry of a mailbox of kind k or of a plain sequence, carries n.
Carries(k, x, n) == IF k = "note" THEN x = n ELSE x.type = k /\ x.note = n

\* The lane s of kind k carries n.
In(k, s, n) == \E i \in 1..Len(s) : Carries(k, s[i], n)

\* ... and carries it behind m.
Before(k, s, m, n) ==
  \E i, j \in 1..Len(s) : i < j /\ Carries(k, s[i], m) /\ Carries(k, s[j], n)

\* Where a notification can be.
Mailed(n) == In("publish", notifMail, n)
Waiting(n) == In("note", queue, n)
Delivered(n) == In("delivered", transportMail, n)
Written(n) == In("note", wire, n)
Handled(n) == Waiting(n) \/ Delivered(n) \/ Written(n)

\* They are not the same, and of one key only in the order of publication.
Apart(m, n) == m.id # n.id /\ (m.key = n.key /\ m.key # NoKey => m.id < n.id)

\* What the lanes consist of.
QueueTypes ==
  /\ queue \in Seq(Note) /\ transportMail \in Seq(Delivery \cup {Cancel}) /\ wire \in Seq(Note)
  /\ superseded \cup lost \subseteq 1..published

\* Ids are numbers of publications, and what is in the mailbox is newer than what
\* was handled.
Numbered ==
  /\ \A n \in Note : Handled(n) \/ Mailed(n) => n.id <= published
  /\ \A m, n \in Note : Handled(m) /\ Mailed(n) => m.id < n.id
  /\ \A n \in Note : Mailed(n) => \A i \in superseded \cup lost : i < n.id
  /\ \A m, n \in Note : Before("publish", notifMail, m, n) => m.id < n.id

\* What stands ahead in the line is another, and older if the key is the same; the
\* queue has a key once.
InLine ==
  \A m, n \in Note :
    /\ Before("note", queue, m, n) => m.id # n.id /\ (m.key = n.key => m.key = NoKey)
    /\ Before("delivered", transportMail, m, n) => Apart(m, n)
    /\ Before("note", wire, m, n) => Apart(m, n)
    /\ Written(m) /\ Delivered(n) => Apart(m, n)
    /\ (Written(m) \/ Delivered(m)) /\ Waiting(n) => Apart(m, n)

\* What was replaced or lost is nowhere else.
Gone ==
  /\ superseded \cap lost = {}
  /\ \A n \in Note : Handled(n) => n.id \notin superseded \cup lost

\* Every publication is somewhere.
NothingVanishes ==
  \A id \in 1..published :
    id \in superseded \cup lost \/ \E n \in Note : n.id = id /\ (Handled(n) \/ Mailed(n))

\* The books of the notifications.
BookInv == QueueTypes /\ Numbered /\ InLine /\ Gone /\ NothingVanishes

\* A set of natural numbers has a least member.
LEMMA LeastIn ==
  ASSUME NEW S, S \subseteq Nat, S # {}
  PROVE  \E j \in S : \A m \in S : j <= m
<1>1. PICK j \in S : \A m \in S : ~(<<m, j>> \in OpToRel(<, Nat)) BY NatLessThanWellFounded, WFMin
<1>2. ASSUME NEW m \in S PROVE j <= m
  <2>2. m \in Nat /\ j \in Nat /\ ~(m < j) BY <1>1 DEF OpToRel
  <2> QED BY <2>2
<1> QED BY <1>2

-----------------------------------------------------------------------------
\* An entry carries one notification at most.
LEMMA CarriesOne ==
  ASSUME NEW k, NEW x, NEW m, NEW n, Carries(k, x, m), Carries(k, x, n)
  PROVE  m = n
  BY DEF Carries

\* An empty lane carries none.
LEMMA EmptyLane ==
  ASSUME NEW k
  PROVE  /\ \A n : ~In(k, <<>>, n)
         /\ \A m, n : ~Before(k, <<>>, m, n)
  BY DEF In, Before

\* What stands before another is in the lane, and so is the other.
LEMMA BeforeIn ==
  ASSUME NEW k, NEW s, NEW m, NEW n, Before(k, s, m, n)
  PROVE  In(k, s, m) /\ In(k, s, n)
  BY DEF In, Before

\* Of two notifications in a lane one stands before the other.
LEMMA InLane ==
  ASSUME NEW X, NEW s \in Seq(X), NEW k, NEW m, NEW n, In(k, s, m), In(k, s, n)
  PROVE  m = n \/ Before(k, s, m, n) \/ Before(k, s, n, m)
<1>1. PICK i \in 1..Len(s) : Carries(k, s[i], m) BY DEF In
<1>2. PICK j \in 1..Len(s) : Carries(k, s[j], n) BY DEF In
<1>3. Len(s) \in Nat OBVIOUS
<1>4. CASE i = j BY <1>1, <1>2, <1>4, CarriesOne
<1>5. CASE i < j BY <1>1, <1>2, <1>5 DEF Before
<1>6. CASE j < i BY <1>1, <1>2, <1>6 DEF Before
<1> QED BY <1>3, <1>4, <1>5, <1>6

\* An entry more, at the end.
LEMMA AppendLane ==
  ASSUME NEW X, NEW s \in Seq(X), NEW x \in X, NEW k
  PROVE  /\ \A n : In(k, Append(s, x), n) <=> In(k, s, n) \/ Carries(k, x, n)
         /\ \A m, n : Before(k, Append(s, x), m, n)
                        <=> Before(k, s, m, n) \/ (In(k, s, m) /\ Carries(k, x, n))
<1> DEFINE t == Append(s, x)
           l == Len(s)
<1>1. /\ l \in Nat /\ Len(t) = l + 1 /\ t[l + 1] = x
      /\ \A i \in 1..l : t[i] = s[i]
  OBVIOUS
<1> HIDE DEF t
<1>2. 1..Len(t) = 1..l \cup {l + 1} /\ \A i \in 1..l : i < l + 1 BY <1>1
<1>3. ASSUME NEW n PROVE In(k, t, n) <=> In(k, s, n) \/ Carries(k, x, n) BY <1>1, <1>2 DEF In
<1>4. ASSUME NEW m, NEW n
      PROVE Before(k, t, m, n) <=> Before(k, s, m, n) \/ (In(k, s, m) /\ Carries(k, x, n))
  <2>1. ASSUME Before(k, t, m, n) PROVE Before(k, s, m, n) \/ (In(k, s, m) /\ Carries(k, x, n))
    <3>1. PICK i, j \in 1..Len(t) : i < j /\ Carries(k, t[i], m) /\ Carries(k, t[j], n)
      BY <2>1 DEF Before
    <3>2. i \in 1..l BY <1>1, <3>1
    <3>3. CASE j = l + 1 BY <1>1, <3>1, <3>2, <3>3 DEF In
    <3>4. CASE j \in 1..l BY <1>1, <3>1, <3>2, <3>4 DEF Before
    <3> QED BY <1>2, <3>3, <3>4
  <2>2. ASSUME Before(k, s, m, n) PROVE Before(k, t, m, n) BY <1>1, <1>2, <2>2 DEF Before
  <2>3. ASSUME In(k, s, m), Carries(k, x, n) PROVE Before(k, t, m, n)
    <3>1. PICK i \in 1..l : Carries(k, s[i], m) BY <2>3 DEF In
    <3> QED BY <1>1, <1>2, <2>3, <3>1 DEF Before
  <2> QED BY <2>1, <2>2, <2>3
<1> QED BY <1>3, <1>4 DEF t

\* A lane is its head and what stands behind it.
LEMMA HeadLane ==
  ASSUME NEW X, NEW s \in Seq(X), s # <<>>, NEW k
  PROVE  /\ \A n : In(k, s, n) <=> Carries(k, Head(s), n) \/ In(k, Tail(s), n)
         /\ \A m, n : Before(k, s, m, n)
                        <=> (Carries(k, Head(s), m) /\ In(k, Tail(s), n))
                          \/ Before(k, Tail(s), m, n)
<1> DEFINE t == Tail(s)
           h == Head(s)
           l == Len(t)
<1>1. /\ l \in Nat /\ Len(s) = l + 1 /\ s[1] = h
      /\ \A i \in 1..l : t[i] = s[i + 1]
  OBVIOUS
<1> HIDE DEF t, h
<1>2. ASSUME NEW i \in 1..Len(s) PROVE i = 1 \/ (i - 1 \in 1..l /\ t[i - 1] = s[i])
  <2>1. CASE i # 1 BY <1>1, <2>1
  <2> QED BY <2>1
<1>3. \A i \in 1..l : i + 1 \in 1..Len(s) /\ 1 < i + 1 BY <1>1
<1>4. 1 \in 1..Len(s) BY <1>1
<1>5. ASSUME NEW n PROVE In(k, s, n) <=> Carries(k, h, n) \/ In(k, t, n)
  <2>1. ASSUME In(k, s, n) PROVE Carries(k, h, n) \/ In(k, t, n)
    <3>1. PICK i \in 1..Len(s) : Carries(k, s[i], n) BY <2>1 DEF In
    <3> QED BY <1>1, <3>1, <1>2 DEF In
  <2>2. ASSUME Carries(k, h, n) PROVE In(k, s, n) BY <1>1, <1>4, <2>2 DEF In
  <2>3. ASSUME In(k, t, n) PROVE In(k, s, n) BY <1>1, <1>3, <2>3 DEF In
  <2> QED BY <2>1, <2>2, <2>3
<1>6. ASSUME NEW m, NEW n
      PROVE Before(k, s, m, n) <=> (Carries(k, h, m) /\ In(k, t, n)) \/ Before(k, t, m, n)
  <2>1. ASSUME Before(k, s, m, n) PROVE (Carries(k, h, m) /\ In(k, t, n)) \/ Before(k, t, m, n)
    <3>1. PICK i, j \in 1..Len(s) : i < j /\ Carries(k, s[i], m) /\ Carries(k, s[j], n)
      BY <2>1 DEF Before
    <3>2. j # 1 BY <1>1, <3>1
    <3>3. j - 1 \in 1..l /\ t[j - 1] = s[j] BY <1>2, <3>2
    <3>4. CASE i = 1 BY <1>1, <3>1, <3>3, <3>4 DEF In
    <3>5. CASE i # 1 BY <1>1, <1>2, <3>1, <3>5, <3>3 DEF Before
    <3> QED BY <3>4, <3>5
  <2>2. ASSUME Carries(k, h, m), In(k, t, n) PROVE Before(k, s, m, n)
    <3>1. PICK i \in 1..l : Carries(k, t[i], n) BY <2>2 DEF In
    <3> QED BY <1>4, <1>1, <1>3, <2>2, <3>1 DEF Before
  <2>3. ASSUME Before(k, t, m, n) PROVE Before(k, s, m, n)
    <3>1. PICK i, j \in 1..l : i < j /\ Carries(k, t[i], m) /\ Carries(k, t[j], n)
      BY <2>3 DEF Before
    <3>2. i + 1 \in 1..Len(s) /\ j + 1 \in 1..Len(s) /\ i + 1 < j + 1
          /\ Carries(k, s[i + 1], m) /\ Carries(k, s[j + 1], n)
      BY <1>1, <1>3, <3>1
    <3> QED BY <3>2 DEF Before
  <2> QED BY <2>1, <2>2, <2>3
<1> QED BY <1>5, <1>6 DEF t, h

\* An entry more, in front.
LEMMA ConsLane ==
  ASSUME NEW X, NEW s \in Seq(X), NEW x \in X, NEW k
  PROVE  /\ <<x>> \o s \in Seq(X)
         /\ \A n : In(k, <<x>> \o s, n) <=> Carries(k, x, n) \/ In(k, s, n)
         /\ \A m, n : Before(k, <<x>> \o s, m, n)
                        <=> (Carries(k, x, m) /\ In(k, s, n)) \/ Before(k, s, m, n)
<1> DEFINE t == <<x>> \o s
<1>1. t \in Seq(X) /\ t # <<>> /\ Head(t) = x /\ Len(t) = Len(s) + 1
      /\ \A i \in 1..Len(s) : t[i + 1] = s[i]
  OBVIOUS
<1>2. Tail(t) = s BY <1>1
<1> HIDE DEF t
<1>3. /\ \A n : In(k, t, n) <=> Carries(k, x, n) \/ In(k, s, n)
      /\ \A m, n : Before(k, t, m, n) <=> (Carries(k, x, m) /\ In(k, s, n)) \/ Before(k, s, m, n)
  BY <1>1, <1>2, HeadLane
<1> QED BY <1>1, <1>3 DEF t

-----------------------------------------------------------------------------
\* The entries of q up to l that are not at a place of drop, one by one.
IsKept(f, q, drop, l) ==
  f = [i \in 0..l |-> IF i = 0 THEN <<>>
                      ELSE IF i \in drop THEN f[i - 1] ELSE Append(f[i - 1], q[i])]

\* The entries can be kept one by one.
LEMMA KeptExists ==
  ASSUME NEW q, NEW drop, NEW l \in Nat
  PROVE  \E f : IsKept(f, q, drop, l)
<1> DEFINE P(m) == \E f : IsKept(f, q, drop, m)
           S == {m \in Nat : ~P(m)}
<1>1. SUFFICES S = {} OBVIOUS
<1>2. SUFFICES ASSUME S # {} PROVE FALSE OBVIOUS
<1>3. PICK m \in S : \A j \in S : m <= j
  <2>1. S \subseteq Nat OBVIOUS
  <2> HIDE DEF S
  <2> QED BY <1>2, <2>1, LeastIn
<1>4. m \in Nat /\ ~P(m) BY <1>3
<1>5. CASE m = 0
  <2> DEFINE f == [i \in 0..0 |-> <<>>]
  <2>3. IsKept(f, q, drop, 0) BY DEF IsKept
  <2> QED BY <1>4, <1>5, <2>3
<1>6. CASE m # 0
  <2>1. m - 1 \in Nat /\ m - 1 \notin S BY <1>3, <1>4, <1>6
  <2>2. PICK f : IsKept(f, q, drop, m - 1) BY <2>1
  <2> DEFINE next(e, i) == IF i \in drop THEN e ELSE Append(e, q[i])
             g == [i \in 0..m |-> IF i = m THEN next(f[m - 1], m) ELSE f[i]]
  <2>3. \A i \in 0..(m - 1) : f[i] = IF i = 0 THEN <<>> ELSE next(f[i - 1], i) BY <2>2 DEF IsKept
  <2> HIDE DEF next
  <2>4. ASSUME NEW i \in 0..m
        PROVE  g[i] = IF i = 0 THEN <<>> ELSE next(g[i - 1], i)
    <3>1. CASE i = m BY <1>4, <1>6, <3>1
    <3>2. CASE i # m
      <4>1. i \in 0..(m - 1) /\ g[i] = f[i] BY <1>4, <3>2
      <4>2. CASE i = 0 BY <2>3, <4>1, <4>2
      <4>3. CASE i # 0 BY <1>4, <4>1, <4>3, <2>3
      <4> QED BY <4>2, <4>3
    <3> QED BY <3>1, <3>2
  <2>5. g = [i \in 0..m |-> g[i]] OBVIOUS
  <2> HIDE DEF g
  <2>6. IsKept(g, q, drop, m) BY <2>4, <2>5 DEF IsKept, next
  <2> QED BY <1>4, <2>6
<1> QED BY <1>5, <1>6

\* What is kept of a queue are the entries that are not dropped, in their order.
KeptUpTo(e, q, drop, l) ==
  /\ e \in Seq(Note)
  /\ \A n : In("note", e, n) <=> \E i \in 1..l : i \notin drop /\ q[i] = n
  /\ \A m, n : Before("note", e, m, n)
       => \E i, j \in 1..l : i < j /\ i \notin drop /\ j \notin drop /\ q[i] = m /\ q[j] = n

\* One entry more is kept or dropped.
LEMMA KeptStep ==
  ASSUME NEW q \in Seq(Note), NEW drop, NEW l \in 1..Len(q), NEW e, KeptUpTo(e, q, drop, l - 1),
         NEW c, c = IF l \in drop THEN e ELSE Append(e, q[l])
  PROVE  KeptUpTo(c, q, drop, l)
<1>1. l \in Nat /\ 1..l = 1..(l - 1) \cup {l} /\ q[l] \in Note /\ \A i \in 1..(l - 1) : i < l
  OBVIOUS
<1>2. CASE l \in drop
  <2>1. c = e BY <1>2
  <2>3. ASSUME NEW m, NEW n, Before("note", c, m, n)
        PROVE  \E i, j \in 1..l : i < j /\ i \notin drop /\ j \notin drop /\ q[i] = m /\ q[j] = n
    BY <2>1, <2>3, <1>1 DEF KeptUpTo
  <2> QED BY <2>1, <2>3, <1>1, <1>2 DEF KeptUpTo
<1>3. CASE l \notin drop
  <2> DEFINE k == "note"
  <2>1. c = Append(e, q[l]) /\ e \in Seq(Note) BY <1>3 DEF KeptUpTo
  <2>2. c \in Seq(Note) BY <1>1, <2>1
  <2> HIDE DEF k
  <2>3. /\ \A n : In(k, c, n) <=> In(k, e, n) \/ Carries(k, q[l], n)
        /\ \A m, n : Before(k, c, m, n) <=> Before(k, e, m, n)
                \/ (In(k, e, m) /\ Carries(k, q[l], n))
    BY <1>1, <2>1, AppendLane
  <2>4. \A n : Carries(k, q[l], n) <=> q[l] = n BY DEF Carries, k
  <2>5. /\ \A n : In(k, e, n) <=> \E i \in 1..(l - 1) : i \notin drop /\ q[i] = n
        /\ \A m, n : Before(k, e, m, n)
          => \E i, j \in 1..(l - 1) : i < j /\ i \notin drop /\ j \notin drop /\ q[i] = m
            /\ q[j] = n
    BY DEF KeptUpTo, k
  <2>6. \A n : In(k, c, n) <=> \E i \in 1..l : i \notin drop /\ q[i] = n
    BY <1>1, <1>3, <2>3, <2>4, <2>5
  <2>7. ASSUME NEW m, NEW n, Before(k, c, m, n)
        PROVE  \E i, j \in 1..l : i < j /\ i \notin drop /\ j \notin drop /\ q[i] = m /\ q[j] = n
    <3>1. CASE Before(k, e, m, n) BY <2>5, <3>1, <1>1
    <3>2. CASE In(k, e, m) /\ q[l] = n
      <4>1. PICK i \in 1..(l - 1) : i \notin drop /\ q[i] = m BY <2>5, <3>2
      <4> QED BY <1>1, <1>3, <3>2, <4>1
    <3> QED BY <2>3, <2>4, <2>7, <3>1, <3>2
  <2> QED BY <2>2, <2>6, <2>7 DEF KeptUpTo, k
<1> QED BY <1>2, <1>3

\* The deduplicated queue is what is kept of the queue.
LEMMA DedupedKeeps ==
  ASSUME queue \in Seq(Note), NEW n
  PROVE  KeptUpTo(Deduped(n), queue, SameKey(n), Len(queue))
<1> DEFINE l == Len(queue)
           drop == SameKey(n)
           f == CHOOSE g : IsKept(g, queue, drop, l)
<1>1. l \in Nat OBVIOUS
<1>2. IsKept(f, queue, drop, l) BY <1>1, KeptExists
<1>3. Deduped(n) = f[l] BY DEF Deduped, IsKept
<1> HIDE DEF l, drop, f
<1>4. f[0] = <<>> /\ \A i \in 1..l : f[i] = IF i \in drop THEN f[i - 1] ELSE Append(f[i - 1],
      queue[i])
  <2>1. \A i \in 0..l : f[i] = IF i = 0 THEN <<>>
                          ELSE IF i \in drop THEN f[i - 1] ELSE Append(f[i - 1], queue[i])
    BY <1>2 DEF IsKept
  <2> QED BY <1>1, <2>1
<1> DEFINE J(i) == KeptUpTo(f[i], queue, drop, i)
           S == {i \in 0..l : ~J(i)}
<1>5. SUFFICES S = {} BY <1>1, <1>3 DEF l, drop
<1>6. SUFFICES ASSUME S # {} PROVE FALSE OBVIOUS
<1>7. PICK m \in S : \A j \in S : m <= j
  <2>1. S \subseteq Nat BY <1>1
  <2> HIDE DEF S
  <2> QED BY <1>6, <2>1, LeastIn
<1>8. m \in 0..l /\ ~J(m) BY <1>7
<1>9. CASE m = 0
  <2>1. J(0) BY <1>4, EmptyLane DEF KeptUpTo
  <2> QED BY <1>8, <1>9, <2>1
<1>10. CASE m # 0
  <2>1. m - 1 \in 0..l /\ m - 1 \notin S /\ m \in 1..l BY <1>1, <1>7, <1>8, <1>10
  <2>2. J(m - 1) BY <2>1
  <2>4. J(m) BY <2>1, <2>2, KeptStep, <1>4 DEF l
  <2> QED BY <1>8, <2>4
<1> QED BY <1>9, <1>10

\* A new notification replaces what has its key, and leaves the others in order.
LEMMA DedupedLane ==
  ASSUME queue \in Seq(Note), NEW n
  PROVE  /\ Deduped(n) \in Seq(Note)
         /\ \A m : In("note", Deduped(n), m) => Waiting(m) /\ (n.key = m.key => n.key = NoKey)
         /\ \A m : Waiting(m) => \/ In("note", Deduped(n), m)
                                 \/ m.id \in {queue[i].id : i \in SameKey(n)}
         /\ \A a, b : Before("note", Deduped(n), a, b) => Before("note", queue, a, b)
         /\ \A i \in SameKey(n) : Waiting(queue[i]) /\ queue[i] \in Note /\ queue[i].key = n.key
                                    /\ n.key # NoKey
<1> DEFINE e == Deduped(n)
           l == Len(queue)
           k == "note"
<1>1. KeptUpTo(e, queue, SameKey(n), l) /\ l \in Nat BY DedupedKeeps
<1> HIDE DEF e
<1>2. \A m : Waiting(m) <=> \E i \in 1..l : queue[i] = m BY DEF Waiting, In, Carries
<1>4. ASSUME NEW m, In(k, e, m) PROVE Waiting(m) /\ (n.key = m.key => n.key = NoKey)
  BY <1>1, <1>2, <1>4 DEF KeptUpTo, SameKey
<1>5. ASSUME NEW m, Waiting(m)
      PROVE  In(k, e, m) \/ m.id \in {queue[i].id : i \in SameKey(n)}
  <2>1. PICK i \in 1..l : queue[i] = m BY <1>2, <1>5
  <2>2. CASE i \in SameKey(n) BY <2>1, <2>2
  <2>3. CASE i \notin SameKey(n) BY <1>1, <2>1, <2>3 DEF KeptUpTo
  <2> QED BY <2>2, <2>3
<1>6. ASSUME NEW a, NEW b, Before(k, e, a, b) PROVE Before(k, queue, a, b)
  <2>1. PICK i, j \in 1..l : i < j /\ queue[i] = a /\ queue[j] = b BY <1>1, <1>6 DEF KeptUpTo
  <2> QED BY <2>1 DEF Before, Carries
<1>7. ASSUME NEW i \in SameKey(n)
      PROVE  Waiting(queue[i]) /\ queue[i] \in Note /\ queue[i].key = n.key /\ n.key # NoKey
  BY <1>2, <1>7 DEF SameKey
<1> QED BY <1>1, <1>4, <1>5, <1>6, <1>7 DEF KeptUpTo, e

-----------------------------------------------------------------------------
\* What a step does to the notifications in the mailbox of the actor.
SameMail ==
  /\ \A n : Mailed(n)' <=> Mailed(n)
  /\ \A m, n : Before("publish", notifMail', m, n) => Before("publish", notifMail, m, n)

\* A signal carries no notification.
LEMMA SignalCarriesNone ==
  ASSUME NEW x, x.type # "publish"
  PROVE  \A n : ~Carries("publish", x, n)
  BY DEF Carries

\* A signal told moves no notification.
LEMMA TellMail ==
  ASSUME notifMail \in Seq(Messages), NEW kind \in Signals, Tell(kind)
  PROVE  SameMail
<1> DEFINE x == [type |-> kind]
           k == "publish"
<1>1. x \in Messages /\ notifMail' = Append(notifMail, x) BY DEF Messages, Signal, Tell
<1>2. \A n : ~Carries(k, x, n) BY DEF Carries, Signals
<1> HIDE DEF x, k
<1> QED BY <1>2, <1>1, AppendLane DEF SameMail, Mailed, k

\* Nor do two.
LEMMA TellBothMail ==
  ASSUME notifMail \in Seq(Messages), NEW first \in Signals, NEW second \in Signals, TellBoth(first, second)
  PROVE  SameMail
<1> DEFINE a == [type |-> first]
           b == [type |-> second]
           s == Append(notifMail, a)
           k == "publish"
<1>1. a \in Messages /\ b \in Messages /\ notifMail' = notifMail \o <<a, b>>
  BY DEF Messages, Signal, TellBoth
<1>2. \A n : ~Carries(k, a, n) /\ ~Carries(k, b, n) BY DEF Carries, Signals
<1> HIDE DEF a, b, k
<1> DEFINE u == Append(s, b)
<1>3. s \in Seq(Messages) /\ notifMail' = u BY <1>1
<1>4. /\ \A n : In(k, s, n) <=> In(k, notifMail, n)
      /\ \A m, n : Before(k, s, m, n) <=> Before(k, notifMail, m, n)
  BY <1>1, <1>2, AppendLane
<1> HIDE DEF s
<1>5. /\ \A n : In(k, u, n) <=> In(k, s, n)
      /\ \A m, n : Before(k, u, m, n) <=> Before(k, s, m, n)
  BY <1>1, <1>2, <1>3, AppendLane
<1> HIDE DEF u
<1> QED BY <1>3, <1>4, <1>5 DEF SameMail, Mailed, k

\* A notice that was received is no longer in the mailbox.
LEMMA ReceiveMail ==
  ASSUME notifMail \in Seq(Messages), NEW kind, ReceiveNotice(kind)
  PROVE  /\ kind # "publish" => SameMail
         /\ kind = "publish" =>
              /\ Head(notifMail).note \in Note
              /\ \A m : Mailed(m) <=> m = Head(notifMail).note \/ Mailed(m)'
              /\ \A m : Mailed(m)' => Before("publish", notifMail, Head(notifMail).note, m)
              /\ \A m, n : Before("publish", notifMail', m, n)
                      => Before("publish", notifMail, m, n)
<1> DEFINE h == Head(notifMail)
           k == "publish"
<1>1. /\ notifMail # <<>> /\ notifMail' = Tail(notifMail) /\ h.type = kind /\ h \in Messages
  BY DEF ReceiveNotice
<1>2. kind = "publish" => h.note \in Note BY <1>1 DEF Messages, Signal, Signals, Publication
<1>3. \A n : Carries(k, h, n) <=> h.type = "publish" /\ h.note = n BY DEF Carries
<1> HIDE DEF h, k
<1>4. /\ \A n : In(k, notifMail, n) <=> Carries(k, h, n) \/ In(k, notifMail', n)
      /\ \A m, n : Before(k, notifMail, m, n)
                     <=> (Carries(k, h, m) /\ In(k, notifMail', n)) \/ Before(k, notifMail', m, n)
  BY <1>1, HeadLane DEF h
<1>7. ASSUME kind = "publish"
      PROVE  /\ \A m : Mailed(m) <=> m = h.note \/ Mailed(m)'
             /\ \A m : Mailed(m)' => Before(k, notifMail, h.note, m)
             /\ \A m, n : Before(k, notifMail', m, n) => Before(k, notifMail, m, n)
  BY <1>4, <1>7, <1>1, <1>3 DEF Mailed, k
<1> QED BY <1>2, <1>7, <1>1, <1>3, <1>4 DEF h, k, SameMail, Mailed

\* A step that moves no notification keeps the books.
LEMMA BooksStay ==
  ASSUME BookInv, SameMail,
         UNCHANGED <<queue, transportMail, wire, superseded, lost, published>>
  PROVE  BookInv'
<1>1. \A n : Handled(n)' <=> Handled(n) BY DEF Handled, Waiting, Delivered, Written
<1>2. QueueTypes' BY DEF BookInv, QueueTypes
<1>4. InLine' BY DEF BookInv, InLine, Waiting, Delivered, Written
<1>5. Gone' BY <1>1 DEF BookInv, Gone
<1> QED BY <1>2, <1>4, <1>5, <1>1 DEF BookInv, NothingVanishes, SameMail, Numbered

\* A publication has a number of its own, the newest.
LEMMA PublishBooks ==
  ASSUME FlagInv, BookInv, Publish
  PROVE  BookInv'
<1> DEFINE k == "publish"
<1>1. PICK priority \in {"normal", "high"}, key \in Keys \cup {NoKey} :
        notifMail' = Append(notifMail,
          [type |-> "publish",
           note |-> [id |-> published', priority |-> priority, key |-> key]])
  BY DEF Publish
<1> DEFINE n == [id |-> published', priority |-> priority, key |-> key]
           x == [type |-> "publish", note |-> n]
<1>2. /\ published \in Nat /\ published' = published + 1 /\ published' \in 1..MaxPublish
      /\ UNCHANGED <<queue, transportMail, wire, superseded, lost>>
      /\ notifMail \in Seq(Messages)
  BY NotificationAssumption DEF NotificationAssumption, Publish, actorSide,
     transportSide, FlagInv
<1>3. n \in Note /\ n.id = published' BY <1>2 DEF Note
<1>4. x \in Messages /\ notifMail' = Append(notifMail, x) /\ \A m : Carries(k, x, m) <=> m = n
  BY <1>1, <1>3 DEF Messages, Publication, Carries
<1> HIDE DEF x, k, n
<1>6. /\ \A m : Mailed(m)' <=> Mailed(m) \/ m = n
      /\ \A a, b : Before(k, notifMail', a, b)
                     <=> Before(k, notifMail, a, b) \/ (Mailed(a) /\ b = n)
  BY <1>2, <1>4, AppendLane DEF Mailed, k
<1>7. \A m : Handled(m)' <=> Handled(m) BY <1>2 DEF Handled, Waiting, Delivered, Written
<1>8. \A m \in Note : m.id \in Nat BY DEF Note
<1>9. QueueTypes' BY <1>2 DEF BookInv, QueueTypes
<1>10. Numbered'
  <2>1. \A m \in Note : Handled(m) \/ Mailed(m) => m.id <= published BY DEF BookInv, Numbered
  <2>2. \A m \in Note : Handled(m)' \/ Mailed(m)' => m.id <= published'
    BY <1>2, <1>3, <1>6, <1>7, <1>8, <2>1
  <2>3. \A a, b \in Note : Handled(a)' /\ Mailed(b)' => a.id < b.id
    BY <1>2, <1>3, <1>6, <1>7, <1>8, <2>1 DEF BookInv, Numbered
  <2>5. \A a, b \in Note : Before("publish", notifMail', a, b) => a.id < b.id
    BY <1>2, <1>3, <1>6, <1>8, <2>1 DEF BookInv, Numbered, k
  <2> QED BY <2>2, <2>3, <2>5, <1>2, <1>3, <1>6, <1>8 DEF Numbered, BookInv, QueueTypes
<1>11. InLine' BY <1>2 DEF BookInv, InLine, Waiting, Delivered, Written
<1>12. Gone' BY <1>2, <1>7 DEF BookInv, Gone
<1>13. NothingVanishes'
  <2>1. ASSUME NEW id \in 1..published'
        PROVE id \in superseded' \cup lost' \/ \E m \in Note : m.id = id
              /\ (Handled(m)' \/ Mailed(m)')
    <3>1. CASE id = published' BY <1>3, <1>6, <3>1
    <3>2. CASE id # published' BY <1>2, <3>2, <1>6, <1>7 DEF BookInv, NothingVanishes
    <3> QED BY <3>1, <3>2
  <2> QED BY <2>1 DEF NothingVanishes
<1> QED BY <1>9, <1>10, <1>11, <1>12, <1>13 DEF BookInv

-----------------------------------------------------------------------------
\* What the actor hands over stands behind what the transport has.
LEMMA DeliverLane ==
  ASSUME QueueTypes, subscribed \in BOOLEAN, NEW n \in Note, Deliver(n)
  PROVE  /\ transportMail' \in Seq(Delivery \cup {Cancel})
         /\ \A m : Delivered(m)' <=> Delivered(m) \/ (subscribed /\ m = n)
         /\ \A a, b : Before("delivered", transportMail', a, b)
              => Before("delivered", transportMail, a, b) \/ (Delivered(a) /\ subscribed /\ b = n)
         /\ lost' = IF subscribed THEN lost ELSE lost \cup {n.id}
<1> DEFINE k == "delivered"
           M == Delivery \cup {Cancel}
           d == [type |-> "delivered", note |-> n]
           cuts == n.priority = "high" /\ Truncation /\ audioReceived
           t == IF cuts THEN Append(transportMail, Cancel) ELSE transportMail
           u == IF subscribed THEN Append(t, d) ELSE t
<1>1. transportMail \in Seq(M) /\ Cancel \in M /\ d \in M BY DEF QueueTypes, Delivery
<1>2. t \in Seq(M) BY <1>1
<1>3. transportMail' = u
  <2>1. transportMail' = transportMail \o ((IF cuts THEN <<Cancel>> ELSE <<>>)
                            \o (IF subscribed THEN <<d>> ELSE <<>>))
    BY DEF Deliver, Envelopes
  <2> HIDE DEF d, M
  <2>2. CASE cuts /\ subscribed BY <2>1, <2>2, <1>1
  <2>3. CASE cuts /\ ~subscribed BY <1>1, <2>1, <2>3
  <2>4. CASE ~cuts /\ subscribed BY <1>1, <2>1, <2>4
  <2>5. CASE ~cuts /\ ~subscribed BY <1>1, <2>1, <2>5
  <2> QED BY <2>2, <2>3, <2>4, <2>5
<1>4. \A m : ~Carries(k, Cancel, m) BY DEF Carries, Cancel
<1>5. \A m : Carries(k, d, m) <=> m = n BY DEF Carries
<1>6. lost' = IF subscribed THEN lost ELSE lost \cup {n.id} BY DEF Deliver
<1> HIDE DEF k, M, d, cuts
<1>7. /\ \A m : In(k, t, m) <=> In(k, transportMail, m)
      /\ \A a, b : Before(k, t, a, b) <=> Before(k, transportMail, a, b)
  <2>1. CASE ~cuts BY <2>1
  <2>2. CASE cuts
    <3> DEFINE s == Append(transportMail, Cancel)
    <3>2. t = s BY <2>2
    <3> QED BY <1>4, <3>2, <1>1, AppendLane
  <2> QED BY <2>1, <2>2
<1> HIDE DEF t
<1>8. /\ u \in Seq(M)
      /\ \A m : In(k, u, m) <=> In(k, t, m) \/ (subscribed /\ m = n)
      /\ \A a, b : Before(k, u, a, b) => Before(k, t, a, b)
              \/ (In(k, t, a) /\ subscribed /\ b = n)
  <2>1. CASE ~subscribed BY <1>2, <2>1
  <2>2. CASE subscribed
    <3> DEFINE s == Append(t, d)
    <3>1. /\ \A m : In(k, s, m) <=> In(k, t, m) \/ Carries(k, d, m)
          /\ \A a, b : Before(k, s, a, b) <=> Before(k, t, a, b)
                  \/ (In(k, t, a) /\ Carries(k, d, b))
      BY <1>1, <1>2, AppendLane
    <3>2. u = s /\ s \in Seq(M) BY <1>1, <1>2, <2>2
    <3> HIDE DEF s
    <3> QED BY <1>5, <2>2, <3>1, <3>2
  <2> QED BY <2>1, <2>2
<1> HIDE DEF u
<1> QED BY <1>3, <1>6, <1>7, <1>8 DEF Delivered, k, M

\* A notification filed joins the queue.
LEMMA FiledLane ==
  ASSUME NEW q \in Seq(Note), NEW n \in Note
  PROVE  /\ Filed(n, q) \in Seq(Note)
         /\ \A m : In("note", Filed(n, q), m) <=> In("note", q, m) \/ m = n
         /\ \A a, b : Before("note", Filed(n, q), a, b)
              => \/ Before("note", q, a, b)
                 \/ In("note", q, a) /\ b = n
                 \/ a = n /\ In("note", q, b)
<1> DEFINE k == "note"
<1>1. \A m : Carries(k, n, m) <=> m = n BY DEF Carries
<1> HIDE DEF k
<1>2. CASE n.priority = "high"
  <2> DEFINE s == <<n>> \o q
  <2>1. /\ s \in Seq(Note)
        /\ \A m : In(k, s, m) <=> Carries(k, n, m) \/ In(k, q, m)
        /\ \A a, b : Before(k, s, a, b) <=> (Carries(k, n, a) /\ In(k, q, b))
                \/ Before(k, q, a, b)
    BY ConsLane
  <2>2. Filed(n, q) = s BY <1>2 DEF Filed
  <2> HIDE DEF s
  <2> QED BY <1>1, <2>1, <2>2 DEF k
<1>3. CASE n.priority # "high"
  <2> DEFINE s == Append(q, n)
  <2>1. /\ s \in Seq(Note)
        /\ \A m : In(k, s, m) <=> In(k, q, m) \/ Carries(k, n, m)
        /\ \A a, b : Before(k, s, a, b) <=> Before(k, q, a, b)
                \/ (In(k, q, a) /\ Carries(k, n, b))
    BY AppendLane
  <2>2. Filed(n, q) = s BY <1>3 DEF Filed
  <2> HIDE DEF s
  <2> QED BY <1>1, <2>1, <2>2 DEF k
<1> QED BY <1>2, <1>3

\* What the actor does with a notification it takes from its mailbox.
LEMMA HandlePublishBooks ==
  ASSUME FlagInv, BookInv, subscribed \in BOOLEAN, HandlePublish
  PROVE  BookInv'
<1> DEFINE n == Head(notifMail).note
           e == Deduped(n)
           gone == {queue[i].id : i \in SameKey(n)}
           k == "note"
           p == "publish"
<1>1. /\ ReceiveNotice("publish") /\ notifMail \in Seq(Messages)
           /\ superseded' = superseded \cup gone
      /\ UNCHANGED <<wire, published>>
      /\ \/ GoesOut(n) /\ Deliver(n) /\ queue' = e
         \/ queue' = Filed(n, e) /\ UNCHANGED <<transportMail, lost>>
  BY DEF FlagInv, HandlePublish, ReceiveNotice
<1>2. /\ n \in Note
      /\ \A m : Mailed(m) <=> m = n \/ Mailed(m)'
      /\ \A m : Mailed(m)' => Before("publish", notifMail, n, m)
      /\ \A a, b : Before("publish", notifMail', a, b) => Before("publish", notifMail, a, b)
  BY <1>1, ReceiveMail
<1>3. /\ e \in Seq(Note)
      /\ \A m : In(k, e, m) => Waiting(m) /\ (n.key = m.key => n.key = NoKey)
      /\ \A m : Waiting(m) => In(k, e, m) \/ m.id \in gone
      /\ \A a, b : Before(k, e, a, b) => Before(k, queue, a, b)
      /\ \A i \in SameKey(n) : Waiting(queue[i]) /\ queue[i] \in Note /\ queue[i].key = n.key
                                    /\ n.key # NoKey
  BY DedupedLane DEF BookInv, QueueTypes
<1>4. \A i \in gone : \E m \in Note : m.id = i /\ Waiting(m) /\ m.key = n.key /\ n.key # NoKey
  BY <1>3
<1> HIDE DEF n, e, gone, k, p
<1>5. /\ \A m \in Note : m.id \in Nat
      /\ \A a, b \in Note : Waiting(a) /\ Waiting(b) => a = b \/ Before(k, queue, a, b)
              \/ Before(k, queue, b, a)
      /\ published \in Nat
  <2>1. ASSUME NEW a \in Note, NEW b \in Note, Waiting(a), Waiting(b)
        PROVE  a = b \/ Before(k, queue, a, b) \/ Before(k, queue, b, a)
    BY <2>1, InLane DEF BookInv, QueueTypes, Waiting, k
  <2> QED BY <2>1 DEF Note, FlagInv
<1>6. /\ \A m \in Note : Handled(m) => m.id < n.id /\ m.id \in 1..published
      /\ n.id <= published /\ n.id \in 1..published
      /\ \A i \in superseded \cup lost : i < n.id /\ i \in 1..published
      /\ \A m \in Note : Mailed(m)' => n.id < m.id /\ Mailed(m)
  BY <1>2, <1>5 DEF BookInv, Numbered, QueueTypes, Note
<1>7. /\ \A m \in Note : Waiting(m) => m.id # n.id
      /\ \A a, b \in Note : Waiting(a) /\ Waiting(b) /\ a # b
            => a.id # b.id /\ (a.key = b.key => a.key = NoKey)
      /\ \A m \in Note : In(k, e, m) => m.id \notin gone
  <2>2. ASSUME NEW a \in Note, NEW b \in Note, Waiting(a), Waiting(b), a # b
        PROVE a.id # b.id /\ (a.key = b.key => a.key = NoKey)
    BY <1>5, <2>2 DEF BookInv, InLine, k
  <2>3. \A m \in Note : In(k, e, m) => m.id \notin gone BY <1>3, <1>4, <2>2
  <2> QED BY <2>2, <2>3, <1>2, <1>5, <1>6 DEF Handled, Note
<1>8. /\ gone \cap (superseded \cup lost) = {} /\ n.id \notin gone /\ gone \subseteq 1..published
      /\ \A m \in Note : Written(m) \/ Delivered(m) => m.id \notin gone
      /\ \A m \in Note : Mailed(m)' => \A i \in gone : i < m.id
  BY <1>4, <1>6, <1>7 DEF BookInv, Gone, Handled, InLine, Apart, Numbered
<1>9. CASE GoesOut(n) /\ Deliver(n) /\ queue' = e
  <2>1. /\ transportMail' \in Seq(Delivery \cup {Cancel})
        /\ \A m : Delivered(m)' <=> Delivered(m) \/ (subscribed /\ m = n)
        /\ \A a, b : Before("delivered", transportMail', a, b)
              => Before("delivered", transportMail, a, b) \/ (Delivered(a) /\ subscribed /\ b = n)
        /\ lost' = IF subscribed THEN lost ELSE lost \cup {n.id}
    BY <1>2, <1>9, DeliverLane DEF BookInv
  <2>2. /\ \A m : Waiting(m)' <=> In(k, e, m)
        /\ \A m : Written(m)' <=> Written(m)
        /\ \A m : Handled(m)' <=> In(k, e, m) \/ Delivered(m) \/ (subscribed /\ m = n)
                \/ Written(m)
    BY <1>1, <1>9, <2>1 DEF Waiting, Written, Handled, k
  <2>3. QueueTypes' BY <1>1, <1>3, <1>6, <1>8, <1>9, <2>1 DEF QueueTypes, BookInv
  <2>4. Numbered'
    <3>4. ASSUME NEW m \in Note, Mailed(m)', NEW i \in superseded' \cup lost' PROVE i < m.id
      BY <1>1, <1>6, <1>8, <2>1, <3>4 DEF BookInv, Numbered
    <3> QED BY <3>4, <1>1, <1>5, <1>6, <1>3, <2>2, <1>2 DEF Numbered, BookInv, Handled
  <2>5. InLine'
    <3>1. ASSUME NEW a \in Note, NEW b \in Note
          PROVE  /\ Before("note", queue', a, b) => a.id # b.id
                      /\ (a.key = b.key => a.key = NoKey)
                 /\ Before("delivered", transportMail', a, b) => Apart(a, b)
                 /\ Before("note", wire', a, b) => Apart(a, b)
                 /\ Written(a)' /\ Delivered(b)' => Apart(a, b)
                 /\ (Written(a)' \/ Delivered(a)') /\ Waiting(b)' => Apart(a, b)
      BY <1>3, <1>9, <1>2, <1>5, <1>6, <2>1, <1>1, <2>2, <1>7 DEF BookInv, InLine, k, Apart,
          Handled
    <3> QED BY <3>1 DEF InLine
  <2>6. Gone'
    <3>2. \A m \in Note : Handled(m)' => m.id \notin superseded' \cup lost'
      <4>1. ASSUME NEW m \in Note, m = n, subscribed PROVE m.id \notin superseded' \cup lost'
        BY <1>1, <1>6, <1>8, <2>1, <4>1
      <4>2. ASSUME NEW m \in Note, In(k, e, m) PROVE m.id \notin superseded' \cup lost'
        BY <1>1, <1>3, <1>7, <2>1, <4>2 DEF BookInv, Gone, Handled
      <4>3. ASSUME NEW m \in Note, Written(m)
                   \/ Delivered(m) PROVE m.id \notin superseded' \cup lost'
        BY <1>5, <1>6, <4>3, <1>1, <1>8, <2>1 DEF Handled, BookInv, Gone
      <4> QED BY <2>2, <4>1, <4>2, <4>3
    <3> QED BY <3>2, <1>6, <1>1, <1>8, <2>1 DEF Gone, BookInv
  <2>7. NothingVanishes'
    <3>1. ASSUME NEW id \in 1..published'
          PROVE id \in superseded' \cup lost' \/ \E m \in Note : m.id = id
                /\ (Handled(m)' \/ Mailed(m)')
      BY <1>1, <1>2, <1>3, <2>1, <2>2 DEF BookInv, NothingVanishes, Handled
    <3> QED BY <3>1 DEF NothingVanishes
  <2> QED BY <2>3, <2>4, <2>5, <2>6, <2>7 DEF BookInv
<1>10. CASE queue' = Filed(n, e) /\ UNCHANGED <<transportMail, lost>>
  <2>1. /\ queue' \in Seq(Note)
        /\ \A m : In(k, queue', m) <=> In(k, e, m) \/ m = n
        /\ \A a, b : Before(k, queue', a, b)
              => Before(k, e, a, b) \/ (In(k, e, a) /\ b = n) \/ (a = n /\ In(k, e, b))
    BY <1>2, <1>3, <1>10, FiledLane DEF k
  <2>2. /\ \A m : Waiting(m)' <=> In(k, e, m) \/ m = n
        /\ \A m : Written(m)' <=> Written(m)
        /\ \A m : Delivered(m)' <=> Delivered(m)
        /\ \A m : Handled(m)' <=> In(k, e, m) \/ m = n \/ Delivered(m) \/ Written(m)
    BY <1>1, <1>10, <2>1 DEF Waiting, Written, Delivered, Handled, k
  <2>3. QueueTypes' BY <1>1, <1>8, <1>10, <2>1 DEF QueueTypes, BookInv
  <2>4. Numbered'
    <3>4. ASSUME NEW m \in Note, Mailed(m)', NEW i \in superseded' \cup lost' PROVE i < m.id
      BY <1>1, <1>6, <1>8, <1>10, <3>4 DEF BookInv, Numbered
    <3> QED BY <3>4, <1>1, <1>5, <1>6, <1>3, <2>2, <1>2 DEF Numbered, BookInv, Handled
  <2>5. InLine'
    <3>1. ASSUME NEW a \in Note, NEW b \in Note
          PROVE  /\ Before("note", queue', a, b) => a.id # b.id
                      /\ (a.key = b.key => a.key = NoKey)
                 /\ Before("delivered", transportMail', a, b) => Apart(a, b)
                 /\ Before("note", wire', a, b) => Apart(a, b)
                 /\ Written(a)' /\ Delivered(b)' => Apart(a, b)
                 /\ (Written(a)' \/ Delivered(a)') /\ Waiting(b)' => Apart(a, b)
      BY <1>3, <1>7, <2>1, <1>2, <1>5, <1>6, <1>10, <1>1, <2>2 DEF BookInv, InLine, k, Apart,
          Handled
    <3> QED BY <3>1 DEF InLine
  <2>6. Gone'
    <3>2. \A m \in Note : Handled(m)' => m.id \notin superseded' \cup lost'
      <4>1. ASSUME NEW m \in Note, m = n PROVE m.id \notin superseded' \cup lost'
        BY <1>1, <1>6, <1>8, <1>10, <4>1
      <4>2. ASSUME NEW m \in Note, In(k, e, m) PROVE m.id \notin superseded' \cup lost'
        BY <1>1, <1>3, <1>7, <1>10, <4>2 DEF BookInv, Gone, Handled
      <4>3. ASSUME NEW m \in Note, Written(m)
                   \/ Delivered(m) PROVE m.id \notin superseded' \cup lost'
        BY <1>1, <1>8, <1>10, <4>3 DEF BookInv, Gone, Handled
      <4> QED BY <2>2, <4>1, <4>2, <4>3
    <3> QED BY <3>2, <1>1, <1>8, <1>10 DEF Gone, BookInv
  <2>7. NothingVanishes'
    <3>1. ASSUME NEW id \in 1..published'
          PROVE id \in superseded' \cup lost' \/ \E m \in Note : m.id = id
                /\ (Handled(m)' \/ Mailed(m)')
      BY <1>1, <1>2, <1>3, <2>2, <1>10 DEF BookInv, NothingVanishes, Handled
    <3> QED BY <3>1 DEF NothingVanishes
  <2> QED BY <2>3, <2>4, <2>5, <2>6, <2>7 DEF BookInv
<1> QED BY <1>1, <1>9, <1>10

\* The books of a notification that moves on: from the head of one lane to the
\* end of the next, or to nobody.
LEMMA WrittenBooks ==
  ASSUME BookInv, SameMail, NEW n \in Note, transportMail # <<>>,
         \A m : Carries("delivered", Head(transportMail), m) <=> m = n,
         transportMail' = Tail(transportMail),
         UNCHANGED <<queue, superseded, published>>,
         \/ wire' = Append(wire, n) /\ lost' = lost
         \/ wire' = wire /\ lost' = lost \cup {n.id}
  PROVE  BookInv'
<1> DEFINE k == "note"
           d == "delivered"
           h == Head(transportMail)
           M == Delivery \cup {Cancel}
<1>1. transportMail \in Seq(M) /\ wire \in Seq(Note) BY DEF BookInv, QueueTypes
<1> HIDE DEF k, d, h, M
<1>2. /\ \A m : Delivered(m) <=> m = n \/ Delivered(m)'
      /\ \A a, b : Before(d, transportMail, a, b)
                     <=> (a = n /\ Delivered(b)') \/ Before(d, transportMail', a, b)
  BY <1>1, HeadLane DEF h, d, Delivered
<1>3. \A m \in Note : m.id \in Nat BY DEF Note
<1>4. /\ \A m : Waiting(m)' <=> Waiting(m)
      /\ \A m \in Note : Delivered(m)' => Apart(n, m)
      /\ \A m \in Note : Waiting(m) => Apart(n, m)
      /\ \A m \in Note : Written(m) => Apart(m, n)
      /\ \A a, b \in Note : Before(d, transportMail', a, b) => Apart(a, b)
  BY <1>2 DEF BookInv, InLine, Waiting, d
<1>5. transportMail' \in Seq(M) BY <1>1
<1>6. /\ n.id \in 1..published /\ n.id \notin superseded \cup lost
      /\ \A m \in Note : Mailed(m) => n.id < m.id
  BY <1>2 DEF BookInv, Numbered, Gone, Handled, Note
<1>7. CASE wire' = Append(wire, n) /\ lost' = lost
  <2>1. /\ \A m : Written(m)' <=> Written(m) \/ m = n
        /\ \A a, b : Before(k, wire', a, b) <=> Before(k, wire, a, b) \/ (Written(a) /\ b = n)
    <3>2. /\ \A m : In(k, Append(wire, n), m) <=> In(k, wire, m) \/ Carries(k, n, m)
          /\ \A a, b : Before(k, Append(wire, n), a, b)
                         <=> Before(k, wire, a, b) \/ (In(k, wire, a) /\ Carries(k, n, b))
      BY <1>1, AppendLane
    <3> QED BY <1>7, <3>2 DEF Written, k, Carries
  <2>4. QueueTypes' BY <1>5, <1>7, <1>1 DEF BookInv, QueueTypes, M
  <2>6. InLine'
    <3>1. ASSUME NEW a \in Note, NEW b \in Note
          PROVE  /\ Before("note", queue', a, b) => a.id # b.id
                      /\ (a.key = b.key => a.key = NoKey)
                 /\ Before("delivered", transportMail', a, b) => Apart(a, b)
                 /\ Before("note", wire', a, b) => Apart(a, b)
                 /\ Written(a)' /\ Delivered(b)' => Apart(a, b)
                 /\ (Written(a)' \/ Delivered(a)') /\ Waiting(b)' => Apart(a, b)
      BY <1>4, <2>1, <1>2 DEF BookInv, InLine, d, k
    <3> QED BY <3>1 DEF InLine
  <2> QED BY <2>4, <2>6, <1>7, <1>2, <1>4, <2>1 DEF BookInv, Gone, NothingVanishes, SameMail, Numbered,
        Handled
<1>8. CASE wire' = wire /\ lost' = lost \cup {n.id}
  <2>1. \A m : Written(m)' <=> Written(m) BY <1>8 DEF Written
  <2>2. \A m : Handled(m) <=> Handled(m)' \/ m = n BY <1>2, <1>4, <2>1 DEF Handled
  <2>5. InLine'
    <3>1. ASSUME NEW a \in Note, NEW b \in Note
          PROVE  /\ Before("note", queue', a, b) => a.id # b.id
                      /\ (a.key = b.key => a.key = NoKey)
                 /\ Before("delivered", transportMail', a, b) => Apart(a, b)
                 /\ Before("note", wire', a, b) => Apart(a, b)
                 /\ Written(a)' /\ Delivered(b)' => Apart(a, b)
                 /\ (Written(a)' \/ Delivered(a)') /\ Waiting(b)' => Apart(a, b)
      BY <1>4, <1>8, <1>2, <2>1 DEF BookInv, InLine, d
    <3> QED BY <3>1 DEF InLine
  <2>6. Gone' BY <1>4, <2>1, <1>6, <1>8, <2>2 DEF Handled, Apart, BookInv, Gone
  <2> QED BY <2>5, <2>6, <1>8, <2>2, <1>6, <1>1, <1>5 DEF BookInv, NothingVanishes, SameMail, Numbered,
        QueueTypes, M
<1> QED BY <1>7, <1>8

\* The head of the queue goes to the transport, or to nobody.
LEMMA FlushBooks ==
  ASSUME BookInv, SameMail, subscribed \in BOOLEAN, FlushOne,
         UNCHANGED <<wire, superseded, published>>
  PROVE  BookInv'
<1>1. CASE UNCHANGED <<queue, transportMail, lost>> BY <1>1, BooksStay
<1>2. CASE queue # <<>> /\ queue' = Tail(queue)
          /\ transportMail' = (IF subscribed
                         THEN Append(transportMail, [type |-> "delivered", note |-> Head(queue)])
                         ELSE transportMail)
          /\ lost' = IF subscribed THEN lost ELSE lost \cup {Head(queue).id}
  <2> DEFINE k == "note"
             d == "delivered"
             n == Head(queue)
             x == [type |-> "delivered", note |-> n]
             M == Delivery \cup {Cancel}
  <2>1. /\ transportMail \in Seq(M) /\ queue \in Seq(Note) /\ n \in Note /\ x \in M
        /\ queue' \in Seq(Note)
    BY <1>2 DEF BookInv, QueueTypes, Delivery
  <2>2. (\A m : Carries(k, n, m) <=> m = n) /\ \A m : Carries(d, x, m) <=> m = n BY DEF Carries
  <2>3. /\ queue # <<>> /\ queue' = Tail(queue)
        /\ transportMail' = IF subscribed THEN Append(transportMail, x) ELSE transportMail
        /\ lost' = IF subscribed THEN lost ELSE lost \cup {n.id}
    BY <1>2
  <2> HIDE DEF k, d, x, M
  <2>4. /\ \A m : Waiting(m) <=> m = n \/ Waiting(m)'
        /\ \A a, b : Before(k, queue, a, b) <=> (a = n /\ Waiting(b)') \/ Before(k, queue', a, b)
    BY <2>1, <2>3, HeadLane, <2>2 DEF Waiting, k
  <2> HIDE DEF n
  <2>5. /\ transportMail' \in Seq(M)
        /\ \A m : Delivered(m)' <=> Delivered(m) \/ (subscribed /\ m = n)
        /\ \A a, b : Before(d, transportMail', a, b)
              => Before(d, transportMail, a, b) \/ (Delivered(a) /\ subscribed /\ b = n)
    <3>1. CASE ~subscribed BY <2>1, <2>3, <3>1 DEF Delivered
    <3>2. CASE subscribed
      <4>1. transportMail' = Append(transportMail, x) BY <2>3, <3>2
      <4>3. transportMail' \in Seq(M) BY <2>1, <4>1
      <4> QED BY <2>2, <3>2, <4>1, <4>3, <2>1, AppendLane DEF Delivered, d
    <3> QED BY <3>1, <3>2
  <2>6. \A m : Written(m)' <=> Written(m) BY DEF Written
  <2>7. \A m \in Note : m.id \in Nat BY DEF Note
  <2>8. /\ \A m \in Note : Written(m) \/ Delivered(m) => Apart(m, n)
        /\ \A m \in Note : Waiting(m)' => m.id # n.id /\ Apart(n, m)
        /\ n.id \in 1..published /\ n.id \notin superseded \cup lost
        /\ \A m \in Note : Mailed(m) => n.id < m.id
    <3>3. n.id \in 1..published /\ n.id \notin superseded \cup lost
      <4>1. n \in Note /\ Handled(n) BY <2>1, <2>4 DEF Handled
      <4> QED BY <4>1, NotificationAssumption DEF BookInv, Numbered, Gone, Note, NotificationAssumption
    <3> QED BY <3>3, <2>1, <2>4 DEF Apart, BookInv, InLine, k, Numbered, Handled
  <2>9. \A m : Handled(m) <=> Handled(m)' \/ (~subscribed /\ m = n) BY <2>4, <2>5, <2>6 DEF Handled
  <2>12. InLine'
    <3>1. ASSUME NEW a \in Note, NEW b \in Note
          PROVE  /\ Before("note", queue', a, b) => a.id # b.id
                      /\ (a.key = b.key => a.key = NoKey)
                 /\ Before("delivered", transportMail', a, b) => Apart(a, b)
                 /\ Before("note", wire', a, b) => Apart(a, b)
                 /\ Written(a)' /\ Delivered(b)' => Apart(a, b)
                 /\ (Written(a)' \/ Delivered(a)') /\ Waiting(b)' => Apart(a, b)
      BY <2>4, <2>5, <2>8, <2>6 DEF BookInv, InLine, k, d
    <3> QED BY <3>1 DEF InLine
  <2>13. Gone' BY <2>3, <2>8, <2>5, <2>6, <2>9 DEF BookInv, Gone, Handled, Apart
  <2> QED BY <2>12, <2>13, <2>1, <2>3, <2>5, <2>8, <2>9 DEF BookInv, QueueTypes, M, Numbered, SameMail,
        NothingVanishes
<1> QED BY <1>1, <1>2 DEF FlushOne

-----------------------------------------------------------------------------
\* What was cut off, and for what.
CutBare == failures = 0 => subscribed /\ ~Has("unsubscribe")

\* Taking the head away leaves each cancel with what stands behind it.
LEMMA CutTail ==
  ASSUME QueueTypes, CancelMakesRoom, transportMail # <<>>, transportMail' = Tail(transportMail),
         failures' = failures
  PROVE  CancelMakesRoom'
<1> DEFINE M == Delivery \cup {Cancel}
           l == Len(transportMail')
<1>1. /\ l \in Nat /\ Len(transportMail) = l + 1
      /\ \A i \in 1..l : transportMail'[i] = transportMail[i + 1]
  BY DEF QueueTypes
<1> HIDE DEF l, M
<1>2. ASSUME NEW i \in 1..l, failures' = 0, transportMail'[i] = Cancel
      PROVE  /\ i < l
             /\ transportMail'[i + 1].type = "delivered"
             /\ transportMail'[i + 1].note.priority = "high"
  BY <1>1, <1>2 DEF CancelMakesRoom
<1> QED BY <1>2 DEF CancelMakesRoom, l

\* What was delivered keeps its place when something that is no cancel comes last.
LEMMA CutAppend ==
  ASSUME NEW s, NEW t, NEW x, s \in Seq(Delivery \cup {Cancel}), x # Cancel, t = Append(s, x),
         x \in Delivery \cup {Cancel},
         \A i \in 1..Len(s) : s[i] = Cancel =>
           /\ i < Len(s) /\ s[i + 1].type = "delivered" /\ s[i + 1].note.priority = "high"
  PROVE  \A i \in 1..Len(t) : t[i] = Cancel =>
           /\ i < Len(t) /\ t[i + 1].type = "delivered" /\ t[i + 1].note.priority = "high"
<1>2. ASSUME NEW i \in 1..Len(t), t[i] = Cancel
      PROVE  i < Len(t) /\ t[i + 1].type = "delivered" /\ t[i + 1].note.priority = "high"
  BY <1>2
<1> QED BY <1>2

\* A cancel that makes room comes with what it makes room for.
LEMMA CutTwo ==
  ASSUME NEW s, NEW t, NEW x, s \in Seq(Delivery \cup {Cancel}), x # Cancel,
         t = Append(Append(s, Cancel), x),
         x \in Delivery \cup {Cancel}, x.type = "delivered", x.note.priority = "high",
         \A i \in 1..Len(s) : s[i] = Cancel =>
           /\ i < Len(s) /\ s[i + 1].type = "delivered" /\ s[i + 1].note.priority = "high"
  PROVE  \A i \in 1..Len(t) : t[i] = Cancel =>
           /\ i < Len(t) /\ t[i + 1].type = "delivered" /\ t[i + 1].note.priority = "high"
<1>1. /\ Len(s) \in Nat /\ Len(t) = Len(s) + 2 /\ t[Len(s) + 2] = x /\ t[Len(s) + 1] = Cancel
      /\ \A i \in 1..Len(s) : t[i] = s[i]
  OBVIOUS
<1>2. ASSUME NEW i \in 1..Len(t), t[i] = Cancel
      PROVE  i < Len(t) /\ t[i + 1].type = "delivered" /\ t[i + 1].note.priority = "high"
  <2>1. CASE i \in 1..Len(s) BY <1>1, <1>2, <2>1
  <2>2. CASE i = Len(s) + 1 BY <1>1, <2>2
  <2>3. i # Len(s) + 2 BY <1>1, <1>2
  <2> QED BY <1>1, <2>1, <2>2, <2>3
<1> QED BY <1>2

\* A delivery is no cancel.
LEMMA DeliveryIsNoCancel ==
  ASSUME NEW n
  PROVE  [type |-> "delivered", note |-> n] # Cancel
<1> QED BY DEF Cancel

\* An immediate delivery keeps it so.
LEMMA CutDeliver ==
  ASSUME QueueTypes, CutBare, CancelMakesRoom, NEW n \in Note, Deliver(n), failures' = failures
  PROVE  CancelMakesRoom'
<1> DEFINE d == [type |-> "delivered", note |-> n]
           M == Delivery \cup {Cancel}
<1>1. SUFFICES ASSUME failures = 0
               PROVE  \A i \in 1..Len(transportMail') : transportMail'[i] = Cancel =>
                        /\ i < Len(transportMail') /\ transportMail'[i + 1].type = "delivered"
                        /\ transportMail'[i + 1].note.priority = "high"
  BY DEF CancelMakesRoom
<1>2. /\ transportMail \in Seq(M) /\ d \in M /\ d # Cancel /\ subscribed
      /\ d.type = "delivered" /\ d.note = n
  BY <1>1, DeliveryIsNoCancel DEF QueueTypes, CutBare, Delivery
<1>3. \A i \in 1..Len(transportMail) : transportMail[i] = Cancel =>
           /\ i < Len(transportMail) /\ transportMail[i + 1].type = "delivered"
           /\ transportMail[i + 1].note.priority = "high"
  BY <1>1 DEF CancelMakesRoom
<1>4. transportMail' = transportMail \o
        ((IF n.priority = "high" /\ Truncation /\ audioReceived THEN <<Cancel>> ELSE <<>>)
            \o (IF subscribed THEN <<d>> ELSE <<>>))
  BY DEF Deliver, Envelopes
<1>5. CASE n.priority = "high" /\ Truncation /\ audioReceived
  <2>1. transportMail' = transportMail \o (<<Cancel>> \o <<d>>) BY <1>2, <1>4, <1>5
  <2> HIDE DEF d
  <2>3. transportMail' = Append(Append(transportMail, Cancel), d) /\ d.note.priority = "high"
    BY <1>2, <1>5, <2>1
  <2> HIDE DEF M
  <2> QED BY <1>2, <1>3, <2>3, CutTwo DEF M
<1>6. CASE ~(n.priority = "high" /\ Truncation /\ audioReceived)
  <2>1. transportMail' = transportMail \o (<<>> \o <<d>>) BY <1>2, <1>4, <1>6
  <2> HIDE DEF d
  <2> QED BY <1>2, <1>3, CutAppend, <2>1
<1> QED BY <1>5, <1>6

\* Nor does a delivery at the end of a turn cut anything off.
LEMMA CutFlush ==
  ASSUME QueueTypes, CancelMakesRoom, FlushOne, failures' = failures
  PROVE  CancelMakesRoom'
<1> DEFINE d == [type |-> "delivered", note |-> Head(queue)]
<1>1. CASE transportMail' = transportMail BY <1>1 DEF CancelMakesRoom
<1>2. CASE queue # <<>> /\ transportMail' = Append(transportMail, d)
  <2>1. d # Cancel /\ Head(queue) \in Note BY <1>2, DeliveryIsNoCancel DEF QueueTypes
  <2>2. d \in Delivery \cup {Cancel} /\ transportMail \in Seq(Delivery \cup {Cancel})
    BY <2>1 DEF Delivery, QueueTypes
  <2> HIDE DEF d
  <2>3. SUFFICES ASSUME failures = 0
               PROVE  \A i \in 1..Len(transportMail') : transportMail'[i] = Cancel =>
                        /\ i < Len(transportMail') /\ transportMail'[i + 1].type = "delivered"
                        /\ transportMail'[i + 1].note.priority = "high"
    BY DEF CancelMakesRoom
  <2> QED BY <1>2, <2>1, <2>2, CutAppend, <2>3 DEF CancelMakesRoom
<1> QED BY <1>1, <1>2 DEF FlushOne

-----------------------------------------------------------------------------
\* The inductive invariant.
QueueInv ==
  /\ FlagInv /\ BookInv
  /\ subscribed \in BOOLEAN /\ failures \in Nat
  /\ CutBare /\ CancelMakesRoom

\* What a step leaves alone that moves no notification.
Idle == UNCHANGED <<queue, transportMail, wire, superseded, lost, published, subscribed,
  failures>>

\* A step that moves no notification keeps the invariant.
LEMMA IdleKeeps ==
  ASSUME QueueInv, SameMail, Idle, Has("unsubscribe")' => Has("unsubscribe"), FlagInv'
  PROVE  QueueInv'
<1>1. BookInv' BY BooksStay DEF QueueInv, Idle
<1> QED BY <1>1 DEF QueueInv, Idle, CutBare, CancelMakesRoom

\* Nothing has been published.
LEMMA InitQueue ==
  ASSUME NotificationInit
  PROVE  QueueInv
<1>1. FlagInv BY InitFlags
<1>2. /\ \A m : ~Mailed(m) /\ ~Handled(m)
      /\ \A m, n : /\ ~Before("publish", notifMail, m, n) /\ ~Before("note", queue, m, n)
                   /\ ~Before("delivered", transportMail, m, n) /\ ~Before("note", wire, m, n)
  BY EmptyLane DEF NotificationInit, Mailed, Handled, Waiting, Delivered, Written
<1>3. QueueTypes BY DEF NotificationInit, QueueTypes
<1>4. published = 0 /\ superseded = {} /\ lost = {} /\ failures = 0 /\ subscribed = TRUE
      /\ transportMail = <<>>
  BY DEF NotificationInit
<1>6. InLine BY <1>2 DEF InLine, Handled
<1>7. CutBare /\ CancelMakesRoom
  BY EmptyHasNothing, <1>4 DEF NotificationInit, CutBare, CancelMakesRoom
<1> QED BY <1>1, <1>3, <1>4, <1>6, <1>7, <1>2 DEF QueueInv, BookInv, Numbered, Gone, NothingVanishes

\* What the session tells the actor moves nothing, save a publication.
LEMMA SessionQueue ==
  ASSUME QueueInv, SessionCalls
  PROVE  QueueInv'
<1>1. FlagInv' BY SessionFlags DEF QueueInv
<1>2. notifMail \in Seq(Messages) BY DEF QueueInv, FlagInv
<1>3. CASE Publish
  <2>1. BookInv' BY <1>3, PublishBooks DEF QueueInv
  <2>2. UNCHANGED <<transportMail, subscribed, failures>>
    BY <1>3 DEF Publish, actorSide, transportSide
  <2>3. Has("unsubscribe")' <=> Has("unsubscribe") BY <1>2, <1>3, PublishLast DEF QueueInv, FlagInv
  <2> QED BY <1>1, <2>1, <2>2, <2>3 DEF QueueInv, CutBare, CancelMakesRoom
<1>4. ASSUME NEW kind \in Signals \ {"unsubscribe"}, Tell(kind), Idle
      PROVE  QueueInv'
  BY <1>2, <1>4, TellMail, TellHas, <1>1, IdleKeeps
<1>5. ASSUME NEW first \in Signals \ {"unsubscribe"}, NEW second \in Signals \ {"unsubscribe"},
             TellBoth(first, second), Idle
      PROVE  QueueInv'
  BY <1>2, <1>5, TellBothMail, TellBothHas, <1>1, IdleKeeps
<1>6. ASSUME UNCHANGED notifMail, Idle PROVE QueueInv'
  BY <1>6, <1>1, IdleKeeps DEF SameMail, Mailed, Has
<1>7. CASE AudioOutput
  BY <1>7, <1>4 DEF AudioOutput, Idle, actorSide, transportSide, history, Signals
<1>8. CASE ResetAudio
  BY <1>8, <1>4 DEF ResetAudio, Idle, actorSide, transportSide, history, Signals
<1>9. CASE Interrupted
  BY <1>9, <1>5 DEF Interrupted, Idle, actorSide, transportSide, history, Signals
<1>10. CASE TurnComplete
  BY <1>10, <1>4 DEF TurnComplete, Idle, actorSide, transportSide, history, Signals
<1>11. CASE EngageHold
  BY <1>11, <1>4 DEF EngageHold, Idle, actorSide, transportSide, history, Signals
<1>12. CASE ReleaseHold
  BY <1>12, <1>4, <1>6 DEF ReleaseHold, Idle, actorSide, transportSide, history, Signals
<1>13. CASE EngageDialWindow
  BY <1>13, <1>4 DEF EngageDialWindow, Idle, actorSide, transportSide, history, Signals
<1>14. CASE ReleaseDialWindow
  BY <1>14, <1>4, <1>5, <1>6 DEF ReleaseDialWindow, Idle, actorSide, transportSide, history,
      Signals
<1> QED BY <1>3, <1>7, <1>8, <1>9, <1>10, <1>11, <1>12, <1>13, <1>14 DEF SessionCalls

\* What the actor handles.
LEMMA ActorQueue ==
  ASSUME QueueInv, ActorHandles
  PROVE  QueueInv'
<1>1. FlagInv' BY ActorFlags DEF QueueInv
<1>2. notifMail \in Seq(Messages) /\ QueueTypes BY DEF QueueInv, FlagInv, BookInv
<1>3. CASE HandlePublish
  <2>1. BookInv' BY <1>3, HandlePublishBooks DEF QueueInv
  <2>2. ReceiveNotice("publish") /\ UNCHANGED <<subscribed, failures>>
    BY <1>3 DEF HandlePublish, ReceiveNotice
  <2>3. Has("unsubscribe")' => Has("unsubscribe") BY <1>2, <2>2, ReceiveHas
  <2>4. CancelMakesRoom'
    <3> DEFINE n == Head(notifMail).note
    <3>1. n \in Note BY <1>2, <2>2, ReceiveMail
    <3>2. (GoesOut(n) /\ Deliver(n)) \/ transportMail' = transportMail BY <1>3 DEF HandlePublish
    <3> HIDE DEF n
    <3>3. CASE Deliver(n) BY <1>2, <2>2, <3>1, <3>3, CutDeliver DEF QueueInv
    <3>4. CASE transportMail' = transportMail BY <2>2, <3>4 DEF QueueInv, CancelMakesRoom
    <3> QED BY <3>2, <3>3, <3>4
  <2> QED BY <1>1, <2>1, <2>2, <2>3, <2>4 DEF QueueInv, CutBare
<1>4. ASSUME NEW kind, ReceiveNotice(kind), kind # "publish", Idle PROVE QueueInv'
  BY <1>2, <1>4, ReceiveMail, ReceiveHas, <1>1, IdleKeeps
<1>5. CASE HandleAudioStarted BY <1>5, <1>4 DEF HandleAudioStarted, ReceiveNotice, Idle
<1>6. CASE HandleResetAudio BY <1>6, <1>4 DEF HandleResetAudio, ReceiveNotice, Idle
<1>7. CASE HandleInterrupted BY <1>7, <1>4 DEF HandleInterrupted, ReceiveNotice, Idle
<1>8. CASE HandleSetHeld BY <1>8, <1>4 DEF HandleSetHeld, ReceiveNotice, Idle
<1>9. CASE HandleSubscription
  BY <1>9, <1>2, ReceiveMail, ReceiveHas, BooksStay, <1>1 DEF HandleSubscription, ReceiveNotice,
      QueueInv, CutBare, CancelMakesRoom
<1>10. CASE HandleTurnComplete
  <2>1. /\ UNCHANGED <<wire, superseded, published, subscribed, failures>>
        /\ ReceiveNotice("turn_complete")
        /\ UNCHANGED <<queue, transportMail, lost>> \/ FlushOne
    BY <1>10 DEF HandleTurnComplete, ReceiveNotice
  <2>2. SameMail /\ (Has("unsubscribe")' => Has("unsubscribe"))
    BY <1>2, <2>1, ReceiveMail, ReceiveHas
  <2>3. CASE UNCHANGED <<queue, transportMail, lost>> BY <1>1, <2>1, <2>2, <2>3, IdleKeeps DEF Idle
  <2>4. CASE FlushOne BY <2>1, <2>2, <2>4, FlushBooks, <1>2, CutFlush, <1>1 DEF QueueInv, CutBare
  <2> QED BY <2>1, <2>3, <2>4
<1> QED BY <1>3, <1>5, <1>6, <1>7, <1>8, <1>9, <1>10 DEF ActorHandles

\* What the transport takes.
LEMMA TakenNote ==
  ASSUME QueueTypes, transportMail # <<>>, Head(transportMail).type = "delivered"
  PROVE  /\ Head(transportMail).note \in Note
         /\ \A m : Carries("delivered", Head(transportMail), m) <=> m = Head(transportMail).note
<1> QED BY DEF Delivery, Carries, Cancel, QueueTypes

\* What the transport takes, and what a write that throws loses.
LEMMA TransportQueue ==
  ASSUME QueueInv, TransportHandles
  PROVE  QueueInv'
<1>1. FlagInv' BY TransportFlags DEF QueueInv
<1>2. notifMail \in Seq(Messages) /\ QueueTypes /\ BookInv /\ CancelMakesRoom
  BY DEF QueueInv, FlagInv, BookInv
<1>3. CASE HandleCancel
  <2>1. /\ transportMail # <<>> /\ Head(transportMail) = Cancel
             /\ transportMail' = Tail(transportMail)
        /\ UNCHANGED <<notifMail, queue, subscribed, failures, wire, published, superseded, lost>>
    BY <1>3 DEF HandleCancel, actorSide, history
  <2>2. SameMail /\ (Has("unsubscribe")' <=> Has("unsubscribe")) BY <2>1 DEF SameMail, Mailed, Has
  <2>3. CancelMakesRoom' BY <1>2, <2>1, CutTail
  <2>4. BookInv'
    <3> DEFINE d == "delivered"
               M == Delivery \cup {Cancel}
               h == Head(transportMail)
    <3>1. transportMail \in Seq(M) /\ transportMail' \in Seq(M) /\ \A m : ~Carries(d, h, m)
      BY <1>2, <2>1 DEF QueueTypes, Carries, Cancel
    <3> HIDE DEF d, M, h
    <3>3. /\ \A m : Delivered(m)' <=> Delivered(m)
          /\ \A a, b : Before(d, transportMail', a, b) <=> Before(d, transportMail, a, b)
      BY <3>1, <2>1, HeadLane DEF Delivered, d, h
    <3>4. \A m : (Waiting(m)' <=> Waiting(m)) /\ (Written(m)' <=> Written(m))
                    /\ (Handled(m)' <=> Handled(m))
      BY <2>1, <3>3 DEF Waiting, Written, Handled
    <3>7. InLine'
      <4>1. ASSUME NEW a \in Note, NEW b \in Note
            PROVE  /\ Before("note", queue', a, b) => a.id # b.id
                        /\ (a.key = b.key => a.key = NoKey)
                   /\ Before("delivered", transportMail', a, b) => Apart(a, b)
                   /\ Before("note", wire', a, b) => Apart(a, b)
                   /\ Written(a)' /\ Delivered(b)' => Apart(a, b)
                   /\ (Written(a)' \/ Delivered(a)') /\ Waiting(b)' => Apart(a, b)
        BY <1>2, <2>1, <3>3, <3>4 DEF BookInv, InLine, d
      <4> QED BY <4>1 DEF InLine
    <3>8. Gone' /\ NothingVanishes'
      BY <1>2, <2>1, <2>2, <3>4 DEF BookInv, Gone, NothingVanishes, SameMail
    <3> QED BY <3>7, <3>8, <1>2, <2>1, <2>2, <3>4, <3>1 DEF BookInv, Numbered, SameMail, QueueTypes, M
  <2> QED BY <1>1, <2>1, <2>2, <2>3, <2>4 DEF QueueInv, CutBare
<1>4. CASE WriteNotification
  <2> DEFINE n == Head(transportMail).note
  <2>1. /\ transportMail # <<>> /\ Head(transportMail).type = "delivered"
        /\ transportMail' = Tail(transportMail) /\ wire' = Append(wire, n)
        /\ UNCHANGED <<notifMail, queue, subscribed, failures, published, superseded, lost>>
    BY <1>4 DEF WriteNotification, actorSide
  <2>2. SameMail /\ (Has("unsubscribe")' <=> Has("unsubscribe")) BY <2>1 DEF SameMail, Mailed, Has
  <2>3. CancelMakesRoom' BY <1>2, <2>1, CutTail
  <2>4. n \in Note /\ \A m : Carries("delivered", Head(transportMail), m) <=> m = n
    BY <1>2, <2>1, TakenNote
  <2> HIDE DEF n
  <2>5. BookInv' BY <1>2, <2>1, <2>2, <2>4, WrittenBooks
  <2> QED BY <1>1, <2>1, <2>2, <2>3, <2>5 DEF QueueInv, CutBare
<1>5. CASE WriteThrows
  <2> DEFINE n == Head(transportMail).note
  <2>1. /\ transportMail # <<>> /\ Head(transportMail).type = "delivered"
        /\ transportMail' = Tail(transportMail) /\ lost' = lost \cup {n.id}
                /\ failures' = failures + 1
        /\ UNCHANGED <<queue, subscribed, wire, published, superseded>>
        /\ Tell("unsubscribe") \/ UNCHANGED notifMail
    BY <1>5 DEF WriteThrows, actorSide
  <2>2. SameMail
    <3>1. CASE Tell("unsubscribe") BY <1>2, <3>1, TellMail DEF Signals
    <3>2. CASE UNCHANGED notifMail BY <3>2 DEF SameMail, Mailed
    <3> QED BY <2>1, <3>1, <3>2
  <2>3. failures' \in Nat /\ failures' # 0 BY <2>1 DEF QueueInv
  <2>4. n \in Note /\ \A m : Carries("delivered", Head(transportMail), m) <=> m = n
    BY <1>2, <2>1, TakenNote
  <2> HIDE DEF n
  <2>5. BookInv' BY <1>2, <2>1, <2>2, <2>4, WrittenBooks
  <2> QED BY <1>1, <2>1, <2>3, <2>5 DEF QueueInv, CutBare, CancelMakesRoom
<1>6. CASE FinishRestart
  BY <1>6, <1>2, TellMail, TellHas, <1>1, IdleKeeps DEF FinishRestart, Idle, actorSide, history,
      Signals
<1> QED BY <1>3, <1>4, <1>5, <1>6 DEF TransportHandles

\* The inductive invariant of the queue: mailbox, queue, transport and wire are one
\* line, in which the notifications of a key stand in the order of their publication.
THEOREM QueueInductive == NotificationSpec => []QueueInv
<1>1. NotificationInit => QueueInv BY InitQueue
<1>2. QueueInv /\ [NotificationNext]_notificationVars => QueueInv'
  <2>1. ASSUME QueueInv, UNCHANGED notificationVars PROVE QueueInv'
    BY <2>1, IdleKeeps DEF QueueInv, notificationVars, sessionSide, actorSide, transportSide,
        history, FlagInv, GateInv, HoldInv, Holding, FreeOf, LastIs, Has, Idle, SameMail, Mailed
  <2> QED BY <2>1, SessionQueue, ActorQueue, TransportQueue DEF NotificationNext
<1> QED BY <1>1, <1>2, PTL DEF NotificationSpec

-----------------------------------------------------------------------------
\* The places of an id are where a notification with it is.
LEMMA OnePlace ==
  ASSUME QueueInv, NEW id \in 1..published
  PROVE  \E p \in Places(id) : Places(id) = {p}
<1>1. /\ notifMail \in Seq(Messages) /\ QueueTypes /\ Numbered /\ InLine /\ Gone
           /\ NothingVanishes
      /\ published \in Nat
  BY DEF QueueInv, FlagInv, BookInv
<1>2. ASSUME NEW i \in 1..Len(notifMail), notifMail[i].type = "publish"
      PROVE  notifMail[i].note \in Note /\ Mailed(notifMail[i].note)
  BY <1>1, <1>2 DEF Messages, Signal, Signals, Publication, Mailed, In, Carries
<1>3. ASSUME NEW i \in 1..Len(queue)
      PROVE  queue[i] \in Note /\ Waiting(queue[i])
  BY <1>1 DEF QueueTypes, Waiting, In, Carries
<1>4. ASSUME NEW i \in 1..Len(transportMail), transportMail[i].type = "delivered"
      PROVE  transportMail[i].note \in Note /\ Delivered(transportMail[i].note)
  BY <1>1, <1>4 DEF QueueTypes, Delivery, Cancel, Delivered, In, Carries
<1>5. ASSUME NEW i \in 1..Len(wire)
      PROVE  wire[i] \in Note /\ Written(wire[i])
  BY <1>1 DEF QueueTypes, Written, In, Carries
<1>6. \A m \in Note : m.id \in Nat BY DEF Note
<1>7. ASSUME NEW i \in 1..Len(notifMail), NEW j \in 1..Len(notifMail), i # j,
             notifMail[i].type = "publish", notifMail[j].type = "publish"
      PROVE  notifMail[i].note.id # notifMail[j].note.id
  <2> DEFINE k == "publish"
  <2>2. i < j \/ j < i BY <1>1, <1>7
  <2>3. \/ Before(k, notifMail, notifMail[i].note, notifMail[j].note)
        \/ Before(k, notifMail, notifMail[j].note, notifMail[i].note)
    BY <2>2, <1>7 DEF Before, Carries
  <2> QED BY <1>1, <1>2, <1>6, <1>7, <2>3 DEF Numbered
<1>8. ASSUME NEW i \in 1..Len(queue), NEW j \in 1..Len(queue), i # j
      PROVE  queue[i].id # queue[j].id
  <2> DEFINE k == "note"
  <2> QED BY <1>1, <1>3, <1>8 DEF InLine, Before, Carries, QueueTypes
<1>9. ASSUME NEW i \in 1..Len(transportMail), NEW j \in 1..Len(transportMail), i # j,
             transportMail[i].type = "delivered", transportMail[j].type = "delivered"
      PROVE  transportMail[i].note.id # transportMail[j].note.id
  <2> DEFINE k == "delivered"
  <2>2. i < j \/ j < i BY <1>1, <1>9 DEF QueueTypes
  <2> QED BY <1>1, <1>4, <1>9, <2>2 DEF InLine, Apart, Before, Carries
<1>10. ASSUME NEW i \in 1..Len(wire), NEW j \in 1..Len(wire), i # j
       PROVE  wire[i].id # wire[j].id
  <2> DEFINE k == "note"
  <2> QED BY <1>1, <1>5, <1>10 DEF InLine, Apart, Before, Carries, QueueTypes
<1> DEFINE mail == {i \in 1..Len(notifMail) : notifMail[i].type = "publish"
           /\ notifMail[i].note.id = id}
           wait == {i \in 1..Len(queue) : queue[i].id = id}
           dlv == {i \in 1..Len(transportMail) :
                     transportMail[i].type = "delivered" /\ transportMail[i].note.id = id}
           wrt == {i \in 1..Len(wire) : wire[i].id = id}
           sup == superseded \cap {id}
           lst == lost \cap {id}
<1>11. /\ \A i, j \in mail : i = j
       /\ \A i, j \in wait : i = j
       /\ \A i, j \in dlv : i = j
       /\ \A i, j \in wrt : i = j
  BY <1>7, <1>8, <1>9, <1>10
<1>12. /\ mail # {} => \E n \in Note : n.id = id /\ Mailed(n)
       /\ wait # {} => \E n \in Note : n.id = id /\ Waiting(n)
       /\ dlv # {} => \E n \in Note : n.id = id /\ Delivered(n)
       /\ wrt # {} => \E n \in Note : n.id = id /\ Written(n)
       /\ (sup # {} => id \in superseded) /\ (lst # {} => id \in lost)
  BY <1>2, <1>3, <1>4, <1>5
<1>13. /\ \A n \in Note : n.id = id /\ Mailed(n) => mail # {}
       /\ \A n \in Note : n.id = id /\ Waiting(n) => wait # {}
       /\ \A n \in Note : n.id = id /\ Delivered(n) => dlv # {}
       /\ \A n \in Note : n.id = id /\ Written(n) => wrt # {}
       /\ (id \in superseded => sup # {}) /\ (id \in lost => lst # {})
  BY DEF Mailed, Waiting, Delivered, Written, In, Carries
<1>14. Places(id) = {<<"mail", i>> : i \in mail} \cup {<<"queue", i>> : i \in wait}
         \cup {<<"delivered", i>> : i \in dlv} \cup {<<"wire", i>> : i \in wrt}
         \cup {<<"superseded", 0>> : i \in sup} \cup {<<"lost", 0>> : i \in lst}
  BY DEF Places
<1> HIDE DEF mail, wait, dlv, wrt, sup, lst
<1>15. mail # {} \/ wait # {} \/ dlv # {} \/ wrt # {} \/ sup # {} \/ lst # {}
  BY <1>1, <1>13 DEF NothingVanishes, Handled
<1>16. /\ mail # {} => wait = {} /\ dlv = {} /\ wrt = {} /\ sup = {} /\ lst = {}
       /\ wait # {} => dlv = {} /\ wrt = {} /\ sup = {} /\ lst = {}
       /\ dlv # {} => wrt = {} /\ sup = {} /\ lst = {}
       /\ wrt # {} => sup = {} /\ lst = {}
       /\ sup # {} => lst = {}
  <2>1. ASSUME NEW m \in Note, NEW n \in Note, m.id = id, n.id = id, Mailed(n) PROVE ~Handled(m)
    BY <1>1, <1>6, <2>1 DEF Numbered
  <2>2. ASSUME NEW n \in Note, n.id = id, Mailed(n) PROVE id \notin superseded \cup lost
    BY <1>1, <1>6, <2>2 DEF Numbered
  <2>3. ASSUME NEW n \in Note, n.id = id, Handled(n) PROVE id \notin superseded \cup lost
    BY <1>1, <2>3 DEF Gone
  <2>4. ASSUME NEW m \in Note, NEW n \in Note, m.id = id, n.id = id
        PROVE  /\ ~(Written(m) /\ Delivered(n))
               /\ ~((Written(m) \/ Delivered(m)) /\ Waiting(n))
    BY <1>1, <2>4 DEF InLine, Apart
  <2> QED BY <1>12, <2>1, <2>2, <2>3, <2>4, <1>1 DEF Handled, Gone
<1>17. CASE mail # {}
  <2>1. PICK i \in mail : TRUE BY <1>17
  <2>2. Places(id) = {<<"mail", i>>} BY <1>11, <1>14, <1>16, <2>1
  <2> QED BY <2>2
<1>18. CASE wait # {} /\ mail = {}
  <2>1. PICK i \in wait : TRUE BY <1>18
  <2>2. Places(id) = {<<"queue", i>>} BY <1>11, <1>14, <1>16, <1>18, <2>1
  <2> QED BY <2>2
<1>19. CASE dlv # {} /\ mail = {} /\ wait = {}
  <2>1. PICK i \in dlv : TRUE BY <1>19
  <2>2. Places(id) = {<<"delivered", i>>} BY <1>11, <1>14, <1>16, <1>19, <2>1
  <2> QED BY <2>2
<1>20. CASE wrt # {} /\ mail = {} /\ wait = {} /\ dlv = {}
  <2>1. PICK i \in wrt : TRUE BY <1>20
  <2>2. Places(id) = {<<"wire", i>>} BY <1>11, <1>14, <1>16, <1>20, <2>1
  <2> QED BY <2>2
<1>21. CASE sup # {} /\ mail = {} /\ wait = {} /\ dlv = {} /\ wrt = {}
  <2>2. Places(id) = {<<"superseded", 0>>} BY <1>14, <1>16, <1>21
  <2> QED BY <2>2
<1>22. CASE lst # {} /\ mail = {} /\ wait = {} /\ dlv = {} /\ wrt = {} /\ sup = {}
  <2>2. Places(id) = {<<"lost", 0>>} BY <1>14, <1>22
  <2> QED BY <2>2
<1> QED BY <1>15, <1>17, <1>18, <1>19, <1>20, <1>21, <1>22

\* No notification vanishes or is in two places, none is written behind a later one
\* of its key, and no response is cut off for nothing: whatever is published, held,
\* interrupted and deduplicated, and however many writes throw and actors restart.
THEOREM QueueKeepsFaith == NotificationSpec => []QueueIsFaithful
<1>1. QueueInv => QueueIsFaithful
  <2>1. ASSUME QueueInv PROVE AccountedOnce BY <2>1, OnePlace DEF AccountedOnce
  <2>2. ASSUME QueueInv PROVE LatestWins
    <3>1. ASSUME NEW i \in 1..Len(wire), NEW j \in 1..Len(wire), i < j, wire[i].key = wire[j].key,
                 wire[i].key # NoKey
          PROVE  wire[i].id < wire[j].id
      BY <3>1, <2>2 DEF Before, Carries, QueueInv, BookInv, QueueTypes, InLine, Apart
    <3> QED BY <3>1 DEF LatestWins
  <2> QED BY <2>1, <2>2 DEF QueueInv, QueueIsFaithful
<1> QED BY <1>1, QueueInductive, PTL

-----------------------------------------------------------------------------
(* What may be written while a hold is engaged.                            *)

\* The last hold told, or the one in force when p is 0, with what is ahead of it:
\* only what was published when it was engaged.
HoldAt(p) ==
  /\ IF p = 0 THEN held ELSE notifMail[p].type = "hold"
  /\ \A i \in 1..Len(notifMail) : p < i => notifMail[i].type # "release"
  /\ \A i \in 1..Len(notifMail) :
       i < p /\ notifMail[i].type = "publish" => notifMail[i].note.id <= underWay
  /\ 1 < p => \A n \in Note : Waiting(n) => n.id <= underWay

\* While a hold is engaged the transport has nothing newer, nor gets it.
WireInv ==
  /\ underWay \in Nat
  /\ Holding => /\ \A n \in Note : Delivered(n) => n.id <= underWay
                /\ \E p \in 0..Len(notifMail) : HoldAt(p)

\* A mailbox that grows by no release keeps it so.
LEMMA MoreMail ==
  ASSUME QueueInv, WireInv, Holding, underWay' = underWay, held' = held,
         \A n \in Note : (Waiting(n)' => Waiting(n)) /\ (Delivered(n)' => Delivered(n)),
         Len(notifMail') \in Nat, Len(notifMail) <= Len(notifMail'),
         \A i \in 1..Len(notifMail) : notifMail'[i] = notifMail[i],
         \A i \in 1..Len(notifMail') : Len(notifMail) < i => notifMail'[i].type # "release"
  PROVE  WireInv'
<1> DEFINE l == Len(notifMail)
           m == Len(notifMail')
<1>1. l \in Nat /\ m \in Nat /\ l <= m BY DEF QueueInv, FlagInv
<1>2. PICK p \in 0..l : HoldAt(p) BY DEF WireInv
<1> HIDE DEF l, m
<1>3. p \in 0..m /\ (p # 0 => p \in 1..l) /\ \A i \in 1..m : i \in 1..l \/ (l < i /\ ~(i < p))
  BY <1>1, <1>2
<1>4. IF p = 0 THEN held' ELSE notifMail'[p].type = "hold" BY <1>2, <1>3 DEF HoldAt, l
<1>5. \A i \in 1..m : p < i => notifMail'[i].type # "release" BY <1>2, <1>3 DEF HoldAt, l, m
<1>6. \A i \in 1..m : i < p /\ notifMail'[i].type = "publish" => notifMail'[i].note.id <= underWay'
  BY <1>2, <1>3 DEF HoldAt, l, m
<1>7. 1 < p => \A n \in Note : Waiting(n)' => n.id <= underWay' BY <1>2 DEF HoldAt
<1>8. HoldAt(p)' BY <1>4, <1>5, <1>6, <1>7 DEF HoldAt, m
<1> QED BY <1>3, <1>8 DEF WireInv, m

\* A message that is no release, told in the hold.
LEMMA ToldInHold ==
  ASSUME QueueInv, WireInv, Holding, underWay' = underWay, held' = held,
         \A n \in Note : (Waiting(n)' => Waiting(n)) /\ (Delivered(n)' => Delivered(n)),
         NEW x \in Messages, x.type # "release", notifMail' = Append(notifMail, x)
  PROVE  WireInv'
<1>1. notifMail \in Seq(Messages) BY DEF QueueInv, FlagInv
<1>2. /\ Len(notifMail) \in Nat /\ Len(notifMail') = Len(notifMail) + 1
      /\ \A i \in 1..Len(notifMail) : notifMail'[i] = notifMail[i]
      /\ notifMail'[Len(notifMail) + 1] = x
  BY <1>1
<1>3. /\ Len(notifMail') \in Nat /\ Len(notifMail) <= Len(notifMail')
      /\ \A i \in 1..Len(notifMail') : Len(notifMail) < i => notifMail'[i].type # "release"
  BY <1>2
<1> QED BY <1>2, <1>3, MoreMail

\* A hold begins: it is the last of the mailbox, and what is ahead was published.
LEMMA HoldBegun ==
  ASSUME QueueInv, WireInv, HoldBegins, Tell("hold"), UNCHANGED <<actorSide, transportSide, history>>
  PROVE  WireInv'
<1> DEFINE x == [type |-> "hold"]
<1>1. /\ notifMail \in Seq(Messages) /\ published \in Nat /\ notifMail' = Append(notifMail, x)
      /\ x \in Messages /\ x.type = "hold"
  BY DEF QueueInv, FlagInv, Tell, Messages, Signal, Signals
<1>2. \A n : (Waiting(n)' <=> Waiting(n)) /\ (Delivered(n)' <=> Delivered(n))
  BY DEF Waiting, Delivered, actorSide, transportSide
<1>3. UNCHANGED <<held, published, transportMail>> BY DEF actorSide, transportSide, history
<1> HIDE DEF x
<1>9. PICK l \in Nat : l = Len(notifMail) BY <1>1
<1>4. /\ l \in Nat /\ Len(notifMail') = l + 1 /\ notifMail'[l + 1] = x
      /\ \A i \in 1..l : notifMail'[i] = notifMail[i]
  BY <1>1, <1>9
<1>5. underWay' \in Nat BY <1>1 DEF HoldBegins, WireInv
<1>6. CASE notifMail = <<>> /\ transportMail = <<>>
  <2>1. l = 0 BY <1>6, <1>9
  <2>2. HoldAt(1)' BY <1>1, <1>4, <2>1 DEF HoldAt
  <2>3. 1 \in 0..Len(notifMail') BY <1>4, <2>1
  <2>4. \A n : ~Delivered(n)' BY <1>2, <1>6, EmptyLane DEF Delivered
  <2> QED BY <1>5, <2>2, <2>3, <2>4 DEF WireInv
<1>7. CASE ~(notifMail = <<>> /\ transportMail = <<>>) /\ Holding
  <2>1. underWay' = underWay /\ x.type # "release" BY <1>1, <1>7 DEF HoldBegins
  <2> QED BY <1>1, <1>2, <1>3, <1>7, <2>1, ToldInHold
<1>8. CASE ~(notifMail = <<>> /\ transportMail = <<>>) /\ ~Holding
  <2>1. underWay' = published BY <1>8 DEF HoldBegins
  <2>2. \A n \in Note : Handled(n) \/ Mailed(n) => n.id <= underWay'
    BY <2>1 DEF QueueInv, BookInv, Numbered
  <2>3. ASSUME NEW i \in 1..Len(notifMail'), i < l + 1, notifMail'[i].type = "publish"
        PROVE  notifMail'[i].note.id <= underWay'
    <3>1. i \in 1..l /\ notifMail'[i] = notifMail[i] BY <1>4, <2>3
    <3>2. notifMail[i].note \in Note /\ Mailed(notifMail[i].note)
      BY <1>1, <1>9, <2>3, <3>1 DEF Messages, Signal, Signals, Publication, Mailed, In, Carries
    <3> QED BY <2>2, <3>1, <3>2
  <2>4. HoldAt(l + 1)'
    <3>1. /\ l + 1 # 0 /\ notifMail'[l + 1].type = "hold"
          /\ \A i \in 1..Len(notifMail') : ~(l + 1 < i)
      BY <1>1, <1>4
    <3>2. \A n \in Note : Waiting(n)' => n.id <= underWay' BY <1>2, <2>2 DEF Handled
    <3>3. \A i \in 1..Len(notifMail') : i < l + 1 /\ notifMail'[i].type = "publish"
            => notifMail'[i].note.id <= underWay'
      BY <2>3
    <3> QED BY <3>1, <3>2, <3>3 DEF HoldAt
  <2>5. l + 1 \in 0..Len(notifMail') BY <1>4
  <2> QED BY <1>2, <1>5, <2>2, <2>4, <2>5 DEF WireInv, Handled
<1> QED BY <1>6, <1>7, <1>8

\* What the actor takes from its mailbox in a hold is ahead of the hold, the hold
\* itself, or stays with the actor.
LEMMA NoticeInHold ==
  ASSUME QueueInv, WireInv, Holding, NEW kind, ReceiveNotice(kind),
         kind = "hold" => held' = TRUE,
         kind \notin HoldTypes => held' = held,
         \A n \in Note : Waiting(n)' =>
           Waiting(n) \/ (kind = "publish" /\ n = Head(notifMail).note),
         \A n \in Note : Delivered(n)' =>
           \/ Delivered(n)
           \/ ~held /\ kind # "hold"
                    /\ (Waiting(n) \/ (kind = "publish" /\ n = Head(notifMail).note))
  PROVE  WireInv'
<1> DEFINE l == Len(notifMail)
           m == Len(notifMail')
<1>1. /\ notifMail \in Seq(Messages) /\ notifMail # <<>> /\ notifMail' = Tail(notifMail)
      /\ Head(notifMail).type = kind /\ underWay' = underWay
  BY DEF QueueInv, FlagInv, ReceiveNotice
<1>2. /\ l \in Nat /\ m \in Nat /\ l = m + 1 /\ Head(notifMail) = notifMail[1]
      /\ \A i \in 1..m : notifMail'[i] = notifMail[i + 1]
  BY <1>1
<1>3. PICK p \in 0..l : HoldAt(p) BY DEF WireInv
<1> DEFINE q == IF p = 0 THEN 0 ELSE p - 1
<1> HIDE DEF l, m
<1>4. q \in 0..m /\ q \in Nat /\ p \in Nat /\ 1 \in 1..l /\ \A i \in 1..m : i + 1 \in 1..l
  BY <1>2, <1>3
<1>5. kind # "release" \/ 1 < p
  <2>1. kind # "release" \/ ~(p < 1) BY <1>1, <1>2, <1>3, <1>4 DEF HoldAt, l
  <2>2. p = 1 => kind = "hold" BY <1>1, <1>2, <1>3 DEF HoldAt
  <2> QED BY <1>4, <2>1, <2>2
<1>6. 1 < p /\ kind = "publish" => Head(notifMail).note.id <= underWay
  BY <1>1, <1>2, <1>3, <1>4 DEF HoldAt, l
<1>7. \A n \in Note : Waiting(n)' /\ 1 < p => n.id <= underWay' BY <1>1, <1>3, <1>6 DEF HoldAt
<1>8. \A n \in Note : Delivered(n)' => n.id <= underWay'
  <2>1. ASSUME NEW n \in Note, Delivered(n)' PROVE n.id <= underWay'
    <3>1. CASE Delivered(n) BY <1>1, <3>1 DEF WireInv
    <3>2. CASE p = 0 BY <1>1, <1>3, <2>1, <3>1, <3>2 DEF HoldAt
    <3>3. CASE p = 1 BY <1>1, <1>2, <1>3, <2>1, <3>1, <3>3 DEF HoldAt
    <3>4. CASE 1 < p BY <1>1, <1>3, <1>6, <2>1, <3>1, <3>4 DEF HoldAt
    <3> QED BY <1>4, <3>2, <3>3, <3>4
  <2> QED BY <2>1
<1>9. IF q = 0 THEN held' ELSE notifMail'[q].type = "hold"
  <2>1. CASE p = 0
    <3>1. held /\ kind # "release" BY <1>3, <1>5, <2>1 DEF HoldAt
    <3> QED BY <2>1, <3>1 DEF HoldTypes
  <2>2. CASE p = 1 BY <1>1, <1>2, <1>3, <2>2 DEF HoldAt
  <2>3. CASE 1 < p
    <3>1. q # 0 /\ q \in 1..m /\ q + 1 = p BY <1>2, <1>3, <2>3
    <3>2. notifMail[p].type = "hold" BY <1>3, <2>3 DEF HoldAt
    <3> QED BY <1>2, <3>1, <3>2
  <2> QED BY <1>4, <2>1, <2>2, <2>3
<1>10. \A i \in 1..m : (q < i => p < i + 1) /\ (i < q => i + 1 < p) /\ (1 < q => 1 < p)
  BY <1>2, <1>3
<1> HIDE DEF q
<1>11. \A i \in 1..m : q < i => notifMail'[i].type # "release"
  BY <1>2, <1>3, <1>4, <1>10 DEF HoldAt, l
<1>12. \A i \in 1..m : i < q /\ notifMail'[i].type = "publish" => notifMail'[i].note.id <= underWay'
  BY <1>1, <1>2, <1>3, <1>4, <1>10 DEF HoldAt, l
<1>13. 1 < q => \A n \in Note : Waiting(n)' => n.id <= underWay'
  <2>1. 1 < q => 1 < p BY <1>2, <1>4 DEF q
  <2> QED BY <1>7, <2>1
<1>14. HoldAt(q)' BY <1>9, <1>11, <1>12, <1>13 DEF HoldAt, m
<1>15. underWay' \in Nat BY <1>1 DEF WireInv
<1> QED BY <1>4, <1>8, <1>14, <1>15 DEF WireInv, m

\* The session.
LEMMA SessionWire ==
  ASSUME QueueInv, WireInv, SessionCalls
  PROVE  WireInv'
<1>1. CASE EngageHold BY <1>1, HoldBegun DEF EngageHold
<1>2. CASE EngageDialWindow BY <1>2, HoldBegun DEF EngageDialWindow
<1>3. ASSUME underWay' = underWay, ~Holding' PROVE WireInv' BY <1>3 DEF WireInv
<1>4. ASSUME Holding' => Holding, UNCHANGED <<underWay, held, queue, transportMail>>,
             NEW kind \in Signals \ {"release"}, Tell(kind)
      PROVE  WireInv'
  <2> DEFINE x == [type |-> kind]
  <2>1. x \in Messages /\ x.type # "release" /\ notifMail' = Append(notifMail, x)
    BY <1>4 DEF Tell, Messages, Signal
  <2> HIDE DEF x
  <2>2. \A n : (Waiting(n)' <=> Waiting(n)) /\ (Delivered(n)' <=> Delivered(n))
    BY <1>4 DEF Waiting, Delivered
  <2> QED BY <1>3, <1>4, <2>1, <2>2, ToldInHold
<1>5. CASE AudioOutput BY <1>4, <1>5 DEF AudioOutput, Signals, Holding, actorSide, transportSide
<1>6. CASE ResetAudio BY <1>4, <1>6 DEF ResetAudio, Signals, Holding, actorSide, transportSide
<1>7. CASE TurnComplete BY <1>4, <1>7 DEF TurnComplete, Signals, Holding, actorSide, transportSide
<1>8. CASE Interrupted
  <2>1. /\ TellBoth("reset_audio", "interrupted") /\ Holding' = Holding
        /\ UNCHANGED <<underWay, held, queue, transportMail>>
        /\ "reset_audio" \in Signals /\ "interrupted" \in Signals /\ notifMail \in Seq(Messages)
    BY <1>8 DEF Interrupted, Holding, actorSide, transportSide, Signals, QueueInv, FlagInv
  <2>2. /\ Len(notifMail) \in Nat /\ Len(notifMail') = Len(notifMail) + 2
        /\ \A i \in 1..Len(notifMail) : notifMail'[i] = notifMail[i]
        /\ notifMail'[Len(notifMail) + 1].type = "reset_audio"
        /\ notifMail'[Len(notifMail) + 2].type = "interrupted"
    BY <2>1, TellBothHas
  <2>3. /\ Len(notifMail') \in Nat /\ Len(notifMail) <= Len(notifMail')
        /\ \A i \in 1..Len(notifMail') : Len(notifMail) < i => notifMail'[i].type # "release"
    <3>1. ASSUME NEW i \in 1..Len(notifMail'), Len(notifMail) < i PROVE notifMail'[i].type # "release"
      <4>1. i = Len(notifMail) + 1 \/ i = Len(notifMail) + 2 BY <2>2, <3>1
      <4> QED BY <2>2, <4>1
    <3> QED BY <2>2, <3>1
  <2>4. \A n : (Waiting(n)' <=> Waiting(n)) /\ (Delivered(n)' <=> Delivered(n))
    BY <2>1 DEF Waiting, Delivered
  <2> QED BY <1>3, <2>1, <2>2, <2>3, <2>4, MoreMail
<1>9. CASE Publish
  <2>1. PICK priority \in {"normal", "high"}, key \in Keys \cup {NoKey} :
          notifMail' = Append(notifMail,
            [type |-> "publish",
             note |-> [id |-> published', priority |-> priority, key |-> key]])
    BY <1>9 DEF Publish
  <2> DEFINE x == [type |-> "publish", note |-> [id |-> published', priority |-> priority, key |-> key]]
  <2>2. published' \in 1..MaxPublish
    BY <1>9, NotificationAssumption DEF Publish, QueueInv, FlagInv, NotificationAssumption
  <2>3. x \in Messages /\ x.type # "release" /\ notifMail' = Append(notifMail, x)
    BY <2>1, <2>2 DEF Messages, Publication, Note
  <2> HIDE DEF x
  <2>4. Holding' = Holding /\ UNCHANGED <<underWay, held, queue, transportMail>>
    BY <1>9 DEF Publish, Holding, sessionSide, actorSide, transportSide
  <2>5. \A n : (Waiting(n)' <=> Waiting(n)) /\ (Delivered(n)' <=> Delivered(n))
    BY <2>4 DEF Waiting, Delivered
  <2> QED BY <1>3, <2>3, <2>4, <2>5, ToldInHold
<1>10. ASSUME UNCHANGED <<underWay, held, notifMail, queue, transportMail>>, Holding PROVE WireInv'
  BY <1>10 DEF WireInv, HoldAt, Waiting, Delivered
<1>11. CASE ReleaseHold
  BY <1>3, <1>10, <1>11 DEF ReleaseHold, Holding, actorSide, transportSide, QueueInv, FlagInv
<1>12. CASE ReleaseDialWindow
  BY <1>3, <1>10, <1>12 DEF ReleaseDialWindow, Holding, actorSide, transportSide, QueueInv, FlagInv
<1> QED BY <1>1, <1>2, <1>5, <1>6, <1>7, <1>8, <1>9, <1>11, <1>12 DEF SessionCalls

\* The actor.
LEMMA ActorWire ==
  ASSUME QueueInv, WireInv, ActorHandles
  PROVE  WireInv'
<1>1. QueueTypes /\ notifMail \in Seq(Messages) /\ subscribed \in BOOLEAN
  BY DEF QueueInv, BookInv, FlagInv
<1>2. underWay' = underWay /\ (Holding' <=> Holding)
  BY DEF ActorHandles, HandlePublish, HandleAudioStarted, HandleResetAudio, HandleInterrupted,
     HandleSetHeld, HandleSubscription, HandleTurnComplete, ReceiveNotice, Holding, sessionSide
<1>3. CASE ~Holding BY <1>2, <1>3 DEF WireInv
<1>4. ASSUME Holding, NEW kind, ReceiveNotice(kind), kind = "hold" => held' = TRUE,
             kind \notin HoldTypes => held' = held, UNCHANGED <<queue, transportMail>>
      PROVE  WireInv'
  <2>1. \A n : (Waiting(n)' <=> Waiting(n)) /\ (Delivered(n)' <=> Delivered(n))
    BY <1>4 DEF Waiting, Delivered
  <2> QED BY <1>4, <2>1, NoticeInHold
<1>5. CASE Holding /\ HandlePublish
  <2> DEFINE n == Head(notifMail).note
             e == Deduped(n)
  <2>1. /\ ReceiveNotice("publish") /\ held' = held
        /\ \/ GoesOut(n) /\ Deliver(n) /\ queue' = e
           \/ queue' = Filed(n, e) /\ transportMail' = transportMail
    BY <1>5 DEF HandlePublish
  <2>2. n \in Note BY <1>1, <2>1, ReceiveMail
  <2>3. e \in Seq(Note) /\ \A a : In("note", e, a) => Waiting(a)
    BY <1>1, <2>2, DedupedLane DEF QueueTypes
  <2>4. GoesOut(n) => ~held BY DEF GoesOut
  <2> HIDE DEF n, e
  <2>5. CASE GoesOut(n) /\ Deliver(n) /\ queue' = e
    <3>1. \A a : Delivered(a)' => Delivered(a) \/ a = n BY <1>1, <2>2, <2>5, DeliverLane
    <3>2. \A a : Waiting(a)' => Waiting(a) BY <2>3, <2>5 DEF Waiting
    <3> QED BY <1>5, <2>1, <2>4, <2>5, <3>1, <3>2, NoticeInHold DEF HoldTypes, n
  <2>6. CASE queue' = Filed(n, e) /\ transportMail' = transportMail
    <3>1. \A a : Waiting(a)' => Waiting(a) \/ a = n BY <2>2, <2>3, <2>6, FiledLane DEF Waiting
    <3>2. \A a : Delivered(a)' => Delivered(a) BY <2>6 DEF Delivered
    <3> QED BY <1>5, <2>1, <3>1, <3>2, NoticeInHold DEF HoldTypes, n
  <2> QED BY <2>1, <2>5, <2>6
<1>6. CASE Holding /\ HandleAudioStarted BY <1>4, <1>6 DEF HandleAudioStarted, HoldTypes
<1>7. CASE Holding /\ HandleResetAudio BY <1>4, <1>7 DEF HandleResetAudio, HoldTypes
<1>8. CASE Holding /\ HandleInterrupted BY <1>4, <1>8 DEF HandleInterrupted, HoldTypes
<1>9. CASE Holding /\ HandleSetHeld BY <1>4, <1>9 DEF HandleSetHeld, HoldTypes
<1>10. CASE Holding /\ HandleSubscription BY <1>4, <1>10 DEF HandleSubscription, HoldTypes
<1>11. CASE Holding /\ HandleTurnComplete
  <2>1. /\ ReceiveNotice("turn_complete") /\ held' = held
        /\ UNCHANGED <<queue, transportMail, lost>> \/ FlushOne
    BY <1>11 DEF HandleTurnComplete
  <2>2. CASE UNCHANGED <<queue, transportMail>> BY <1>4, <1>11, <2>1, <2>2 DEF HoldTypes
  <2>3. CASE FlushOne /\ ~held /\ queue # <<>>
    <3> DEFINE h == Head(queue)
               d == [type |-> "delivered", note |-> h]
               k == "delivered"
               M == Delivery \cup {Cancel}
    <3>1. /\ queue \in Seq(Note) /\ transportMail \in Seq(M) /\ h \in Note
          /\ queue' = Tail(queue)
          /\ transportMail' = (IF subscribed THEN Append(transportMail, d) ELSE transportMail)
      BY <1>1, <2>3 DEF QueueTypes, FlushOne
    <3>2. d \in M /\ \A a : Carries(k, d, a) <=> a = h BY <3>1 DEF Delivery, Carries
    <3> HIDE DEF h, d, M
    <3>3. \A a : (Waiting(a)' => Waiting(a)) /\ Waiting(h)
      BY <2>3, <3>1, HeadLane DEF Waiting, Carries, h
    <3>4. \A a : Delivered(a)' => Delivered(a) \/ a = h
      <4> DEFINE t == Append(transportMail, d)
      <4>1. \A a : In(k, t, a) <=> In(k, transportMail, a) \/ Carries(k, d, a)
        BY <3>1, <3>2, AppendLane
      <4> HIDE DEF t
      <4>2. CASE subscribed BY <3>1, <3>2, <4>1, <4>2 DEF Delivered, t
      <4>3. CASE ~subscribed BY <3>1, <4>3 DEF Delivered
      <4> QED BY <4>2, <4>3
    <3> QED BY <1>11, <2>1, <2>3, <3>3, <3>4, NoticeInHold DEF HoldTypes
  <2> QED BY <2>1, <2>2, <2>3 DEF FlushOne
<1> QED BY <1>3, <1>5, <1>6, <1>7, <1>8, <1>9, <1>10, <1>11 DEF ActorHandles

\* The transport takes what it has, and tells of a restart.
LEMMA TransportWire ==
  ASSUME QueueInv, WireInv, TransportHandles
  PROVE  WireInv' /\ (Holding /\ wire' # wire => wire'[Len(wire')].id <= underWay)
<1>1. QueueTypes /\ notifMail \in Seq(Messages) /\ wire \in Seq(Note)
  BY DEF QueueInv, BookInv, FlagInv, QueueTypes
<1>2. UNCHANGED <<sessionSide, actorSide, underWay>>
  BY DEF TransportHandles, HandleCancel, WriteNotification, WriteThrows, FinishRestart
<1>3. \A n : (Waiting(n)' <=> Waiting(n)) /\ (Delivered(n)' => Delivered(n))
  <2>1. \A n : Waiting(n)' <=> Waiting(n) BY <1>2 DEF Waiting, actorSide
  <2>2. CASE transportMail' = transportMail BY <2>1, <2>2 DEF Delivered
  <2>3. CASE transportMail # <<>> /\ transportMail' = Tail(transportMail)
    BY <1>1, <2>1, <2>3, HeadLane DEF Delivered, QueueTypes
  <2> QED BY <2>2, <2>3
      DEF TransportHandles, HandleCancel, WriteNotification, WriteThrows, FinishRestart
<1>4. UNCHANGED notifMail \/ Tell("subscribe") \/ Tell("unsubscribe")
  BY DEF TransportHandles, HandleCancel, WriteNotification, WriteThrows, FinishRestart
<1>5. WireInv'
  <2>1. UNCHANGED <<held, underWay>> /\ (Holding' <=> Holding)
    BY <1>2 DEF actorSide, sessionSide, Holding
  <2>2. CASE ~Holding BY <2>1, <2>2 DEF WireInv
  <2>3. CASE Holding /\ UNCHANGED notifMail
    <3>1. Len(notifMail') \in Nat /\ Len(notifMail) <= Len(notifMail') BY <1>1, <2>3
    <3> QED BY <1>3, <2>1, <2>3, <3>1, MoreMail
  <2>4. ASSUME Holding, NEW kind \in {"subscribe", "unsubscribe"}, Tell(kind) PROVE WireInv'
    <3> DEFINE x == [type |-> kind]
    <3>1. x \in Messages /\ x.type # "release" /\ notifMail' = Append(notifMail, x)
      BY <2>4 DEF Tell, Messages, Signal, Signals
    <3> HIDE DEF x
    <3> QED BY <1>3, <2>1, <2>4, <3>1, ToldInHold
  <2> QED BY <1>4, <2>2, <2>3, <2>4
<1>6. ASSUME Holding, wire' # wire PROVE wire'[Len(wire')].id <= underWay
  <2> DEFINE n == Head(transportMail).note
  <2>1. /\ transportMail # <<>> /\ Head(transportMail).type = "delivered"
        /\ wire' = Append(wire, n)
    BY <1>6 DEF TransportHandles, HandleCancel, WriteNotification, WriteThrows, FinishRestart, history
  <2>2. n \in Note /\ Carries("delivered", Head(transportMail), n) BY <1>1, <2>1, TakenNote
  <2>3. Delivered(n) BY <1>1, <2>1, <2>2, HeadLane DEF Delivered, QueueTypes
  <2> HIDE DEF n
  <2>4. wire'[Len(wire')] = n BY <1>1, <2>1, <2>2
  <2> QED BY <1>6, <2>2, <2>3, <2>4 DEF WireInv
<1> QED BY <1>5, <1>6

\* While a hold is engaged nothing is written save what was under way when it was,
\* however many envelopes the hold stands behind.
THEOREM HoldLetsNothingNewOut == NotificationSpec => HeldWritesNothingNew
<1>1. NotificationInit => WireInv BY DEF NotificationInit, WireInv, Holding
<1>2. WireInv /\ QueueInv /\ [NotificationNext]_notificationVars
        => WireInv' /\ [Holding /\ wire' # wire => wire'[Len(wire')].id <= underWay]_notificationVars
  <2>1. ASSUME WireInv, UNCHANGED notificationVars PROVE WireInv'
    BY <2>1 DEF notificationVars, sessionSide, actorSide, transportSide, WireInv, HoldAt, Holding,
       Waiting, Delivered
  <2>2. ASSUME SessionCalls \/ ActorHandles PROVE wire' = wire
    BY <2>2 DEF SessionCalls, AudioOutput, ResetAudio, Interrupted, TurnComplete, Publish, EngageHold,
       ReleaseHold, EngageDialWindow, ReleaseDialWindow, ActorHandles, HandlePublish,
       HandleAudioStarted, HandleResetAudio, HandleInterrupted, HandleSetHeld, HandleSubscription,
       HandleTurnComplete, ReceiveNotice, history
  <2>3. ASSUME WireInv, QueueInv, NotificationNext
        PROVE  WireInv' /\ (Holding /\ wire' # wire => wire'[Len(wire')].id <= underWay)
    BY <2>2, <2>3, SessionWire, ActorWire, TransportWire DEF NotificationNext
  <2> QED BY <2>1, <2>3
<1> QED BY <1>1, <1>2, QueueInductive, PTL DEF NotificationSpec, HeldWritesNothingNew
=============================================================================
