------------------------ MODULE SubscriptionsProofs ------------------------
(***************************************************************************)
(* What the service's maps, quit signals and live packets satisfy for      *)
(* every set of clients and settings, every channel capacity and every     *)
(* interleaving of the clients' goroutines with Serve and Stop; and that   *)
(* what history, stream and eth_getLogs give of a block fits, for every    *)
(* settings, block and index.                                              *)
(***************************************************************************)
EXTENDS Subscriptions, Answers, SequenceTheorems, FiniteSetTheorems, WellFoundedInduction, TLAPS

(* The least and the greatest of some block heights *)

\* Every nonempty set of natural numbers has a least element.
LEMMA LeastExists ==
  ASSUME NEW S \in SUBSET Nat, S # {}
  PROVE  \E x \in S : \A y \in S : x <= y
<1>1. PICK x \in S : \A y \in S : ~(<<y, x>> \in OpToRel(<, Nat))
  BY NatLessThanWellFounded, WFMin
<1>2. \A y \in S : ~(y < x)
  BY <1>1 DEF OpToRel
<1> QED
  BY <1>2

\* Min picks the least height.
LEMMA MinOfHeights ==
  ASSUME NEW N \in Nat, NEW S \in SUBSET (0..N), S # {}
  PROVE  Min(S) \in S /\ \A y \in S : Min(S) <= y
<1>1. \E x \in S : \A y \in S : x <= y
  BY LeastExists
<1> QED
  BY <1>1 DEF Min

\* Max picks the greatest height.
LEMMA MaxOfHeights ==
  ASSUME NEW N \in Nat, NEW S \in SUBSET (0..N), S # {}
  PROVE  Max(S) \in S /\ \A y \in S : y <= Max(S)
<1> DEFINE Below == {d \in Nat : \E x \in S : d = N - x}
<1>1. Below # {}
  <2>1. PICK x \in S : TRUE
    OBVIOUS
  <2>2. N - x \in Nat
    BY <2>1
  <2> QED
    BY <2>1, <2>2
<1>2. PICK d \in Below : \A e \in Below : d <= e
  BY <1>1, LeastExists
<1>3. PICK x \in S : d = N - x
  OBVIOUS
<1>4. \A y \in S : x >= y
  <2> SUFFICES ASSUME NEW y \in S PROVE x >= y
    OBVIOUS
  <2>1. N - y \in Below
    OBVIOUS
  <2>2. d <= N - y
    BY <1>2, <2>1
  <2> QED
    BY <1>3, <2>2
<1>5. \A y \in S : Max(S) >= y /\ Max(S) \in S
  BY <1>4 DEF Max
<1> QED
  BY <1>5
-----------------------------------------------------------------------------

\* The part of TypeOK the proofs need.
MapTypes ==
  /\ Subscriptions \in [Settings -> SUBSET Ids]
  /\ SubscriptionTypes \subseteq Settings
  /\ params \in [Ids -> Settings]
  /\ sub \in [Ids -> SubPC]
  /\ relay \in [Ids -> RelayPC]
  /\ quitChan \in [Ids -> BOOLEAN]

\* Settings are records with a Boolean for the chain and for history only.
LEMMA SettingTypes ==
  \A p \in Settings : /\ p.chain \in BOOLEAN /\ p.only \in BOOLEAN
                      /\ p.start \in Nat /\ p.end \in Int
BY SubscriptionsAssumption DEF SubscriptionsAssumption

\* MapTypes is preserved by every step.
LEMMA StepTypes ==
  ASSUME MapTypes, [Next]_vars
  PROVE  MapTypes'
<1> USE DEF MapTypes, mapVars, envVars, SubPC, RelayPC
<1>1. ASSUME NEW id \in Ids, Client(id) PROVE MapTypes'
  <2>1. CASE Stream(id)
    BY <2>1 DEF Stream
  <2>2. CASE SubscribeRefused(id) \/ StartFeedError(id)
    BY <2>2 DEF SubscribeRefused, StartFeedError, SendQuit
  <2>3. CASE Subscribe(id)
    BY <2>3 DEF Subscribe
  <2>4. CASE StartFeed(id) \/ FeedQuit(id) \/ FeedRetrieve(id) \/ FeedBlock(id)
             \/ FeedComplete(id)
    BY <2>4 DEF StartFeed, FeedQuit, FeedRetrieve, FeedBlock, FeedComplete
  <2>5. CASE RelayPacket(id) \/ RelayQuit(id)
    BY <2>5 DEF RelayPacket, RelayQuit
  <2>6. CASE RelayFails(id) \/ RelayGone(id)
    BY <2>6 DEF RelayFails, RelayGone, Unsubscribe
  <2> QED
    BY <1>1, <2>1, <2>2, <2>3, <2>4, <2>5, <2>6 DEF Client
<1>2. ASSUME NEW h \in Height, ServeBlock(h) PROVE MapTypes'
  BY <1>2 DEF ServeBlock, CloseTypes, SendQuit
<1>3. CASE ServeNil \/ Stop
  BY <1>3 DEF ServeNil, Stop, CloseTypes, SendQuit
<1>4. CASE ServeCrash
  BY <1>4 DEF ServeCrash
<1>5. CASE ServeQuit \/ \E h \in Height : IndexBlock(h)
  BY <1>5 DEF ServeQuit, IndexBlock
<1>6. CASE UNCHANGED vars
  BY <1>6 DEF vars
<1> QED
  BY <1>1, <1>2, <1>3, <1>4, <1>5, <1>6 DEF Next

\* Closing a set of types keeps the two maps in step.
LEMMA CloseAgrees ==
  ASSUME MapTypes, TypesAgree, NEW types, CloseTypes(types), UNCHANGED params
  PROVE  TypesAgree'
<1>1. /\ Subscriptions' = [ty \in Settings |-> IF ty \in types THEN {}
                                               ELSE Subscriptions[ty]]
      /\ SubscriptionTypes' = SubscriptionTypes \ types
      /\ params' = params
  BY DEF CloseTypes
<1>2. Live' = Live \ types
  BY <1>1 DEF Live
<1> QED
  BY <1>1, <1>2 DEF TypesAgree

\* So does unsubscribing a client.
LEMMA UnsubscribeAgrees ==
  ASSUME MapTypes, TypesAgree, NEW id \in Ids, Unsubscribe(id), UNCHANGED params
  PROVE  TypesAgree'
<1>1. /\ Subscriptions' = [ty \in Settings |-> Subscriptions[ty] \ {id}]
      /\ SubscriptionTypes' = {ty \in SubscriptionTypes :
                                 Subscriptions[ty] \ {id} # {}}
      /\ params' = params
  BY DEF Unsubscribe
<1>2. Live' = {ty \in Live : Subscriptions[ty] \ {id} # {}}
  BY <1>1 DEF Live
<1> QED
  BY <1>1, <1>2 DEF TypesAgree

\* TypesAgree is preserved by every step.
LEMMA StepTypesAgree ==
  ASSUME MapTypes, TypesAgree, [Next]_vars
  PROVE  TypesAgree'
<1>1. ASSUME UNCHANGED <<mapVars, params>> PROVE TypesAgree'
  BY <1>1 DEF mapVars, TypesAgree, Live
<1>2. ASSUME NEW id \in Ids, Client(id) PROVE TypesAgree'
  <2>1. CASE Subscribe(id)
    <3>1. CASE params[id].only
      <4>1. UNCHANGED <<mapVars, params>>
        BY <2>1, <3>1 DEF Subscribe, mapVars
      <4> QED
        BY <4>1, <1>1
    <3>2. CASE ~params[id].only
      <4>1. /\ Subscriptions' = [Subscriptions EXCEPT ![params[id]] = @ \cup {id}]
            /\ SubscriptionTypes' = SubscriptionTypes \cup {params[id]}
            /\ params' = params /\ params[id] \in Settings
            /\ params[id].chain
        BY <2>1, <3>2 DEF Subscribe, MapTypes
      <4>2. Live' = Live \cup {params[id]}
        BY <4>1 DEF Live, MapTypes
      <4>3. ASSUME NEW ty \in Settings, NEW i \in Subscriptions'[ty]
            PROVE  params'[i] = ty /\ ~ty.only /\ ty.chain
        BY <4>1, <4>3, <3>2 DEF TypesAgree, MapTypes
      <4> QED
        BY <4>1, <4>2, <4>3 DEF TypesAgree
    <3> QED
      BY <3>1, <3>2
  <2>2. CASE RelayFails(id) \/ RelayGone(id)
    BY <2>2, UnsubscribeAgrees DEF RelayFails, RelayGone
  <2>3. CASE ~Subscribe(id) /\ ~RelayFails(id) /\ ~RelayGone(id)
    <3>1. UNCHANGED <<mapVars, params>>
      BY <1>2, <2>3 DEF Client, Stream, SubscribeRefused, StartFeed,
         StartFeedError, FeedQuit, FeedRetrieve, FeedBlock, FeedComplete,
         RelayPacket, RelayQuit
    <3> QED
      BY <3>1, <1>1
  <2> QED
    BY <2>1, <2>2, <2>3
<1>3. ASSUME NEW h \in Height, ServeBlock(h) PROVE TypesAgree'
  BY <1>3, CloseAgrees DEF ServeBlock
<1>4. CASE ServeNil \/ Stop
  BY <1>4, CloseAgrees DEF ServeNil, Stop
<1>5. CASE ServeCrash \/ ServeQuit \/ \E h \in Height : IndexBlock(h)
  BY <1>5, <1>1 DEF ServeCrash, ServeQuit, IndexBlock
<1>6. CASE UNCHANGED vars
  BY <1>6, <1>1 DEF vars, mapVars
<1> QED
  BY <1>2, <1>3, <1>4, <1>5, <1>6 DEF Next

\* The maps' types and their agreement are inductive together.
LEMMA MapsInductive == Spec => [](MapTypes /\ TypesAgree)
<1>1. Init => MapTypes /\ TypesAgree
  BY DEF Init, MapTypes, TypesAgree, Live, SubPC, RelayPC
<1>2. MapTypes /\ TypesAgree /\ [Next]_vars => (MapTypes /\ TypesAgree)'
  BY StepTypes, StepTypesAgree
<1> QED
  BY <1>1, <1>2, PTL DEF Spec

\* The two maps of the service have entries for the same types, each holding
\* clients of exactly these settings: the error branch at service.go:300-303 is
\* dead code.
THEOREM TypesAgreeAlways == Spec => []TypesAgree
BY MapsInductive, PTL
-----------------------------------------------------------------------------
(* Told before dropped *)

\* closeType and close signal every client they drop.
LEMMA CloseTells ==
  ASSUME MapTypes, ToldBeforeDropped, NEW types, CloseTypes(types),
         UNCHANGED <<params, sub, relay>>
  PROVE  ToldBeforeDropped'
<1> SUFFICES ASSUME NEW id \in Ids,
                    sub[id] \in {"historical", "returned"}, ~params[id].only,
                    ~Registered(id)', relay[id] = "running"
             PROVE  quitChan'[id]
  BY DEF ToldBeforeDropped
<1>1. quitChan'[id] <=> quitChan[id] \/ id \in UNION {Subscriptions[ty] : ty \in types}
  BY DEF CloseTypes, SendQuit
<1>2. CASE ~Registered(id)
  BY <1>1, <1>2 DEF ToldBeforeDropped
<1>3. CASE Registered(id)
  <2>1. PICK ty \in Settings : id \in Subscriptions[ty]
    BY <1>3 DEF Registered
  <2>2. id \notin Subscriptions'[ty]
    BY DEF Registered
  <2>3. ty \in types
    BY <2>1, <2>2 DEF CloseTypes
  <2> QED
    BY <1>1, <2>1, <2>3
<1> QED
  BY <1>2, <1>3

\* A client that unsubscribes ends its own relay and drops no other client.
LEMMA UnsubscribeTells ==
  ASSUME MapTypes, ToldBeforeDropped, NEW id \in Ids, Unsubscribe(id),
         relay' = [relay EXCEPT ![id] = "unsubscribed"],
         UNCHANGED <<params, sub, quitChan>>
  PROVE  ToldBeforeDropped'
<1> SUFFICES ASSUME NEW c \in Ids,
                    sub[c] \in {"historical", "returned"}, ~params[c].only,
                    ~Registered(c)', relay'[c] = "running"
             PROVE  quitChan[c]
  BY DEF ToldBeforeDropped
<1>1. c # id /\ relay[c] = "running"
  BY DEF MapTypes
<1>2. ~Registered(c)
  BY <1>1 DEF Registered, Unsubscribe
<1> QED
  BY <1>1, <1>2 DEF ToldBeforeDropped

\* ToldBeforeDropped is preserved by every step.
LEMMA StepTold ==
  ASSUME MapTypes, ToldBeforeDropped, [Next]_vars
  PROVE  ToldBeforeDropped'
<1>1. ASSUME UNCHANGED <<mapVars, params, sub, relay, quitChan>>
      PROVE  ToldBeforeDropped'
  BY <1>1 DEF mapVars, ToldBeforeDropped, Registered
<1>2. ASSUME NEW id \in Ids, Client(id) PROVE ToldBeforeDropped'
  <2>1. CASE Stream(id)
    <3>1. /\ UNCHANGED <<Subscriptions, params, quitChan>>
          /\ sub' = [sub EXCEPT ![id] = "start"]
          /\ relay' = [relay EXCEPT ![id] = "running"]
      BY <2>1 DEF Stream, mapVars
    <3> QED
      BY <3>1 DEF ToldBeforeDropped, Registered, MapTypes
  <2>2. CASE SubscribeRefused(id) \/ StartFeedError(id)
    <3>1. /\ UNCHANGED <<Subscriptions, params, relay>>
          /\ sub' = [sub EXCEPT ![id] = "returned"]
          /\ \A c \in Ids : quitChan'[c] <=> quitChan[c] \/ c = id
      BY <2>2 DEF SubscribeRefused, StartFeedError, SendQuit, mapVars
    <3> QED
      BY <3>1 DEF ToldBeforeDropped, Registered, MapTypes
  <2>3. CASE Subscribe(id)
    <3>1. /\ UNCHANGED <<params, relay, quitChan>>
          /\ \A c \in Ids \ {id} : sub'[c] = sub[c]
          /\ \A ty \in Settings : Subscriptions[ty] \subseteq Subscriptions'[ty]
          /\ ~params[id].only => id \in Subscriptions'[params[id]]
          /\ params[id] \in Settings
      BY <2>3 DEF Subscribe, MapTypes
    <3>2. ~params[id].only => Registered(id)'
      BY <3>1 DEF Registered
    <3>3. \A c \in Ids : Registered(c) => Registered(c)'
      BY <3>1 DEF Registered
    <3> QED
      BY <3>1, <3>2, <3>3 DEF ToldBeforeDropped
  <2>4. CASE StartFeed(id)
    <3>1. /\ UNCHANGED <<Subscriptions, params, relay, quitChan>>
          /\ sub[id] = "historical" /\ sub' = [sub EXCEPT ![id] = "returned"]
      BY <2>4 DEF StartFeed, mapVars
    <3> QED
      BY <3>1 DEF ToldBeforeDropped, Registered, MapTypes
  <2>5. CASE FeedQuit(id) \/ FeedRetrieve(id) \/ FeedBlock(id) \/ FeedComplete(id)
             \/ RelayPacket(id)
    BY <2>5, <1>1 DEF FeedQuit, FeedRetrieve, FeedBlock, FeedComplete, RelayPacket
  <2>6. CASE RelayFails(id) \/ RelayGone(id)
    BY <2>6, UnsubscribeTells DEF RelayFails, RelayGone
  <2>7. CASE RelayQuit(id)
    <3>1. /\ UNCHANGED <<Subscriptions, params, sub>>
          /\ quitChan' = [quitChan EXCEPT ![id] = FALSE]
          /\ relay' = [relay EXCEPT ![id] = "quit"]
      BY <2>7 DEF RelayQuit, mapVars
    <3> QED
      BY <3>1 DEF ToldBeforeDropped, Registered, MapTypes
  <2> QED
    BY <1>2, <2>1, <2>2, <2>3, <2>4, <2>5, <2>6, <2>7 DEF Client
<1>3. ASSUME NEW h \in Height, ServeBlock(h) PROVE ToldBeforeDropped'
  BY <1>3, CloseTells DEF ServeBlock
<1>4. CASE ServeNil \/ Stop
  BY <1>4, CloseTells DEF ServeNil, Stop
<1>5. CASE ServeCrash
  BY <1>5 DEF ServeCrash, ToldBeforeDropped
<1>6. CASE ServeQuit \/ \E h \in Height : IndexBlock(h)
  BY <1>6, <1>1 DEF ServeQuit, IndexBlock
<1>7. CASE UNCHANGED vars
  BY <1>7, <1>1 DEF vars, mapVars
<1> QED
  BY <1>2, <1>3, <1>4, <1>5, <1>6, <1>7 DEF Next

\* No streaming client is dropped in silence: when the service no longer serves
\* one whose relay still runs, its quit signal is waiting for the relay.
THEOREM ToldBeforeDroppedAlways == Spec => []ToldBeforeDropped
<1>1. Init => ToldBeforeDropped
  BY DEF Init, ToldBeforeDropped
<1>2. MapTypes /\ ToldBeforeDropped /\ [Next]_vars => ToldBeforeDropped'
  BY StepTold
<1> QED
  BY <1>1, <1>2, MapsInductive, PTL DEF Spec
-----------------------------------------------------------------------------
(* What a client is sent lies in its range *)

\* A message m that a client with settings p and historical feed f may get.
GoodPacket(p, f, m) ==
  /\ m.src = "live" => p.start <= m.height /\ (p.end <= 0 \/ m.height <= p.end)
  /\ m.src = "historical" =>
       /\ f.pc # "none"
       /\ p.start <= m.height
       /\ p.end <= 0 \/ m.height <= p.end \/ p.end <= f.first

\* A feed that started stays in the range it computed, which ends where the
\* client's does unless that is not after its first block.
GoodFeed(p, f) ==
  f.pc # "none" =>
    /\ p.start <= f.first /\ f.first <= f.next
    /\ p.end <= 0 \/ f.last <= p.end \/ p.end <= f.first
    /\ f.left > 0 => f.next <= f.last

Feed == [pc : {"none", "running", "done"}, first : Int, next : Int, last : Int,
         left : Nat]

\* The invariant of one client: its channel, its feed, and that it has at most
\* one feed, started after everything in sub's earlier states.
ClientInv(id) ==
  /\ payloadChan[id] \in Seq(Message)
  /\ feed[id] \in Feed
  /\ GoodFeed(params[id], feed[id])
  /\ \A i \in 1..Len(payloadChan[id]) :
       GoodPacket(params[id], feed[id], payloadChan[id][i])
  /\ relay[id] = "none" => sub[id] = "none"
  /\ sub[id] # "returned" => feed[id].pc = "none"

ServeInv ==
  /\ DOMAIN payloadChan = Ids
  /\ DOMAIN feed = Ids
  /\ stored \subseteq Height
  /\ \A id \in Ids : ClientInv(id)

\* A non-blocking send of a good message keeps a channel good.
LEMMA SentGood ==
  ASSUME NEW p, NEW f, NEW chan \in Seq(Message), NEW m \in Message,
         GoodPacket(p, f, m),
         \A i \in 1..Len(chan) : GoodPacket(p, f, chan[i])
  PROVE  /\ Sent(chan, m) \in Seq(Message)
         /\ \A i \in 1..Len(Sent(chan, m)) : GoodPacket(p, f, Sent(chan, m)[i])
<1>1. CASE Len(chan) < PayloadChanBufferSize
  <2>1. Sent(chan, m) = Append(chan, m)
    BY <1>1 DEF Sent
  <2>2. Append(chan, m) \in Seq(Message) /\ Len(Append(chan, m)) = Len(chan) + 1
    OBVIOUS
  <2>3. ASSUME NEW i \in 1..Len(Append(chan, m))
        PROVE  GoodPacket(p, f, Append(chan, m)[i])
    <3>1. CASE i = Len(chan) + 1
      <4>1. Append(chan, m)[i] = m
        BY <3>1
      <4> QED
        BY <4>1
    <3>2. CASE i \in 1..Len(chan)
      <4>1. Append(chan, m)[i] = chan[i]
        BY <3>2
      <4> QED
        BY <4>1, <3>2
    <3> QED
      BY <2>2, <2>3, <3>1, <3>2
  <2> QED
    BY <2>1, <2>2, <2>3
<1>2. CASE ~(Len(chan) < PayloadChanBufferSize)
  BY <1>2 DEF Sent
<1> QED
  BY <1>1, <1>2

\* Receiving from a channel keeps it good.
LEMMA TailGood ==
  ASSUME NEW p, NEW f, NEW chan \in Seq(Message), chan # <<>>,
         \A i \in 1..Len(chan) : GoodPacket(p, f, chan[i])
  PROVE  /\ Tail(chan) \in Seq(Message)
         /\ \A i \in 1..Len(Tail(chan)) : GoodPacket(p, f, Tail(chan)[i])
<1>1. /\ Tail(chan) \in Seq(Message) /\ Len(Tail(chan)) = Len(chan) - 1
      /\ Len(chan) \in Nat
  OBVIOUS
<1>2. ASSUME NEW i \in 1..Len(Tail(chan)) PROVE GoodPacket(p, f, Tail(chan)[i])
  <2>1. Tail(chan)[i] = chan[i + 1] /\ i + 1 \in 1..Len(chan)
    BY <1>1
  <2> QED
    BY <2>1
<1> QED
  BY <1>1, <1>2

\* The range of a new feed starts in the client's range and is clamped to it.
LEMMA FeedRange ==
  ASSUME NEW p \in Settings, stored \subseteq Height, stored # {}
  PROVE  /\ FeedFirst(p) \in Int /\ FeedLast(p) \in Int
         /\ p.start <= FeedFirst(p)
         /\ p.end <= 0 \/ FeedLast(p) <= p.end \/ p.end <= FeedFirst(p)
<1>1. MaxHeight \in Nat /\ stored \in SUBSET (0..MaxHeight)
  BY SubscriptionsAssumption DEF SubscriptionsAssumption, Height
<1>2. Min(stored) \in Int /\ Max(stored) \in Int
  <2>1. Min(stored) \in stored
    BY <1>1, MinOfHeights
  <2>2. Max(stored) \in stored
    BY <1>1, MaxOfHeights
  <2>3. \A x \in stored : x \in Int
    BY <1>1
  <2> QED
    BY <2>1, <2>2, <2>3
<1>3. p.start \in Nat /\ p.end \in Int
  BY SettingTypes
<1>4. FeedFirst(p) \in Int /\ p.start <= FeedFirst(p)
  BY <1>2, <1>3 DEF FeedFirst
<1>5. CASE Max(stored) > p.end /\ p.end > 0 /\ p.end > FeedFirst(p)
  <2>1. FeedLast(p) = p.end
    BY <1>5 DEF FeedLast
  <2> QED
    BY <2>1, <1>3, <1>4
<1>6. CASE ~(Max(stored) > p.end /\ p.end > 0 /\ p.end > FeedFirst(p))
  <2>1. FeedLast(p) = Max(stored)
    BY <1>6 DEF FeedLast
  <2> QED
    BY <2>1, <1>2, <1>3, <1>4, <1>6
<1> QED
  BY <1>5, <1>6

\* A feed that goes on, or stops, keeps the packets it sent good.
LEMMA FeedKeepsPackets ==
  ASSUME NEW p, NEW f, NEW g, NEW chan,
         f.pc # "none" => g.pc # "none" /\ g.first = f.first,
         \A i \in 1..Len(chan) : GoodPacket(p, f, chan[i])
  PROVE  \A i \in 1..Len(chan) : GoodPacket(p, g, chan[i])
BY DEF GoodPacket

\* One client's step keeps its own invariant.
LEMMA ClientStep ==
  ASSUME ServeInv, MapTypes, NEW id \in Ids, Client(id)
  PROVE  /\ DOMAIN payloadChan' = Ids /\ DOMAIN feed' = Ids
         /\ stored' = stored /\ params' = params
         /\ ClientInv(id)'
         /\ \A c \in Ids \ {id} :
              /\ payloadChan'[c] = payloadChan[c] /\ feed'[c] = feed[c]
              /\ relay'[c] = relay[c] /\ sub'[c] = sub[c]
<1> DEFINE p == params[id]
           f == feed[id]
           chan == payloadChan[id]
<1>1. /\ chan \in Seq(Message) /\ f \in Feed /\ GoodFeed(p, f)
      /\ \A i \in 1..Len(chan) : GoodPacket(p, f, chan[i])
      /\ relay[id] = "none" => sub[id] = "none"
      /\ sub[id] # "returned" => f.pc = "none"
      /\ DOMAIN payloadChan = Ids /\ DOMAIN feed = Ids
      /\ p \in Settings
  BY DEF ServeInv, ClientInv, MapTypes
<1>2. ASSUME NEW m \in Message, m.src \in {"error", "complete"}
      PROVE  /\ Sent(chan, m) \in Seq(Message)
             /\ \A i \in 1..Len(Sent(chan, m)) : GoodPacket(p, f, Sent(chan, m)[i])
  <2>1. GoodPacket(p, f, m)
    BY <1>2 DEF GoodPacket
  <2> QED
    BY <1>1, <2>1, SentGood
<1>3. Msg("error", 0) \in Message /\ Msg("complete", 0) \in Message
  BY DEF Msg, Message
<1>4. CASE Stream(id)
  BY <1>4, <1>1 DEF Stream, mapVars, envVars, ClientInv, MapTypes, SubPC
<1>5. CASE SubscribeRefused(id) \/ StartFeedError(id)
  <2>1. /\ payloadChan' = [payloadChan EXCEPT ![id] = Sent(@, Msg("error", 0))]
        /\ sub' = [sub EXCEPT ![id] = "returned"]
        /\ sub[id] # "none"
        /\ UNCHANGED <<params, relay, feed, stored>>
    BY <1>5 DEF SubscribeRefused, StartFeedError, SendErr, envVars
  <2>2. payloadChan'[id] = Sent(chan, Msg("error", 0))
    BY <2>1, <1>1
  <2>3. Msg("error", 0).src = "error"
    BY DEF Msg
  <2> QED
    BY <2>1, <2>2, <2>3, <1>1, <1>2, <1>3 DEF ClientInv, MapTypes
<1>6. CASE Subscribe(id)
  BY <1>6, <1>1 DEF Subscribe, envVars, ClientInv, MapTypes
<1>7. CASE StartFeed(id)
  <2> DEFINE g == [pc |-> "running", first |-> FeedFirst(p),
                   next |-> FeedFirst(p), last |-> FeedLast(p), left |-> 0]
  <2>1. /\ feed' = [feed EXCEPT ![id] = g]
        /\ sub' = [sub EXCEPT ![id] = "returned"]
        /\ sub[id] = "historical" /\ stored # {}
        /\ UNCHANGED <<params, relay, payloadChan, stored>>
    BY <1>7 DEF StartFeed, envVars
  <2>2. /\ FeedFirst(p) \in Int /\ FeedLast(p) \in Int
        /\ p.start <= FeedFirst(p)
        /\ p.end <= 0 \/ FeedLast(p) <= p.end \/ p.end <= FeedFirst(p)
    BY <1>1, <2>1, FeedRange DEF ServeInv
  <2>3. g \in Feed /\ GoodFeed(p, g)
    BY <2>2 DEF Feed, GoodFeed
  <2>4. f.pc = "none"
    BY <2>1, <1>1
  <2>5. \A i \in 1..Len(chan) : GoodPacket(p, g, chan[i])
    BY <2>4, <1>1, FeedKeepsPackets
  <2>6. feed'[id] = g
    BY <2>1, <1>1
  <2> HIDE DEF g
  <2> QED
    BY <2>1, <2>3, <2>5, <2>6, <1>1 DEF ClientInv, MapTypes
<1>8. CASE FeedQuit(id)
  <2> DEFINE g == [f EXCEPT !.pc = "done"]
  <2>1. /\ feed' = [feed EXCEPT ![id] = g] /\ f.pc = "running"
        /\ UNCHANGED <<params, relay, sub, payloadChan, stored>>
    BY <1>8 DEF FeedQuit, envVars
  <2>2. /\ g \in Feed /\ GoodFeed(p, g)
        /\ g.pc # "none" /\ g.first = f.first
    BY <1>1, <2>1 DEF Feed, GoodFeed
  <2>3. \A i \in 1..Len(chan) : GoodPacket(p, g, chan[i])
    BY <2>2, <1>1, FeedKeepsPackets
  <2>4. feed'[id] = g
    BY <2>1, <1>1
  <2> HIDE DEF g
  <2> QED
    BY <2>1, <2>2, <2>3, <2>4, <1>1 DEF ClientInv, MapTypes
<1>9. CASE FeedBlock(id)
  <2> DEFINE g == [f EXCEPT !.left = f.left - 1,
                            !.next = IF f.left = 1 THEN f.next + 1 ELSE f.next]
             h == Msg("historical", f.next)
  <2>1. /\ feed' = [feed EXCEPT ![id] = g] /\ f.pc = "running"
        /\ f.left > 0 /\ f.next <= f.last
        /\ \/ payloadChan' = [payloadChan EXCEPT ![id] = Sent(@, Msg("error", 0))]
           \/ payloadChan' = payloadChan
           \/ payloadChan' = [payloadChan EXCEPT ![id] = Sent(@, h)]
        /\ UNCHANGED <<params, relay, sub, stored>>
    BY <1>9, <1>1 DEF FeedBlock, SendErr, envVars, GoodFeed
  <2>2. /\ g \in Feed /\ GoodFeed(p, g)
        /\ g.pc # "none" /\ g.first = f.first
    <3>1. /\ f.left \in Nat /\ f.next \in Int /\ f.first \in Int /\ f.last \in Int
          /\ p.start \in Nat
      BY <1>1, SettingTypes DEF Feed
    <3>2. /\ g.pc = "running" /\ g.first = f.first /\ g.last = f.last
          /\ g.left = f.left - 1
          /\ g.next = IF f.left = 1 THEN f.next + 1 ELSE f.next
      BY <1>1, <2>1 DEF Feed
    <3>3. g \in Feed
      <4>1. \A l \in Nat, n \in Int : [f EXCEPT !.left = l, !.next = n] \in Feed
        BY <1>1 DEF Feed
      <4>2. f.left - 1 \in Nat /\ (IF f.left = 1 THEN f.next + 1 ELSE f.next) \in Int
        BY <2>1, <3>1
      <4> QED
        BY <4>1, <4>2
    <3> HIDE DEF g
    <3>4. GoodFeed(p, g)
      BY <1>1, <2>1, <3>1, <3>2 DEF GoodFeed
    <3> QED
      BY <3>2, <3>3, <3>4
  <2>3. h \in Message /\ GoodPacket(p, f, h)
    <3>1. f.next \in Int /\ f.first \in Int /\ f.last \in Int
      BY <1>1 DEF Feed
    <3>2. h \in Message
      BY <3>1 DEF Msg, Message
    <3>3. h.src = "historical" /\ h.height = f.next
      BY DEF Msg
    <3>4. p.start \in Nat /\ p.end \in Int
      BY <1>1, SettingTypes
    <3>5. p.start <= f.next /\ (p.end <= 0 \/ f.next <= p.end \/ p.end <= f.first)
      BY <1>1, <2>1, <3>1, <3>4 DEF GoodFeed
    <3> QED
      BY <2>1, <3>2, <3>3, <3>5 DEF GoodPacket
  <2>4. /\ payloadChan'[id] \in Seq(Message)
        /\ \A i \in 1..Len(payloadChan'[id]) : GoodPacket(p, f, payloadChan'[id][i])
        /\ DOMAIN payloadChan' = Ids
        /\ \A c \in Ids \ {id} : payloadChan'[c] = payloadChan[c]
    <3>1. CASE payloadChan' = [payloadChan EXCEPT ![id] = Sent(@, Msg("error", 0))]
      <4>1. payloadChan'[id] = Sent(chan, Msg("error", 0))
        BY <3>1, <1>1
      <4>2. Msg("error", 0).src = "error"
        BY DEF Msg
      <4> QED
        BY <3>1, <4>1, <4>2, <1>1, <1>2, <1>3
    <3>2. CASE payloadChan' = payloadChan
      BY <3>2, <1>1
    <3>3. CASE payloadChan' = [payloadChan EXCEPT ![id] = Sent(@, h)]
      <4>1. payloadChan'[id] = Sent(chan, h)
        BY <3>3, <1>1
      <4>2. /\ Sent(chan, h) \in Seq(Message)
            /\ \A i \in 1..Len(Sent(chan, h)) : GoodPacket(p, f, Sent(chan, h)[i])
        BY <1>1, <2>3, SentGood
      <4> HIDE DEF h
      <4> QED
        BY <3>3, <4>1, <4>2, <1>1
    <3> QED
      BY <2>1, <3>1, <3>2, <3>3
  <2> HIDE DEF g
  <2>5. \A i \in 1..Len(payloadChan'[id]) : GoodPacket(p, g, payloadChan'[id][i])
    BY <2>2, <2>4, FeedKeepsPackets
  <2>6. feed'[id] = g
    BY <2>1, <1>1
  <2> QED
    BY <2>1, <2>2, <2>4, <2>5, <2>6, <1>1 DEF ClientInv, MapTypes
<1>10. CASE FeedComplete(id)
  <2> DEFINE g == [f EXCEPT !.pc = "done"]
  <2>1. /\ feed' = [feed EXCEPT ![id] = g] /\ f.pc = "running"
        /\ payloadChan' = [payloadChan EXCEPT ![id] = Sent(@, Msg("complete", 0))]
        /\ UNCHANGED <<params, relay, sub, stored>>
    BY <1>10 DEF FeedComplete, envVars
  <2>2. /\ g \in Feed /\ GoodFeed(p, g)
        /\ g.pc # "none" /\ g.first = f.first
    BY <1>1, <2>1 DEF Feed, GoodFeed
  <2>3. payloadChan'[id] = Sent(chan, Msg("complete", 0)) /\ feed'[id] = g
    BY <2>1, <1>1
  <2>4. Msg("complete", 0).src = "complete"
    BY DEF Msg
  <2>5. /\ payloadChan'[id] \in Seq(Message)
        /\ \A i \in 1..Len(payloadChan'[id]) : GoodPacket(p, f, payloadChan'[id][i])
    BY <2>3, <2>4, <1>2, <1>3
  <2>6. \A i \in 1..Len(payloadChan'[id]) : GoodPacket(p, g, payloadChan'[id][i])
    BY <2>2, <2>5, FeedKeepsPackets
  <2> HIDE DEF g
  <2> QED
    BY <2>1, <2>2, <2>3, <2>5, <2>6, <1>1 DEF ClientInv, MapTypes
<1>11. CASE RelayPacket(id) \/ RelayFails(id)
  <2>1. /\ payloadChan' = [payloadChan EXCEPT ![id] = Tail(@)] /\ chan # <<>>
        /\ \A c \in Ids \ {id} : relay'[c] = relay[c]
        /\ relay'[id] # "none"
        /\ UNCHANGED <<params, sub, feed, stored>>
    BY <1>11 DEF RelayPacket, RelayFails, envVars, MapTypes
  <2>2. payloadChan'[id] = Tail(chan)
    BY <2>1, <1>1
  <2>3. /\ Tail(chan) \in Seq(Message)
        /\ \A i \in 1..Len(Tail(chan)) : GoodPacket(p, f, Tail(chan)[i])
    BY <2>1, <1>1, TailGood
  <2> QED
    BY <2>1, <2>2, <2>3, <1>1 DEF ClientInv
<1>12. CASE RelayGone(id) \/ RelayQuit(id)
  BY <1>12, <1>1 DEF RelayGone, RelayQuit, envVars, ClientInv, MapTypes
<1>13. CASE FeedRetrieve(id)
  <2>1. PICK g \in {[f EXCEPT !.next = f.next + 1]}
                   \cup {[f EXCEPT !.left = n] : n \in 1..MaxForks} :
          feed' = [feed EXCEPT ![id] = g]
    BY <1>13, <1>1 DEF FeedRetrieve
  <2>2. /\ f.pc = "running" /\ f.next <= f.last /\ f.left = 0
        /\ \/ payloadChan' = [payloadChan EXCEPT ![id] = Sent(@, Msg("error", 0))]
           \/ payloadChan' = payloadChan
        /\ UNCHANGED <<params, relay, sub, stored>>
    BY <1>13 DEF FeedRetrieve, SendErr, envVars
  <2>3. /\ g \in Feed /\ GoodFeed(p, g)
        /\ g.pc # "none" /\ g.first = f.first
    <3>1. CASE g = [f EXCEPT !.next = f.next + 1]
      BY <1>1, <2>2, <3>1 DEF Feed, GoodFeed
    <3>2. ASSUME NEW n \in 1..MaxForks, g = [f EXCEPT !.left = n]
          PROVE  /\ g \in Feed /\ GoodFeed(p, g)
                 /\ g.pc # "none" /\ g.first = f.first
      <4>1. n \in Nat
        BY SubscriptionsAssumption DEF SubscriptionsAssumption
      <4> QED
        BY <1>1, <2>2, <3>2, <4>1 DEF Feed, GoodFeed
    <3> QED
      BY <2>1, <3>1, <3>2
  <2>4. /\ payloadChan'[id] \in Seq(Message)
        /\ \A i \in 1..Len(payloadChan'[id]) : GoodPacket(p, f, payloadChan'[id][i])
        /\ DOMAIN payloadChan' = Ids
        /\ \A c \in Ids \ {id} : payloadChan'[c] = payloadChan[c]
    <3>1. CASE payloadChan' = [payloadChan EXCEPT ![id] = Sent(@, Msg("error", 0))]
      <4>1. payloadChan'[id] = Sent(chan, Msg("error", 0))
        BY <3>1, <1>1
      <4>2. Msg("error", 0).src = "error"
        BY DEF Msg
      <4> QED
        BY <3>1, <4>1, <4>2, <1>1, <1>2, <1>3
    <3>2. CASE payloadChan' = payloadChan
      BY <3>2, <1>1
    <3> QED
      BY <2>2, <3>1, <3>2
  <2>5. \A i \in 1..Len(payloadChan'[id]) : GoodPacket(p, g, payloadChan'[id][i])
    BY <2>3, <2>4, FeedKeepsPackets
  <2>6. feed'[id] = g /\ DOMAIN feed' = Ids
        /\ \A c \in Ids \ {id} : feed'[c] = feed[c]
    BY <2>1, <1>1
  <2> QED
    BY <2>2, <2>3, <2>4, <2>5, <2>6, <1>1 DEF ClientInv, MapTypes
<1> QED
  BY <1>4, <1>5, <1>6, <1>7, <1>8, <1>9, <1>10, <1>11, <1>12, <1>13 DEF Client

\* The Serve loop sends a client a block of its range only.
LEMMA ServeStep ==
  ASSUME ServeInv, MapTypes, TypesAgree, NEW h \in Height, ServeBlock(h)
  PROVE  ServeInv'
<1> DEFINE m == Msg("live", h)
<1>1. /\ UNCHANGED <<params, sub, relay, feed, stored>>
      /\ DOMAIN payloadChan' = Ids
  BY DEF ServeBlock
<1>2. ASSUME NEW id \in Ids PROVE ClientInv(id)'
  <2>1. /\ payloadChan[id] \in Seq(Message)
        /\ \A i \in 1..Len(payloadChan[id]) :
             GoodPacket(params[id], feed[id], payloadChan[id][i])
    BY DEF ServeInv, ClientInv
  <2>2. CASE payloadChan'[id] = payloadChan[id]
    BY <1>1, <2>2 DEF ServeInv, ClientInv
  <2>3. CASE payloadChan'[id] # payloadChan[id]
    <3>1. PICK ty \in Live : /\ id \in Subscriptions[ty] /\ checkRange(ty, h)
                             /\ payloadChan'[id] = Sent(payloadChan[id], m)
      BY <2>3 DEF ServeBlock
    <3>2. params[id] = ty /\ ty \in Settings
      BY <3>1 DEF TypesAgree, Live
    <3>3. m \in Message /\ m.src = "live" /\ m.height = h
      BY SubscriptionsAssumption DEF Msg, Message, Height, SubscriptionsAssumption
    <3>4. GoodPacket(params[id], feed[id], m)
      <4>1. h \in Int /\ ty.start \in Nat /\ ty.end \in Int
        BY <3>2, SettingTypes, SubscriptionsAssumption
        DEF Height, SubscriptionsAssumption
      <4>2. ty.start <= h /\ (ty.end <= 0 \/ h <= ty.end)
        BY <3>1, <4>1 DEF checkRange
      <4> QED
        BY <3>2, <3>3, <4>2 DEF GoodPacket
    <3> HIDE DEF m
    <3>5. /\ Sent(payloadChan[id], m) \in Seq(Message)
          /\ \A i \in 1..Len(Sent(payloadChan[id], m)) :
               GoodPacket(params[id], feed[id], Sent(payloadChan[id], m)[i])
      BY <2>1, <3>3, <3>4, SentGood
    <3> QED
      BY <1>1, <3>1, <3>5 DEF ServeInv, ClientInv
  <2> QED
    BY <2>2, <2>3
<1> QED
  BY <1>1, <1>2 DEF ServeInv

\* A crash of the process leaves the channels and the feeds' ranges as they are.
LEMMA CrashStep ==
  ASSUME ServeInv, MapTypes, ServeCrash
  PROVE  ServeInv'
<1>1. /\ UNCHANGED <<params, payloadChan, stored>>
      /\ relay' = [id \in Ids |-> "dead"] /\ sub' = [id \in Ids |-> "returned"]
      /\ feed' = [id \in Ids |->
                    [feed[id] EXCEPT !.pc = IF @ = "running" THEN "done" ELSE @]]
  BY DEF ServeCrash
<1>2. ASSUME NEW id \in Ids PROVE ClientInv(id)'
  <2> DEFINE f == feed[id]
             g == feed'[id]
  <2>1. /\ f \in Feed /\ GoodFeed(params[id], f)
        /\ \A i \in 1..Len(payloadChan[id]) :
             GoodPacket(params[id], f, payloadChan[id][i])
        /\ payloadChan[id] \in Seq(Message)
    BY DEF ServeInv, ClientInv
  <2>2. g = [f EXCEPT !.pc = IF f.pc = "running" THEN "done" ELSE f.pc]
    BY <1>1
  <2>3. /\ g \in Feed /\ g.first = f.first /\ g.next = f.next /\ g.last = f.last
        /\ g.left = f.left
        /\ g.pc = "none" <=> f.pc = "none"
    BY <2>1, <2>2 DEF Feed
  <2>4. GoodFeed(params[id], g)
    BY <2>1, <2>3 DEF GoodFeed
  <2>5. \A i \in 1..Len(payloadChan[id]) : GoodPacket(params[id], g, payloadChan[id][i])
    BY <2>1, <2>3, FeedKeepsPackets
  <2> QED
    BY <1>1, <2>1, <2>3, <2>4, <2>5 DEF ClientInv
<1> QED
  BY <1>1, <1>2 DEF ServeInv

\* The channels' invariant is inductive, together with the agreement of the maps.
LEMMA ServeInvInductive == Spec => []ServeInv
<1>1. Init => ServeInv
  <2> SUFFICES ASSUME Init PROVE ServeInv
    OBVIOUS
  <2>1. /\ \A id \in Ids : /\ payloadChan[id] = <<>> /\ feed[id] = NoFeed
                           /\ sub[id] = "none"
        /\ DOMAIN payloadChan = Ids /\ DOMAIN feed = Ids /\ stored = {}
    BY DEF Init
  <2>2. NoFeed \in Feed /\ NoFeed.pc = "none"
    BY DEF NoFeed, Feed
  <2>3. ASSUME NEW id \in Ids PROVE ClientInv(id)
    <3>1. payloadChan[id] \in Seq(Message) /\ Len(payloadChan[id]) = 0
      BY <2>1, EmptySeq
    <3> QED
      BY <2>1, <2>2, <3>1 DEF ClientInv, GoodFeed
  <2> QED
    BY <2>1, <2>3 DEF ServeInv
<1>2. MapTypes /\ TypesAgree /\ ServeInv /\ [Next]_vars => ServeInv'
  <2> SUFFICES ASSUME MapTypes, TypesAgree, ServeInv, [Next]_vars PROVE ServeInv'
    OBVIOUS
  <2>1. ASSUME NEW id \in Ids, Client(id) PROVE ServeInv'
    <3>1. ASSUME NEW c \in Ids \ {id} PROVE ClientInv(c)'
      BY <2>1, <3>1, ClientStep DEF ServeInv, ClientInv
    <3>2. ClientInv(id)' /\ stored' \subseteq Height
          /\ DOMAIN payloadChan' = Ids /\ DOMAIN feed' = Ids
      BY <2>1, ClientStep DEF ServeInv
    <3> QED
      BY <3>1, <3>2 DEF ServeInv
  <2>2. ASSUME NEW h \in Height, ServeBlock(h) PROVE ServeInv'
    BY <2>2, ServeStep
  <2>3. CASE ServeCrash
    BY <2>3, CrashStep
  <2>4. CASE ServeNil \/ ServeQuit \/ Stop \/ UNCHANGED vars
    BY <2>4 DEF ServeNil, ServeQuit, Stop, vars, ServeInv, ClientInv
  <2>5. ASSUME NEW h \in Height, IndexBlock(h) PROVE ServeInv'
    BY <2>5 DEF IndexBlock, ServeInv, ClientInv
  <2> QED
    BY <2>1, <2>2, <2>3, <2>4, <2>5 DEF Next
<1> QED
  BY <1>1, <1>2, MapsInductive, PTL DEF Spec

\* Every live packet in a client's channel is a block of the range the client
\* asked for, whatever the settings and however clients share a type.
THEOREM LiveInRangeAlways == Spec => []LiveInRange
<1>1. ServeInv => LiveInRange
  <2> SUFFICES ASSUME ServeInv, NEW id \in Ids, NEW i \in DOMAIN payloadChan[id],
                      payloadChan[id][i].src = "live"
               PROVE  /\ params[id].start <= payloadChan[id][i].height
                      /\ \/ params[id].end <= 0
                         \/ payloadChan[id][i].height <= params[id].end
    BY DEF LiveInRange
  <2>1. i \in 1..Len(payloadChan[id])
    BY DEF ServeInv, ClientInv
  <2> QED
    BY <2>1 DEF ServeInv, ClientInv, GoodPacket
<1> QED
  BY <1>1, ServeInvInductive, PTL

\* Every historical packet is in the client's range too, but for a range that
\* ends at the feed's first block or before it (service.go:396).
THEOREM HistoricalClampedAlways == Spec => []HistoricalClamped
<1>1. ServeInv => HistoricalClamped
  <2> SUFFICES ASSUME ServeInv, NEW id \in Ids, NEW i \in DOMAIN payloadChan[id],
                      payloadChan[id][i].src = "historical"
               PROVE  /\ params[id].start <= payloadChan[id][i].height
                      /\ \/ params[id].end <= 0
                         \/ payloadChan[id][i].height <= params[id].end
                         \/ params[id].end <= feed[id].first
    BY DEF HistoricalClamped
  <2>1. i \in 1..Len(payloadChan[id])
    BY DEF ServeInv, ClientInv
  <2> QED
    BY <2>1 DEF ServeInv, ClientInv, GoodPacket
<1> QED
  BY <1>1, ServeInvInductive, PTL
-----------------------------------------------------------------------------
(***************************************************************************)
(* What a subscriber is sent of a block: Queries, for every settings,      *)
(* block and index.                                                        *)
(***************************************************************************)
CONSTANTS GapRequests, Commands, Plugins, RankBits, Hashes

Q == INSTANCE Queries

\* The operators of EthFilters and BtcFilters that Queries answers with.
LEMMA SameFilters ==
  /\ \A b : Q!Convert(b) = Convert(b)
  /\ \A s, p : Q!Filter(s, p) = Filter(s, p)
<1>1. \A b : Q!Convert(b) = Convert(b)
  BY DEF Q!Convert, Convert, Q!ReceiptMetaData, ReceiptMetaData, Q!Slot, Slot
<1>2. \A s, p : Q!Filter(s, p) = Filter(s, p)
  BY DEF Q!Filter, Filter, Q!Selection, Selection, Q!filterTransactions, filterTransactions,
    Q!checkTransactionAddrs, checkTransactionAddrs, Q!filterReceipts, filterReceipts,
    Q!checkReceipts, checkReceipts, Q!filterMatch, filterMatch, Q!filterState, filterState,
    Q!filterStorage, filterStorage, Q!checkNodeKeys, checkNodeKeys, Q!HexToHash, HexToHash,
    Q!Slot, Slot
<1> QED
  BY <1>1, <1>2

LEMMA SameRetrieve == \A s, p : Q!History(s, p) = History(s, p)
  BY DEF Q!History, History, Q!Retrieve, Retrieve, Q!RetrieveError, RetrieveError,
     Q!Malformed, Malformed, Q!hasTopics, hasTopics, Q!FetchError, FetchError, Q!NoData,
     NoData, Q!Selection, Selection, Q!Slot, Slot, Q!RetrieveTxCIDs, RetrieveTxCIDs,
     Q!RetrieveRctCIDsByHeaderID, RetrieveRctCIDsByHeaderID, Q!RctCondition, RctCondition,
     Q!TopicsMatch, TopicsMatch, Q!RetrieveStateCIDs, RetrieveStateCIDs,
     Q!RetrieveStorageCIDs, RetrieveStorageCIDs, Q!indexStorageCID, indexStorageCID

LEMMA SameBtc ==
  /\ \A b : Q!BtcConvert(b) = BtcConvert(b)
  /\ \A f, b : Q!BtcFilter(f, b) = BtcFilter(f, b)
  /\ \A f, b : Q!BtcRetrieve(f, b) = BtcRetrieve(f, b)
<1>1. \A b : Q!BtcConvert(b) = BtcConvert(b)
  BY DEF Q!BtcConvert, BtcConvert, Q!BtcModel, BtcModel
<1>2. \A f, b : Q!BtcFilter(f, b) = BtcFilter(f, b)
  BY DEF Q!BtcFilter, BtcFilter, Q!checkTransaction, checkTransaction
<1>3. \A f, i, tx : Q!BtcRows(f, i, tx) = BtcRows(f, i, tx)
  <2>1. \A S : Q!Cardinality(S) = Cardinality(S)
    BY DEF Q!Cardinality, Cardinality
  <2> QED
    BY <2>1 DEF Q!BtcRows, BtcRows, Q!RowOutputs, RowOutputs
<1>4. \A f, b : Q!BtcRetrieve(f, b) = BtcRetrieve(f, b)
  BY <1>3 DEF Q!BtcRetrieve, BtcRetrieve
<1> QED
  BY <1>1, <1>2, <1>4

LEMMA SameLogs == \A q, index : Q!GetLogs(q, index) = GetLogs(q, index)
  BY DEF Q!GetLogs, GetLogs, Q!TopicSets, TopicSets, Q!RetrieveRctCIDs, RetrieveRctCIDs,
     Q!LogRange, LogRange, Q!extractLogsOfInterest, extractLogsOfInterest, Q!wantedLog,
     wantedLog, Q!Slot, Slot, Q!RetrieveRctCIDsByHeaderID, RetrieveRctCIDsByHeaderID,
     Q!Convert, Convert, Q!ReceiptMetaData, ReceiptMetaData, Q!hasTopics, hasTopics,
     Q!RctCondition, RctCondition, Q!TopicsMatch, TopicsMatch

\* Every answer is that of the operator asked.
AnswerInv ==
  /\ kind = "eth" => /\ request \in EthRequests
                     /\ live \in {<<>>, <<Filter(request[1], Convert(request[2]))>>}
                     /\ answer \in {<<>>, <<History(request[1], Convert(request[2]))>>}
  /\ kind = "btc" => /\ request \in BtcRequests
                     /\ live \in {<<>>, <<BtcFilter(request[1], BtcConvert(request[2]))>>}
                     /\ answer \in {<<>>, <<BtcRetrieve(request[1], BtcConvert(request[2]))>>}
  /\ kind = "logs" => /\ request \in LogRequests
                      /\ answer \in {<<>>, <<GetLogs(request[1], request[2])>>}

LEMMA AnswerInductive == Q!Spec => []AnswerInv
<1>1. Q!Init => AnswerInv
  BY DEF Q!Init, AnswerInv
<1>2. AnswerInv /\ [Q!Next]_Q!vars => AnswerInv'
  BY SameFilters, SameRetrieve, SameBtc, SameLogs
     DEF AnswerInv, Q!Next, Q!vars, Q!FilterEth, Q!HistoryEth, Q!FilterBtc, Q!HistoryBtc, Q!AnswerLogs,
         Q!SearchGaps, Q!StartSuperNode, Q!StartResync, Q!StartCompose, Q!StepCompose
<1> QED
  BY <1>1, <1>2, PTL DEF Q!Spec
-----------------------------------------------------------------------------
\* What the SQL selects in each section is what the filterer selects, or less.
LEMMA NarrowerTxs ==
  ASSUME NEW f, NEW p, ~f.off
  PROVE  /\ RetrieveTxCIDs(f, p) \subseteq filterTransactions(f, p)
         /\ f.src = {} \/ f.dst = {} => RetrieveTxCIDs(f, p) = filterTransactions(f, p)
BY DEF RetrieveTxCIDs, filterTransactions, checkTransactionAddrs

\* The two ways to look through the slots.
LEMMA SameTopics ==
  ASSUME NEW f, NEW rct, Len(f.topics) \in Nat, DOMAIN f.topics = 1..Len(f.topics)
  PROVE  TopicsMatch(f, rct) <=> filterMatch(f.topics, rct.topics)
BY DEF TopicsMatch, filterMatch, Slot

LEMMA NarrowerRcts ==
  ASSUME NEW f, NEW p, NEW T, NEW L, T \subseteq L, ~f.off,
         Len(f.topics) \in Nat, DOMAIN f.topics = 1..Len(f.topics)
  PROVE  /\ RetrieveRctCIDsByHeaderID(f, p, T) \subseteq filterReceipts(f, p, L)
         /\ T = L /\ ~(f.matchTxs /\ f.addrs = {} /\ ~hasTopics(f.topics)) =>
              RetrieveRctCIDsByHeaderID(f, p, T) = filterReceipts(f, p, L)
<1> DEFINE hashes == IF f.matchTxs THEN L ELSE {}
<1>1. ASSUME ~hasTopics(f.topics), NEW rct PROVE TopicsMatch(f, rct)
  BY <1>1 DEF hasTopics, TopicsMatch
<1>2. ASSUME NEW i, NEW rct, RctCondition(f, i, rct, T) PROVE checkReceipts(f, i, rct, hashes)
  BY <1>1, <1>2, SameTopics DEF RctCondition, checkReceipts
<1>3. ASSUME T = L, ~(f.matchTxs /\ f.addrs = {} /\ ~hasTopics(f.topics)),
             NEW i, NEW rct, checkReceipts(f, i, rct, hashes)
      PROVE  RctCondition(f, i, rct, T)
  <2>1. f.topics = <<>> => ~hasTopics(f.topics)
    BY DEF hasTopics
  <2> QED
    BY <1>1, <1>3, <2>1, SameTopics DEF RctCondition, checkReceipts
<1>4. filterReceipts(f, p, L) = {i \in DOMAIN p.rcts : checkReceipts(f, i, p.rcts[i], hashes)}
  BY DEF filterReceipts
<1> QED
  BY <1>2, <1>3, <1>4 DEF RetrieveRctCIDsByHeaderID

LEMMA NarrowerState ==
  ASSUME NEW f, NEW p, ~f.off
  PROVE  RetrieveStateCIDs(f, p) = filterState(f, p)
BY DEF RetrieveStateCIDs, filterState, checkNodeKeys

\* The text of the index is read as the hash it stands for, so the SQL selects no
\* key that the filterer does not; and the same keys when all are written so.
LEMMA NarrowerStorage ==
  ASSUME NEW f, NEW p, ~f.off, \A n \in p.state : ~n.leaf => n.storage = {}
  PROVE  /\ RetrieveStorageCIDs(f, p) \subseteq filterStorage(f, p)
         /\ f.intermediate /\ (\A k \in f.keys : k = indexStorageCID(HexToHash(k)))
              => RetrieveStorageCIDs(f, p) = filterStorage(f, p)
<1> DEFINE wanted == {HexToHash(k) : k \in f.keys}
<1>1. \A key : HexToHash(indexStorageCID(key)) = key
  BY DEF HexToHash, indexStorageCID
<1>2. \A key : f.keys = {} \/ indexStorageCID(key) \in f.keys => checkNodeKeys(wanted, key)
  BY <1>1 DEF checkNodeKeys
<1>3. ASSUME \A k \in f.keys : k = indexStorageCID(HexToHash(k))
      PROVE  \A key : checkNodeKeys(wanted, key) => f.keys = {} \/ indexStorageCID(key) \in f.keys
  BY <1>3 DEF checkNodeKeys
<1>4. filterStorage(f, p) =
        UNION {{<<n.key, s>> : s \in {t \in n.storage : checkNodeKeys(wanted, t.key)}} :
                 n \in {m \in p.state : checkNodeKeys(f.addrs, m.key)}}
  BY DEF filterStorage
<1> HIDE DEF wanted
<1>5. RetrieveStorageCIDs(f, p) \subseteq filterStorage(f, p)
  BY <1>2, <1>4 DEF RetrieveStorageCIDs, checkNodeKeys
<1>6. ASSUME f.intermediate, \A k \in f.keys : k = indexStorageCID(HexToHash(k))
      PROVE  filterStorage(f, p) \subseteq RetrieveStorageCIDs(f, p)
  <2>1. \A m \in p.state : checkNodeKeys(f.addrs, m.key) /\ m.storage # {}
          => m.leaf /\ (f.addrs = {} \/ m.key \in f.addrs)
    BY DEF checkNodeKeys
  <2>2. \A key : checkNodeKeys(wanted, key) => f.keys = {} \/ indexStorageCID(key) \in f.keys
    BY <1>3, <1>6
  <2> QED
    BY <1>4, <1>6, <2>1, <2>2 DEF RetrieveStorageCIDs
<1> QED
  BY <1>5, <1>6

\* Whatever a subscription asks for, the historical feed sends nothing of a block
\* that the stream would not have sent, and the same where the settings are not
\* among those the two sides read differently (cid_retriever.go, filterer.go).
THEOREM HistoryIsStreamAlways == Q!Spec => []HistoryIsStream
<1>1. AnswerInv => HistoryIsStream
  <2> SUFFICES ASSUME AnswerInv, Both("eth") PROVE HistoryIsStream
    BY DEF HistoryIsStream
  <2> DEFINE s == request[1]
             p == Convert(request[2])
             R == Retrieve(s, p)
             F == Filter(s, p)
             txs == IF s.tx.off THEN {} ELSE RetrieveTxCIDs(s.tx, p)
             all == filterTransactions(s.tx, p)
  <2>1. live = <<F>> /\ answer = <<History(s, p)>> /\ request \in EthRequests
    BY DEF AnswerInv, Both
  <2>2. /\ ~s.rct.off => Len(s.rct.topics) \in Nat /\ DOMAIN s.rct.topics = 1..Len(s.rct.topics)
        /\ \A n \in p.state : ~n.leaf => n.storage = {}
    BY <2>1, EthAssumption DEF Convert
  <2> HIDE DEF s, p
  <2>3. /\ txs \subseteq all
        /\ s.tx.off \/ s.tx.src = {} \/ s.tx.dst = {} => txs = all
    BY NarrowerTxs DEF filterTransactions
  <2> HIDE DEF txs, all
  <2>4. /\ R.rcts \subseteq F.rcts
        /\ /\ s.tx.off \/ s.tx.src = {} \/ s.tx.dst = {}
           /\ s.rct.off \/ ~(s.rct.matchTxs /\ s.rct.addrs = {} /\ ~hasTopics(s.rct.topics))
           => R.rcts = F.rcts
    <3>1. /\ R.rcts = IF s.rct.off THEN {} ELSE RetrieveRctCIDsByHeaderID(s.rct, p, txs)
          /\ F.rcts = filterReceipts(s.rct, p, all)
      BY DEF Retrieve, Filter, Selection, txs, all
    <3>2. CASE s.rct.off
      BY <3>1, <3>2 DEF filterReceipts
    <3>3. CASE ~s.rct.off
      BY <2>2, <2>3, <3>1, <3>3, NarrowerRcts
    <3> QED
      BY <3>2, <3>3
  <2>5. R.state = F.state
    BY NarrowerState DEF Retrieve, Filter, Selection, filterState
  <2>6. /\ R.storage \subseteq F.storage
        /\ s.storage.off \/ (/\ s.storage.intermediate
                             /\ \A k \in s.storage.keys : k = indexStorageCID(HexToHash(k)))
             => R.storage = F.storage
    BY <2>2, NarrowerStorage DEF Retrieve, Filter, Selection, filterStorage
  <2>7. R.txs = txs /\ F.txs = all /\ R.header = F.header /\ R.uncles = F.uncles
    BY DEF Retrieve, Filter, Selection, txs, all
  <2>8. /\ R = Selection(R.header, R.uncles, R.txs, R.rcts, R.state, R.storage)
        /\ F = Selection(F.header, F.uncles, F.txs, F.rcts, F.state, F.storage)
    BY DEF Retrieve, Filter, Selection
  <2>9. R.header = ~s.header.off
    BY DEF Retrieve, Selection
  <2> HIDE DEF R, F
  <2>10. History(s, p) \in {NoData, R}
    BY DEF History, R
  <2>11. ASSUME ~Diverges(s, p) PROVE History(s, p) = F
    <3>1. History(s, p) = R
      BY <2>9, <2>11 DEF History, RetrieveError, FetchError, Diverges, R
    <3>2. R = F
      BY <2>3, <2>4, <2>5, <2>6, <2>7, <2>8, <2>11 DEF Diverges
    <3> QED
      BY <3>1, <3>2
  <2>12. /\ History(s, p).header => F.header
         /\ History(s, p).uncles \subseteq F.uncles /\ History(s, p).txs \subseteq F.txs
         /\ History(s, p).rcts \subseteq F.rcts /\ History(s, p).state \subseteq F.state
         /\ History(s, p).storage \subseteq F.storage
    <3>1. CASE History(s, p) = NoData
      BY <3>1 DEF NoData, Selection
    <3>2. CASE History(s, p) = R
      BY <3>2, <2>3, <2>4, <2>5, <2>6, <2>7
    <3> QED
      BY <2>10, <3>1, <3>2
  <2> QED
    BY <2>1, <2>11, <2>12 DEF HistoryIsStream, s, p
<1> QED
  BY <1>1, AnswerInductive, PTL
-----------------------------------------------------------------------------
\* A transaction has a row in the join when one of its outputs meets all criteria.
LEMMA RowsOfOutputs ==
  ASSUME NEW f, NEW i, NEW tx, tx.ins \in Nat \ {0}, IsFiniteSet(tx.outs)
  PROVE  BtcRows(f, i, tx) > 0 <=> /\ f.segwit => tx.segwit
                                   /\ f.witness = {} \/ tx.witness \in f.witness
                                   /\ f.indexes = {} \/ i \in f.indexes
                                   /\ RowOutputs(f, tx) # {}
<1> DEFINE n == Cardinality(RowOutputs(f, tx))
<1>1. IsFiniteSet(RowOutputs(f, tx))
  BY FS_Subset DEF RowOutputs
<1>2. n \in Nat /\ (n = 0 <=> RowOutputs(f, tx) = {})
  BY <1>1, FS_CardinalityType, FS_EmptySet
<1> HIDE DEF n
<1>3. \A k \in Nat \ {0} : k * n > 0 <=> n # 0
  BY <1>2
<1>4. tx.ins * n > 0 <=> RowOutputs(f, tx) # {}
  BY <1>2, <1>3
<1> QED
  BY <1>4 DEF BtcRows, n

\* The join of the Bitcoin retriever selects only transactions the filterer selects,
\* and all of them when at most one criterion is about outputs
\* (btc/cid_retriever.go, btc/filterer.go).
THEOREM BtcHistoryIsStreamAlways == Q!Spec => []BtcHistoryIsStream
<1>1. AnswerInv => BtcHistoryIsStream
  <2> SUFFICES ASSUME AnswerInv, Both("btc") PROVE BtcHistoryIsStream
    BY DEF BtcHistoryIsStream
  <2> DEFINE f == request[1]
             b == BtcConvert(request[2])
  <2>1. live = <<BtcFilter(f, b)>> /\ answer = <<BtcRetrieve(f, b)>> /\ request \in BtcRequests
    BY DEF AnswerInv, Both
  <2>2. ASSUME NEW i \in DOMAIN b
        PROVE  b[i].ins \in Nat \ {0} /\ IsFiniteSet(b[i].outs) /\ b[i].outs # {}
    <3> DEFINE tx == request[2][i]
               out(s) == [class |-> s.class, addrs |-> s.addrs, sigs |-> s.sigs]
    <3>1. i \in DOMAIN request[2] /\ b[i] = BtcModel(tx)
      BY DEF BtcConvert
    <3>2. Len(tx.ins) \in Nat \ {0} /\ IsFiniteSet(tx.scripts) /\ tx.scripts # {}
      BY <2>1, <3>1, BtcAssumption
    <3>3. BtcModel(tx).ins = Len(tx.ins) /\ BtcModel(tx).outs = {out(s) : s \in tx.scripts}
      BY DEF BtcModel
    <3>4. IsFiniteSet({out(s) : s \in tx.scripts})
      <4> DEFINE g == [s \in tx.scripts |-> out(s)]
                 T == {out(s) : s \in tx.scripts}
      <4> HIDE DEF out
      <4>1. g \in [tx.scripts -> T] /\ \A t \in T : \E s \in tx.scripts : g[s] = t
        OBVIOUS
      <4>2. g \in Surjection(tx.scripts, T)
        BY <4>1 DEF Surjection
      <4> HIDE DEF g, T
      <4>3. IsFiniteSet(T)
        BY <3>2, <4>2, FS_Surjection
      <4> QED
        BY <4>3 DEF T
    <3> QED
      BY <3>1, <3>2, <3>3, <3>4
  <2> HIDE DEF f, b
  <2>3. ASSUME NEW i \in DOMAIN b
        PROVE  BtcRows(f, i, b[i]) > 0 => checkTransaction(f, i, b[i])
    BY <2>2, RowsOfOutputs DEF checkTransaction, RowOutputs
  <2>4. ASSUME NEW i \in DOMAIN b, checkTransaction(f, i, b[i]),
               \/ f.addrs = {} /\ f.classes = {}
               \/ f.addrs = {} /\ ~f.multisig
               \/ f.classes = {} /\ ~f.multisig
        PROVE  BtcRows(f, i, b[i]) > 0
    BY <2>2, <2>4, RowsOfOutputs DEF checkTransaction, RowOutputs
  <2>5. DOMAIN BtcRetrieve(f, b) = DOMAIN b
    BY DEF BtcRetrieve
  <2>6. \A i \in DOMAIN b : BtcRetrieve(f, b)[i] > 0 <=> ~f.off /\ ~f.headerOff /\ BtcRows(f, i, b[i]) > 0
    BY DEF BtcRetrieve
  <2>7. \A i \in DOMAIN b : i \in BtcFilter(f, b) <=> ~f.off /\ checkTransaction(f, i, b[i])
    BY DEF BtcFilter
  <2>8. BtcFilter(f, b) \subseteq DOMAIN b
    BY DEF BtcFilter
  <2> QED
    BY <2>1, <2>3, <2>4, <2>5, <2>6, <2>7, <2>8 DEF BtcHistoryIsStream, f
<1> QED
  BY <1>1, AnswerInductive, PTL
-----------------------------------------------------------------------------
\* A bound that is not given is that of the index: no block of it is left out.
LEMMA LogRangeCovers ==
  ASSUME NEW q, NEW index, q.from \in Int, q.to \in Int, \A b \in index : b.number \in Nat,
         \E b \in index : \A c \in index : c.number <= b.number,
         NEW b \in index, q.from = -1 \/ q.from <= b.number, q.to = -1 \/ b.number <= q.to
  PROVE  LET numbers == {c.number : c \in index}
             first   == CHOOSE n \in numbers : \A m \in numbers : n <= m
             last    == CHOOSE n \in numbers : \A m \in numbers : m <= n
         IN  b.number \in LogRange(q, first, last)
<1> DEFINE numbers == {c.number : c \in index}
           first   == CHOOSE n \in numbers : \A m \in numbers : n <= m
           last    == CHOOSE n \in numbers : \A m \in numbers : m <= n
<1>1. numbers \in SUBSET Nat /\ b.number \in numbers
  OBVIOUS
<1>2. \E n \in numbers : \A m \in numbers : n <= m
  BY <1>1, LeastExists
<1>3. \E n \in numbers : \A m \in numbers : m <= n
  OBVIOUS
<1> HIDE DEF numbers
<1>4. first \in numbers /\ first <= b.number
  BY <1>1, <1>2
<1>5. last \in numbers /\ b.number <= last
  BY <1>1, <1>3
<1> HIDE DEF first, last
<1>6. b.number \in LogRange(q, first, last)
  BY <1>1, <1>4, <1>5 DEF LogRange
<1> QED
  BY <1>6 DEF first, last, numbers

\* A receipt with a wanted log is selected, and the log taken from it.
LEMMA WantedSelected ==
  ASSUME NEW q, NEW b, NEW i \in DOMAIN b.txs, NEW l \in b.txs[i].logs,
         Len(l.topics) \in 0..4, DOMAIN l.topics = 1..Len(l.topics),
         q.addrs = {} \/ l.addr \in q.addrs,
         \A j \in Slot : (j <= Len(q.topics) /\ q.topics[j] # {}) =>
           j <= Len(l.topics) /\ l.topics[j] \in q.topics[j]
  PROVE  LET f == [addrs |-> q.addrs, topics |-> TopicSets(q), matchTxs |-> FALSE]
         IN  /\ i \in RetrieveRctCIDsByHeaderID(f, Convert(b), {})
             /\ wantedLog(f.topics, l)
<1> DEFINE T == TopicSets(q)
           f == [addrs |-> q.addrs, topics |-> T, matchTxs |-> FALSE]
           rct == ReceiptMetaData(b.txs[i])
<1>1. /\ DOMAIN T = Slot
      /\ \A j \in Slot : T[j] # {} => j <= Len(l.topics) /\ l.topics[j] \in T[j]
  BY DEF TopicSets
<1>2. wantedLog(T, l)
  BY <1>1 DEF wantedLog, Slot
<1>3. l.addr \in rct.contracts
  BY DEF ReceiptMetaData
<1>4. \A j \in Slot : j <= Len(l.topics) => l.topics[j] \in rct.topics[j]
  BY DEF ReceiptMetaData
<1>5. Convert(b).rcts[i] = rct /\ i \in DOMAIN Convert(b).rcts
  BY DEF Convert
<1> HIDE DEF T, rct
<1>6. TopicsMatch(f, rct)
  BY <1>1, <1>4 DEF TopicsMatch
<1>7. RctCondition(f, i, rct, {})
  BY <1>3, <1>6 DEF RctCondition
<1>8. i \in RetrieveRctCIDsByHeaderID(f, Convert(b), {})
  BY <1>5, <1>7 DEF RetrieveRctCIDsByHeaderID
<1> QED
  BY <1>2, <1>8 DEF T

\* eth_getLogs answers with every wanted log of the blocks asked for and with no
\* log from outside the range, unless it holds the genesis block
\* (cid_retriever.go:300), for every query and every index.
THEOREM LogsExactAlways == Q!Spec => []LogsExact
<1>1. AnswerInv => LogsExact
  <2> SUFFICES ASSUME AnswerInv, kind = "logs", answer # <<>> PROVE LogsExact
    BY DEF LogsExact
  <2> DEFINE q == request[1]
             index == request[2]
             f == [addrs |-> q.addrs, topics |-> TopicSets(q), matchTxs |-> FALSE]
             numbers == {b.number : b \in index}
             first == CHOOSE n \in numbers : \A m \in numbers : n <= m
             last == CHOOSE n \in numbers : \A m \in numbers : m <= n
             range == LogRange(q, first, last)
             sel(b) == RetrieveRctCIDsByHeaderID(f, Convert(b), {})
             at(n, hash) == {b \in index : (n > 0 => b.number = n) /\ (hash # "none" => b.hash = hash)}
             rcts == IF q.hash # "none" THEN RetrieveRctCIDs(f, 0, q.hash, index)
                     ELSE UNION {RetrieveRctCIDs(f, n, "none", index) : n \in range}
             inRange(b) ==
               IF q.hash # "none" THEN b.hash = q.hash
               ELSE (q.from = -1 \/ q.from <= b.number) /\ (q.to = -1 \/ b.number <= q.to)
             wanted(l) ==
               /\ q.addrs = {} \/ l.addr \in q.addrs
               /\ \A i \in Slot : (i <= Len(q.topics) /\ q.topics[i] # {}) =>
                    i <= Len(l.topics) /\ l.topics[i] \in q.topics[i]
  <2>1. answer = <<extractLogsOfInterest(rcts, f.topics)>> /\ request \in LogRequests
    BY DEF AnswerInv, GetLogs
  <2>2. /\ q.from \in Int /\ q.to \in Int /\ \A b, c \in index : b.hash = c.hash => b = c
        /\ index # {} => \E b \in index : \A c \in index : c.number <= b.number
        /\ \A b \in index : b.number \in Nat
        /\ \A b \in index : \A i \in DOMAIN b.txs : \A l \in b.txs[i].logs :
             Len(l.topics) \in 0..4 /\ DOMAIN l.topics = 1..Len(l.topics)
    BY <2>1, LogAssumption
  <2>3. ASSUME NEW n, NEW hash
        PROVE  /\ \A b \in at(n, hash) : ({b} \X sel(b)) \subseteq RetrieveRctCIDs(f, n, hash, index)
               /\ \A r \in RetrieveRctCIDs(f, n, hash, index) : r[1] \in at(n, hash)
    <3>1. RetrieveRctCIDs(f, n, hash, index) = UNION {{b} \X sel(b) : b \in at(n, hash)}
      BY DEF RetrieveRctCIDs
    <3> HIDE DEF sel, at
    <3>2. ASSUME NEW b \in at(n, hash)
          PROVE  ({b} \X sel(b)) \subseteq UNION {{c} \X sel(c) : c \in at(n, hash)}
      OBVIOUS
    <3>3. ASSUME NEW r \in UNION {{c} \X sel(c) : c \in at(n, hash)}
          PROVE  r[1] \in at(n, hash)
      OBVIOUS
    <3> QED
      BY <3>1, <3>2, <3>3
  <2>4. ASSUME NEW b \in index, inRange(b) PROVE ({b} \X sel(b)) \subseteq rcts
    <3>1. CASE q.hash # "none"
      <4>1. b \in at(0, q.hash)
        BY <2>4, <3>1
      <4> QED
        BY <2>3, <3>1, <4>1
    <3>2. CASE q.hash = "none"
      <4>1. b.number \in range
        BY <2>2, <2>4, <3>2, LogRangeCovers
      <4>2. b \in at(b.number, "none")
        OBVIOUS
      <4>3. ({b} \X sel(b)) \subseteq RetrieveRctCIDs(f, b.number, "none", index)
        BY <2>3, <4>2
      <4> QED
        BY <3>2, <4>1, <4>3
    <3> QED
      BY <3>1, <3>2
  <2>5. ASSUME NEW r \in rcts
        PROVE  r[1] \in index /\ (inRange(r[1]) \/ (q.hash = "none" /\ q.from <= 0))
    <3>1. CASE q.hash # "none"
      <4>1. r[1] \in at(0, q.hash)
        BY <2>3, <3>1
      <4> QED
        BY <3>1, <4>1
    <3>2. CASE q.hash = "none"
      <4>1. PICK n \in range : r \in RetrieveRctCIDs(f, n, "none", index)
        BY <3>2
      <4>2. r[1] \in at(n, "none")
        BY <2>3, <4>1
      <4>3. q.from = -1 \/ q.from <= n
        BY DEF LogRange
      <4> QED
        BY <2>2, <3>2, <4>2, <4>3 DEF LogRange
    <3> QED
      BY <3>1, <3>2
  <2>6. ASSUME NEW b \in index, NEW i \in DOMAIN b.txs, NEW l \in b.txs[i].logs,
               inRange(b), wanted(l)
        PROVE  <<b.hash, i, l>> \in answer[1]
    <3>1. i \in sel(b) /\ wantedLog(f.topics, l)
      BY <2>2, <2>6, WantedSelected
    <3>2. <<b, i>> \in rcts
      BY <2>4, <2>6, <3>1
    <3> HIDE DEF rcts
    <3> QED
      BY <2>1, <3>1, <3>2 DEF extractLogsOfInterest
  <2>7. ASSUME NEW b \in index, NEW i, NEW l, <<b.hash, i, l>> \in answer[1]
        PROVE  inRange(b) \/ (q.hash = "none" /\ q.from <= 0)
    <3> HIDE DEF rcts
    <3>1. PICK r \in rcts : r[1].hash = b.hash
      BY <2>1, <2>7 DEF extractLogsOfInterest
    <3>2. r[1] = b
      BY <2>2, <2>5, <3>1
    <3> QED
      BY <2>5, <3>2
  <2> QED
    BY <2>6, <2>7 DEF LogsExact
<1> QED
  BY <1>1, AnswerInductive, PTL
=============================================================================
