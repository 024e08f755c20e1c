--------------------------- MODULE Subscriptions ---------------------------
(***************************************************************************)
(* The serving half of the super node: PublicSuperNodeAPI.Stream with its  *)
(* relay goroutine (pkg/super_node/api.go), Service.Serve, filterAndServe, *)
(* Subscribe, sendHistoricalData, Unsubscribe and Stop                     *)
(* (pkg/super_node/service.go, helpers.go).                                *)
(*                                                                         *)
(* Per client four goroutines can be alive: Stream's relay, the Subscribe  *)
(* call that it starts with `go`, the historical feed that Subscribe       *)
(* starts, and the Serve loop they share.  The service's lock makes        *)
(* filterAndServe, Unsubscribe, the registration in Subscribe and Stop one *)
(* action each.  All sends to a client are non-blocking.                   *)
(*                                                                         *)
(* A subscription type is the hash of the settings, so here the settings   *)
(* themselves, and Subscriptions[ty] = {} says that ty has no entry.       *)
(***************************************************************************)
EXTENDS Integers, Sequences, FiniteSetsExt

CONSTANTS
  Ids,                   \* the rpc ids of the clients' subscriptions
  Settings,              \* the SubscriptionSettings clients ask for
  PayloadChanBufferSize, \* capacity of a client's payload channel
  MaxHeight,             \* bound: the highest block number
  MaxForks,              \* bound: headers stored at one height
  MaxPayloads,           \* bound: payloads the Serve loop receives
  BackFilling            \* is there a backfill service that can send a nil?

Height == 0..MaxHeight

ASSUME SubscriptionsAssumption ==
  /\ Settings \subseteq [chain : BOOLEAN, historical : BOOLEAN, only : BOOLEAN,
                         start : Nat, end : Int]
  /\ PayloadChanBufferSize \in Nat
  /\ MaxHeight \in Nat
  /\ MaxForks \in Nat
  /\ MaxPayloads \in Nat
  /\ BackFilling \in BOOLEAN

VARIABLES
  Subscriptions,     \* the ids registered under each type
  SubscriptionTypes, \* the types whose settings the service knows
  params,            \* the settings each client asked for
  sub,               \* where each Subscribe call is
  relay,             \* where each relay goroutine is
  feed,              \* each historical feed: where it is; first, next, last
                     \* block, headers of the next block left to send
  payloadChan,       \* the client's payload channel
  quitChan,          \* the client's quit channel, of capacity 1
  serve,             \* where the Serve loop is
  served,            \* how many payloads the Serve loop received
  stored,            \* the heights with a header in the database
  quit               \* has Stop closed the service's QuitChan?

vars == <<Subscriptions, SubscriptionTypes, params, sub, relay, feed,
          payloadChan, quitChan, serve, served, stored, quit>>

mapVars == <<Subscriptions, SubscriptionTypes>>
envVars == <<serve, served, stored, quit>>

Msg(src, h) == [src |-> src, height |-> h]
Message == [src : {"live", "historical", "error", "complete"}, height : Int]

SubPC   == {"none", "start", "historical", "returned"}
RelayPC == {"none", "running", "unsubscribed", "quit", "dead"}
NoFeed  == [pc |-> "none", first |-> 0, next |-> 0, last |-> 0, left |-> 0]

Init ==
  /\ Subscriptions = [ty \in Settings |-> {}]
  /\ SubscriptionTypes = {}
  /\ params \in [Ids -> Settings]
  /\ sub = [id \in Ids |-> "none"]
  /\ relay = [id \in Ids |-> "none"]
  /\ feed = [id \in Ids |-> NoFeed]
  /\ payloadChan = [id \in Ids |-> <<>>]
  /\ quitChan = [id \in Ids |-> FALSE]
  /\ serve = "running"
  /\ served = 0
  /\ stored = {}
  /\ quit = FALSE

Registered(id) == \E ty \in Settings : id \in Subscriptions[ty]
-----------------------------------------------------------------------------
(* Sends to a client *)

\* A non-blocking send: a full channel drops the message.
Sent(chan, m) == IF Len(chan) < PayloadChanBufferSize THEN Append(chan, m)
                                                      ELSE chan

\* sendNonBlockingErr
SendErr(id) ==
  payloadChan' = [payloadChan EXCEPT ![id] = Sent(@, Msg("error", 0))]

\* sendNonBlockingQuit, to every subscription of a set
SendQuit(ids) == quitChan' = [id \in Ids |-> quitChan[id] \/ id \in ids]
-----------------------------------------------------------------------------
(* Subscribing *)

\* Stream: the channels are made, the relay and the Subscribe call start.
Stream(id) ==
  /\ serve # "crashed"
  /\ relay[id] = "none"
  /\ relay' = [relay EXCEPT ![id] = "running"]
  /\ sub' = [sub EXCEPT ![id] = "start"]
  /\ UNCHANGED <<mapVars, params, feed, payloadChan, quitChan, envVars>>

\* Subscribe for another chain, or with settings that do not encode.
SubscribeRefused(id) ==
  /\ sub[id] = "start"
  /\ ~params[id].chain
  /\ SendErr(id)
  /\ SendQuit({id})
  /\ sub' = [sub EXCEPT ![id] = "returned"]
  /\ UNCHANGED <<mapVars, params, relay, feed, envVars>>

\* Subscribe adds the subscriber, unless it wants historical data only.
Subscribe(id) ==
  /\ sub[id] = "start"
  /\ params[id].chain
  /\ Subscriptions' = IF params[id].only THEN Subscriptions
                      ELSE [Subscriptions EXCEPT ![params[id]] = @ \cup {id}]
  /\ SubscriptionTypes' = IF params[id].only THEN SubscriptionTypes
                          ELSE SubscriptionTypes \cup {params[id]}
  /\ sub' = [sub EXCEPT ![id] =
               IF params[id].historical \/ params[id].only THEN "historical"
                                                           ELSE "returned"]
  /\ UNCHANGED <<params, relay, feed, payloadChan, quitChan, envVars>>

\* The first and the last block of a historical feed.
FeedFirst(p) == LET first == Min(stored)
                IN  IF first < p.start THEN p.start ELSE first

\* Mutant: the end of the range is not clamped.
FeedLastUnclamped(p) == Max(stored)

FeedLast(p) == LET last == Max(stored)
               IN  IF last > p.end /\ p.end > 0 /\ p.end > FeedFirst(p)
                   THEN p.end ELSE last

\* sendHistoricalData finds the range and starts the feed.
StartFeed(id) ==
  /\ sub[id] = "historical"
  /\ stored # {}
  /\ feed' = [feed EXCEPT ![id] = [pc    |-> "running",
                                   first |-> FeedFirst(params[id]),
                                   next  |-> FeedFirst(params[id]),
                                   last  |-> FeedLast(params[id]),
                                   left  |-> 0]]
  /\ sub' = [sub EXCEPT ![id] = "returned"]
  /\ UNCHANGED <<mapVars, params, relay, payloadChan, quitChan, envVars>>

\* A query fails, as it does on an empty table: Subscribe tells the client and
\* returns.
StartFeedError(id) ==
  /\ sub[id] = "historical"
  /\ SendErr(id)
  /\ SendQuit({id})
  /\ sub' = [sub EXCEPT ![id] = "returned"]
  /\ UNCHANGED <<mapVars, params, relay, feed, envVars>>
-----------------------------------------------------------------------------
(* The historical feed *)

\* case <-sap.QuitChan: the feed ends without a completion notice.
FeedQuit(id) ==
  /\ feed[id].pc = "running"
  /\ feed[id].next <= feed[id].last
  /\ feed[id].left = 0
  /\ quit
  /\ feed' = [feed EXCEPT ![id].pc = "done"]
  /\ UNCHANGED <<mapVars, params, sub, relay, payloadChan, quitChan, envVars>>

\* Mutant: an error at one block does not move on to the next one.
FeedStuck(id) ==
  /\ feed[id].pc = "running"
  /\ feed[id].next <= feed[id].last
  /\ feed[id].left = 0
  /\ ~quit
  /\ \/ /\ SendErr(id)
        /\ UNCHANGED feed
     \/ /\ feed' = [feed EXCEPT ![id].next = @ + 1]
        /\ UNCHANGED payloadChan
     \/ /\ feed[id].next \in stored
        /\ \E n \in 1..MaxForks : feed' = [feed EXCEPT ![id].left = n]
        /\ UNCHANGED payloadChan
  /\ UNCHANGED <<mapVars, params, sub, relay, quitChan, envVars>>

\* Retrieve for the next block: an error, nothing that matches, or the CIDs of
\* one or more headers at that height.
FeedRetrieve(id) ==
  /\ feed[id].pc = "running"
  /\ feed[id].next <= feed[id].last
  /\ feed[id].left = 0
  /\ ~quit
  /\ \/ /\ SendErr(id)
        /\ feed' = [feed EXCEPT ![id].next = @ + 1]
     \/ /\ feed' = [feed EXCEPT ![id].next = @ + 1]
        /\ UNCHANGED payloadChan
     \/ /\ feed[id].next \in stored
        /\ \E n \in 1..MaxForks : feed' = [feed EXCEPT ![id].left = n]
        /\ UNCHANGED payloadChan
  /\ UNCHANGED <<mapVars, params, sub, relay, quitChan, envVars>>

\* Fetch for one header: an error, a response that does not encode, or the data;
\* in each case on to the next header, or to the next block.
FeedBlock(id) ==
  /\ feed[id].pc = "running"
  /\ feed[id].left > 0
  /\ feed' = [feed EXCEPT ![id].left = @ - 1,
                          ![id].next = IF feed[id].left = 1 THEN @ + 1 ELSE @]
  /\ \/ SendErr(id)
     \/ UNCHANGED payloadChan
     \/ payloadChan' = [payloadChan EXCEPT ![id] =
                          Sent(@, Msg("historical", feed[id].next))]
  /\ UNCHANGED <<mapVars, params, sub, relay, quitChan, envVars>>

\* The completion notice.
FeedComplete(id) ==
  /\ feed[id].pc = "running"
  /\ feed[id].next > feed[id].last
  /\ payloadChan' = [payloadChan EXCEPT ![id] = Sent(@, Msg("complete", 0))]
  /\ feed' = [feed EXCEPT ![id].pc = "done"]
  /\ UNCHANGED <<mapVars, params, sub, relay, quitChan, envVars>>
-----------------------------------------------------------------------------
(* The Serve loop *)

\* Mutant: the last client of a type leaves and the type's settings stay.
UnsubscribeKeepsType(id) ==
  /\ Subscriptions' = [ty \in Settings |-> Subscriptions[ty] \ {id}]
  /\ UNCHANGED SubscriptionTypes

\* Unsubscribe; the last client of a type takes the type with it.
Unsubscribe(id) ==
  /\ Subscriptions' = [ty \in Settings |-> Subscriptions[ty] \ {id}]
  /\ SubscriptionTypes' = {ty \in SubscriptionTypes : Subscriptions[ty] \ {id} # {}}

\* Mutant: an error while filtering drops the type without telling its clients.
CloseTypesSilently(types) ==
  /\ Subscriptions' = [ty \in Settings |-> IF ty \in types THEN {}
                                           ELSE Subscriptions[ty]]
  /\ SubscriptionTypes' = SubscriptionTypes \ types
  /\ UNCHANGED quitChan

\* closeType for each type of a set: a quit signal to its clients, then out.
CloseTypes(types) ==
  /\ SendQuit(UNION {Subscriptions[ty] : ty \in types})
  /\ Subscriptions' = [ty \in Settings |-> IF ty \in types THEN {}
                                           ELSE Subscriptions[ty]]
  /\ SubscriptionTypes' = SubscriptionTypes \ types

Live == {ty \in Settings : Subscriptions[ty] # {}}

\* The payload is past the end of the type's range.
PastEnd(ty, h) == ty.end > 0 /\ ty.end < h

\* Mutant: checkRange does not look at the start of the range.
checkRangeNoStart(ty, h) == ty.end <= 0 \/ ty.end >= h

checkRange(ty, h) == (ty.end <= 0 \/ ty.end >= h) /\ ty.start <= h

\* A payload of height h: a type without settings, past its end or with a
\* failing filter is closed, one whose response does not encode is skipped, the
\* clients of the others are sent the response.
ServeBlock(h) ==
  /\ serve = "running"
  /\ served < MaxPayloads
  /\ served' = served + 1
  /\ \E failing, unencoded \in SUBSET {ty \in Live : checkRange(ty, h)} :
       LET closed == (Live \ SubscriptionTypes) \cup failing
                     \cup {ty \in Live : PastEnd(ty, h)}
           open   == Live \ (closed \cup unencoded)
           ids    == UNION {Subscriptions[ty] : ty \in open}
       IN  /\ \A ty \in open : checkRange(ty, h)
           /\ CloseTypes(closed)
           /\ payloadChan' = [id \in Ids |->
                                IF id \in ids
                                THEN Sent(payloadChan[id], Msg("live", h))
                                ELSE payloadChan[id]]
  /\ UNCHANGED <<params, sub, relay, feed, serve, stored, quit>>

\* The nil payload that the backfill service forwards after a failed conversion
\* fails in every filter.
ServeNil ==
  /\ BackFilling
  /\ serve = "running"
  /\ served < MaxPayloads
  /\ served' = served + 1
  /\ \A ty \in Live \cap SubscriptionTypes : ty.end <= 0
  /\ CloseTypes(Live)
  /\ UNCHANGED <<params, sub, relay, feed, payloadChan, serve, stored, quit>>

\* A nil dereference in the Serve goroutine ends the process: the height of an
\* out-of-range type's empty response, or of a nil payload.
ServeCrash ==
  /\ serve = "running"
  /\ served < MaxPayloads
  /\ \/ \E h \in Height, ty \in Live \cap SubscriptionTypes :
          ~PastEnd(ty, h) /\ ~checkRange(ty, h)
     \/ BackFilling /\ \E ty \in Live \cap SubscriptionTypes : ty.end > 0
  /\ serve' = "crashed"
  /\ relay' = [id \in Ids |-> "dead"]
  /\ sub' = [id \in Ids |-> "returned"]
  /\ feed' = [id \in Ids |->
                [feed[id] EXCEPT !.pc = IF @ = "running" THEN "done" ELSE @]]
  /\ UNCHANGED <<mapVars, params, payloadChan, quitChan, served, stored, quit>>

ServeQuit ==
  /\ serve = "running"
  /\ quit
  /\ serve' = "returned"
  /\ UNCHANGED <<mapVars, params, sub, relay, feed, payloadChan, quitChan,
                 served, stored, quit>>
-----------------------------------------------------------------------------
(* The relay goroutine of Stream *)

\* A packet goes to the client.
RelayPacket(id) ==
  /\ relay[id] = "running"
  /\ payloadChan[id] # <<>>
  /\ payloadChan' = [payloadChan EXCEPT ![id] = Tail(@)]
  /\ UNCHANGED <<mapVars, params, sub, relay, feed, quitChan, envVars>>

\* The notification fails: unsubscribe and return.
RelayFails(id) ==
  /\ relay[id] = "running"
  /\ payloadChan[id] # <<>>
  /\ payloadChan' = [payloadChan EXCEPT ![id] = Tail(@)]
  /\ Unsubscribe(id)
  /\ relay' = [relay EXCEPT ![id] = "unsubscribed"]
  /\ UNCHANGED <<params, sub, feed, quitChan, envVars>>

\* case <-rpcSub.Err(): the client unsubscribed or went away.
RelayGone(id) ==
  /\ relay[id] = "running"
  /\ Unsubscribe(id)
  /\ relay' = [relay EXCEPT ![id] = "unsubscribed"]
  /\ UNCHANGED <<params, sub, feed, payloadChan, quitChan, envVars>>

\* Mutant: break in place of return, which leaves the select and not the loop.
RelayQuitBreaks(id) ==
  /\ relay[id] = "running"
  /\ quitChan[id]
  /\ quitChan' = [quitChan EXCEPT ![id] = FALSE]
  /\ UNCHANGED <<mapVars, params, sub, relay, feed, payloadChan, envVars>>

\* case <-quitChan: return.
RelayQuit(id) ==
  /\ relay[id] = "running"
  /\ quitChan[id]
  /\ quitChan' = [quitChan EXCEPT ![id] = FALSE]
  /\ relay' = [relay EXCEPT ![id] = "quit"]
  /\ UNCHANGED <<mapVars, params, sub, feed, payloadChan, envVars>>
-----------------------------------------------------------------------------
(* The rest of the service *)

\* Sync or the backfill service indexes a block.
IndexBlock(h) ==
  /\ h \notin stored
  /\ stored' = stored \cup {h}
  /\ UNCHANGED <<mapVars, params, sub, relay, feed, payloadChan, quitChan,
                 serve, served, quit>>

\* Stop closes QuitChan and every registered subscription, under the lock.
Stop ==
  /\ ~quit
  /\ serve # "crashed"
  /\ quit' = TRUE
  /\ CloseTypes(Live)
  /\ UNCHANGED <<params, sub, relay, feed, payloadChan, serve, served, stored>>

Client(id) ==
  \/ Stream(id) \/ SubscribeRefused(id) \/ Subscribe(id) \/ StartFeed(id)
  \/ StartFeedError(id) \/ FeedQuit(id) \/ FeedRetrieve(id) \/ FeedBlock(id)
  \/ FeedComplete(id)
  \/ RelayPacket(id) \/ RelayFails(id) \/ RelayGone(id) \/ RelayQuit(id)

Next ==
  \/ \E id \in Ids : Client(id)
  \/ \E h \in Height : ServeBlock(h) \/ IndexBlock(h)
  \/ ServeNil \/ ServeCrash \/ ServeQuit \/ Stop

Spec == Init /\ [][Next]_vars

(***************************************************************************)
(* Go runs every goroutine that can take a step; a relay whose select has  *)
(* packets ready again and again still sees its quit channel in the end.   *)
(* Nothing is assumed of clients, payloads or Stop.                        *)
(***************************************************************************)
Fairness ==
  \A id \in Ids :
    /\ WF_vars(FeedQuit(id) \/ FeedRetrieve(id) \/ FeedBlock(id)
               \/ FeedComplete(id))
    /\ SF_vars(RelayQuit(id))

FairSpec == Spec /\ Fairness
-----------------------------------------------------------------------------
(* Properties *)

\* Subscriptions and SubscriptionTypes have entries for the same types, so that
\* filterAndServe never closes a type for want of its settings
\* (service.go:299-303), and a client is registered under its own settings only.
TypesAgree ==
  /\ SubscriptionTypes = Live
  /\ \A ty \in Settings : \A id \in Subscriptions[ty] :
       params[id] = ty /\ ~ty.only /\ ty.chain

\* A client that subscribed to the stream and that the service serves no longer
\* has been told: its quit signal is pending, or its relay has ended.
ToldBeforeDropped ==
  \A id \in Ids :
    (sub[id] \in {"historical", "returned"} /\ ~params[id].only
     /\ ~Registered(id) /\ relay[id] = "running") => quitChan[id]

\* What the Serve loop sends a client lies in the range the client asked for.
LiveInRange ==
  \A id \in Ids : \A i \in DOMAIN payloadChan[id] :
    LET m == payloadChan[id][i]
        p == params[id]
    IN  m.src = "live" => p.start <= m.height /\ (p.end <= 0 \/ m.height <= p.end)

\* "only send historical data with the specified range" (apis.md:109): so does
\* what the historical feed sends, except for a range that ends at the feed's
\* first block or before it, which the code does not clamp (service.go:396).
HistoricalClamped ==
  \A id \in Ids : \A i \in DOMAIN payloadChan[id] :
    LET m == payloadChan[id][i]
        p == params[id]
    IN  m.src = "historical" =>
          /\ p.start <= m.height
          /\ p.end <= 0 \/ m.height <= p.end \/ p.end <= feed[id].first

\* A client that is sent the quit signal is let go.
QuitEndsRelay ==
  \A id \in Ids : (quitChan[id] /\ relay[id] = "running") ~> relay[id] # "running"

\* Every historical feed comes to its end.
FeedsEnd == \A id \in Ids : feed[id].pc = "running" ~> feed[id].pc # "running"
=============================================================================
