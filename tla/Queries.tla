------------------------------ MODULE Queries -------------------------------
(***************************************************************************)
(* A request and the answers the program gives it: a subscription is       *)
(* answered from the live payload of a block and, with historicalData,     *)
(* from the index of the same block; eth_getLogs from the index of several *)
(* blocks.  The backfill asks for the gaps of the index, and the operator, *)
(* with a configuration, for a node, a resync or a plugin.                 *)
(***************************************************************************)
EXTENDS Answers, GapAnswers, StartUp, Compose

CONSTANT GapRequests \* pairs <<validation level, header_cids table>>

vars == <<kind, request, live, answer>>

Init ==
  /\ \/ kind = "eth" /\ request \in EthRequests
     \/ kind = "btc" /\ request \in BtcRequests
     \/ kind = "logs" /\ request \in LogRequests
     \/ kind = "gaps" /\ request \in GapRequests
     \/ kind = "start" /\ request \in Commands
     \/ kind = "compose" /\ request \in Plugins
  /\ live = <<>>
  /\ answer = <<>>

\* Serve: filterAndServe passes the converted payload to the filterer.
FilterEth ==
  /\ kind = "eth"
  /\ live' = <<Filter(request[1], Convert(request[2]))>>
  /\ UNCHANGED <<kind, request, answer>>

\* The historical feed: Retrieve, then Fetch.
HistoryEth ==
  /\ kind = "eth"
  /\ answer' = <<History(request[1], Convert(request[2]))>>
  /\ UNCHANGED <<kind, request, live>>

FilterBtc ==
  /\ kind = "btc"
  /\ ~BtcConvertError(request[2])
  /\ live' = <<BtcFilter(request[1], BtcConvert(request[2]))>>
  /\ UNCHANGED <<kind, request, answer>>

HistoryBtc ==
  /\ kind = "btc"
  /\ ~BtcConvertError(request[2])
  /\ answer' = <<BtcRetrieve(request[1], BtcConvert(request[2]))>>
  /\ UNCHANGED <<kind, request, live>>

AnswerLogs ==
  /\ kind = "logs"
  /\ answer' = <<GetLogs(request[1], request[2])>>
  /\ UNCHANGED <<kind, request, live>>

\* An empty table has no first block, which is an error.
SearchGaps ==
  /\ kind = "gaps"
  /\ \/ RetrieveGapsInData(request[2], request[1]) = {} /\ UNCHANGED answer
     \/ \E gaps \in RetrieveGapsInData(request[2], request[1]) : answer' = <<gaps>>
  /\ UNCHANGED <<kind, request, live>>

StartSuperNode ==
  /\ kind = "start"
  /\ request[1] = "superNode"
  /\ answer' = <<superNode(request[2])>>
  /\ UNCHANGED <<kind, request, live>>

StartResync ==
  /\ kind = "start"
  /\ request[1] = "resync"
  /\ answer' = <<NewResyncService(request[2])>>
  /\ UNCHANGED <<kind, request, live>>

\* The first configuration is composed, then the second, as often as one likes.
StartCompose ==
  /\ kind = "compose"
  /\ \/ answer = <<>> /\ answer' = <<compose(request[1], EmptyDisk)>>
     \/ /\ answer # <<>>
        /\ answer[1].pc \in {"refused", "done", "killed"}
        /\ answer' = <<compose(request[2], answer[1].disk)>>
  /\ UNCHANGED <<kind, request, live>>

StepCompose ==
  /\ kind = "compose"
  /\ answer # <<>>
  /\ \E r \in GenerateExporterPlugin(answer[1]) : answer' = <<r>>
  /\ UNCHANGED <<kind, request, live>>

Next ==
  \/ FilterEth \/ HistoryEth \/ FilterBtc \/ HistoryBtc \/ AnswerLogs \/ SearchGaps
  \/ StartSuperNode \/ StartResync \/ StartCompose \/ StepCompose

Spec == Init /\ [][Next]_vars
=============================================================================
