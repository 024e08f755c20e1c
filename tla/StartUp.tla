------------------------------ MODULE StartUp -------------------------------
(***************************************************************************)
(* What the commands superNode and resync start, and from which parts      *)
(* (cmd/superNode.go, cmd/resync.go, pkg/super_node/config.go,             *)
(* constructors.go, NewSuperNode, NewBackFillService, NewReSyncConfig,     *)
(* NewResyncService).                                                      *)
(*                                                                         *)
(* env is what flags, file and environment variables give: names of chain, *)
(* IPFS mode and data type, which processes to run, how many workers, and  *)
(* whether the chain's node and the IPFS repository can be opened.  A part *)
(* is <<package, type>>; paths, time-outs and connection pools are left    *)
(* out.                                                                    *)
(***************************************************************************)
EXTENDS Request, Integers, Sequences, Functions, FiniteSetsExt

CONSTANT Commands \* pairs <<command, environment>>

\* What a flag or a variable gives is a truth value or a number.
ASSUME CommandAssumption ==
  \A c \in Commands :
    /\ c[2].dials \in BOOLEAN /\ c[2].repository \in BOOLEAN /\ c[2].batchNumber \in Int
    /\ c[1] = "superNode" =>
         /\ c[2].sync \in BOOLEAN /\ c[2].serve \in BOOLEAN /\ c[2].backFill \in BOOLEAN
         /\ c[2].workers \in Int

Failed  == [failed |-> TRUE]  \* the command ends with logWithCommand.Fatal
Invalid == <<>>               \* a constructor's error
Nil     == "nil"

DefaultMaxBatchNumber == 50
-----------------------------------------------------------------------------
(* Names *)

NewChainType(name) ==
  CASE name \in {"ethereum", "eth"}       -> "Ethereum"
    [] name \in {"bitcoin", "btc", "xbt"} -> "Bitcoin"
    [] name = "omni"                      -> "Omni"
    [] OTHER                              -> Nil

\* ChainType.API: the namespace the HTTP server lets through.
API(chain) == CASE chain = "Ethereum" -> "eth"
                [] chain = "Bitcoin"  -> "btc"
                [] OTHER              -> "omni"

\* The remote client is refused: "not currently supported".
NewIPFSMode(name) ==
  CASE name \in {"local", "interface", "minimal"} -> "Local"
    [] name \in {"postgres", "direct"}            -> "Postgres"
    [] OTHER                                      -> Nil

GetIPFSMode(name) == IF name = "" THEN "Postgres" ELSE NewIPFSMode(name)

DataTypes == {"full", "headers", "uncles", "transactions", "receipts", "state", "storage"}

GenerateDataTypeFromString(str) ==
  CASE str \in DataTypes                -> str
    [] str = "f"                        -> "full"
    [] str \in {"header", "h"}          -> "headers"
    [] str = "u"                        -> "uncles"
    [] str \in {"transaction", "trxs", "txs", "trx", "tx", "t"} -> "transactions"
    [] str \in {"receipt", "rcts", "rct", "r"} -> "receipts"
    [] OTHER                            -> Nil

SupportedDataType(d, chain) ==
  \/ chain = "Ethereum"
  \/ chain = "Bitcoin" /\ d \in {"full", "headers", "transactions"}

\* The types for which the chain's Cleaner.clean has a case.
CleanTypes(chain) ==
  IF chain = "Ethereum" THEN DataTypes ELSE {"full", "headers", "transactions"}
-----------------------------------------------------------------------------
(* The constructors *)

Known(chain) == chain \in {"Ethereum", "Bitcoin"}
Pkg(chain) == IF chain = "Ethereum" THEN "eth" ELSE "btc"

NewPart(chain, type) == IF Known(chain) THEN <<Pkg(chain), type>> ELSE Invalid

NewResponseFilterer(chain) == NewPart(chain, "ResponseFilterer")
NewCIDRetriever(chain) == NewPart(chain, "CIDRetriever")
NewPayloadConverter(chain) == NewPart(chain, "PayloadConverter")
NewCleaner(chain) == NewPart(chain, "Cleaner")

\* The client for the chain's node: a connection that rpc.Dial opened, or the
\* configuration of one.
GetEthNodeAndClient(env) == IF env.dials THEN "rpc.Client" ELSE "error"
GetBtcNodeAndClient(env) == "ConnConfig"

NodeAndClient(chain, env) ==
  CASE chain = "Ethereum" -> GetEthNodeAndClient(env)
    [] chain = "Bitcoin"  -> GetBtcNodeAndClient(env)
    [] OTHER              -> Nil

ClientOf(chain) == IF chain = "Ethereum" THEN "rpc.Client" ELSE "ConnConfig"

NewPayloadStreamer(chain, client) ==
  IF ~Known(chain) \/ client # ClientOf(chain) THEN Invalid
  ELSE <<Pkg(chain), IF chain = "Ethereum" THEN "PayloadStreamer" ELSE "HTTPPayloadStreamer">>

NewPaylaodFetcher(chain, client) ==
  IF ~Known(chain) \/ client # ClientOf(chain) THEN Invalid ELSE <<Pkg(chain), "PayloadFetcher">>

\* In Postgres mode publisher and indexer are one type, whose Publish writes the
\* index too and whose Index does nothing; Bitcoin gets Ethereum's as indexer.
NewCIDIndexer(chain, mode) ==
  IF ~Known(chain) THEN Invalid
  ELSE IF mode = "Local" THEN <<Pkg(chain), "CIDIndexer">>
  ELSE <<"eth", "IPLDPublisherAndIndexer">>

NewIPLDPublisher(chain, mode, env) ==
  IF ~Known(chain) \/ (mode = "Local" /\ ~env.repository) THEN Invalid
  ELSE <<Pkg(chain), IF mode = "Local" THEN "IPLDPublisher" ELSE "IPLDPublisherAndIndexer">>

NewIPLDFetcher(chain, mode, env) ==
  IF ~Known(chain) \/ (mode = "Local" /\ ~env.repository) THEN Invalid
  ELSE <<Pkg(chain), IF mode = "Local" THEN "IPLDFetcher" ELSE "IPLDPGFetcher">>

Checked(parts) == IF Invalid \in Range(parts) THEN Failed ELSE parts
-----------------------------------------------------------------------------
(* vulcanizedb superNode *)

BackFillFields(chain, env) ==
  [httpClient  |-> IF env.backFill THEN NodeAndClient(chain, env) ELSE Nil,
   batchNumber |-> IF env.backFill THEN env.batchNumber ELSE 0]

NewSuperNodeConfig(env) ==
  LET chain  == NewChainType(env.chain)
      mode   == GetIPFSMode(env.mode)
      client == IF env.sync THEN NodeAndClient(chain, env) ELSE Nil
      fields == BackFillFields(chain, env)
  IN  IF chain = Nil \/ mode = Nil \/ "error" \in {client, fields.httpClient}
      THEN Failed
      ELSE [chain |-> chain, mode |-> mode, repository |-> env.repository,
            sync |-> env.sync, serve |-> env.serve, backFill |-> env.backFill,
            wsClient |-> client, workers |-> IF env.sync THEN Max({1, env.workers}) ELSE 0,
            httpClient |-> fields.httpClient, batchNumber |-> fields.batchNumber]

SyncParts(c) ==
  [Streamer  |-> NewPayloadStreamer(c.chain, c.wsClient),
   Converter |-> NewPayloadConverter(c.chain),
   Publisher |-> NewIPLDPublisher(c.chain, c.mode, c),
   Indexer   |-> NewCIDIndexer(c.chain, c.mode),
   Filterer  |-> NewResponseFilterer(c.chain)]

ServeParts(c) ==
  [Retriever   |-> NewCIDRetriever(c.chain),
   IPLDFetcher |-> NewIPLDFetcher(c.chain, c.mode, c)]

Joined(f, g) == [p \in DOMAIN f \cup DOMAIN g |-> IF p \in DOMAIN f THEN f[p] ELSE g[p]]

\* Mutant: the parts of the server are made for a node that syncs only.
NewSuperNodeSyncOnly(c) ==
  Checked(IF c.sync THEN Joined(SyncParts(c), ServeParts(c)) ELSE <<>>)

\* The filterer, which the server uses, is one of the parts for syncing.
NewSuperNode(c) ==
  Checked(Joined(IF c.sync THEN SyncParts(c) ELSE <<>>, IF c.serve THEN ServeParts(c) ELSE <<>>))

NewBackFillService(c) ==
  Checked([Publisher |-> NewIPLDPublisher(c.chain, c.mode, c),
           Indexer   |-> NewCIDIndexer(c.chain, c.mode),
           Converter |-> NewPayloadConverter(c.chain),
           Retriever |-> NewCIDRetriever(c.chain),
           Fetcher   |-> NewPaylaodFetcher(c.chain, c.httpClient)])

\* The loop that starts the backFill workers runs from 1 to BatchNumber.
BackFillWorkers(batchNumber) ==
  IF batchNumber = 0 THEN DefaultMaxBatchNumber ELSE Max({0, batchNumber})

\* There is a public API for Ethereum only.
NewPublicAPI(chain) == IF chain = "Ethereum" THEN "eth" ELSE Nil

\* An error of NewPublicAPI is logged and the rest is served.
APIs(chain) == {"vdb", "rpc", "net", "admin"} \cup ({NewPublicAPI(chain)} \ {Nil})

\* The endpoints over IPC and HTTP; the one over web sockets offers "vdb".
startServers(chain) == [ipc |-> APIs(chain), http |-> APIs(chain) \cap {API(chain)}]

\* Serve and the servers, then Sync, then BackFill.
superNode(env) ==
  LET c == NewSuperNodeConfig(env)
      N == NewSuperNode(c)
      B == IF c.backFill THEN NewBackFillService(c) ELSE <<>>
  IN  IF c = Failed THEN Failed
      ELSE IF N = Failed \/ B = Failed THEN Failed
      ELSE [chain       |-> c.chain,
            running     |-> {p \in {"sync", "serve", "backFill"} : c[p]},
            node        |-> N,
            filler      |-> B,
            workers     |-> c.workers,
            fillWorkers |-> IF c.backFill THEN BackFillWorkers(c.batchNumber) ELSE 0,
            servers     |-> IF c.serve THEN startServers(c.chain) ELSE Nil]
-----------------------------------------------------------------------------
(* vulcanizedb resync *)

NewReSyncConfig(env) ==
  LET chain  == NewChainType(env.chain)
      mode   == GetIPFSMode(env.mode)
      type   == GenerateDataTypeFromString(env.type)
      client == NodeAndClient(chain, env)
  IN  IF \/ mode = Nil \/ type = Nil \/ chain = Nil
         \/ ~SupportedDataType(type, chain)
         \/ client = "error"
      THEN Failed
      ELSE [chain |-> chain, mode |-> mode, repository |-> env.repository, type |-> type,
            httpClient |-> client, batchNumber |-> env.batchNumber]

\* NewResyncService as rsyncCmdCommand calls it.
NewResyncService(env) ==
  LET c == NewReSyncConfig(env)
      P == Checked([Publisher |-> NewIPLDPublisher(c.chain, c.mode, c),
                    Indexer   |-> NewCIDIndexer(c.chain, c.mode),
                    Converter |-> NewPayloadConverter(c.chain),
                    Retriever |-> NewCIDRetriever(c.chain),
                    Fetcher   |-> NewPaylaodFetcher(c.chain, c.httpClient),
                    Cleaner   |-> NewCleaner(c.chain)])
  IN  IF c = Failed THEN Failed
      ELSE IF P = Failed THEN Failed
      ELSE [chain |-> c.chain, type |-> c.type, parts |-> P,
            workers |-> BackFillWorkers(c.batchNumber)]
-----------------------------------------------------------------------------
(* Properties *)

\* Publisher and indexer agree on who writes the index: one that does it while
\* publishing goes with an indexer that does nothing.
IndexedOnce(parts) ==
  (parts["Publisher"][2] = "IPLDPublisherAndIndexer") <=>
    (parts["Indexer"][2] = "IPLDPublisherAndIndexer")

Pipeline == {"Publisher", "Indexer", "Converter", "Retriever", "Fetcher"}

\* Whatever the configuration, a command that does not fail has every part its
\* goroutines call, none of another chain (but for an Index that does nothing),
\* a pair of publisher and indexer that fit, and workers.  The exceptions are a
\* node that serves and backfills without syncing, whose filterAndServe has no
\* Filterer, a negative number of batches, which starts no worker, and the HTTP
\* endpoint of a Bitcoin node, which lets no API through.
PartsComplete ==
  kind = "start" /\ answer # <<>> =>
    LET n   == answer[1]
        env == request[2]
        own(parts) == \A p \in DOMAIN parts \ {"Indexer"} : parts[p][1] = Pkg(n.chain)
    IN  \/ n = Failed
        \/ /\ request[1] = "superNode"
           /\ "sync" \in n.running =>
                /\ {"Streamer", "Converter", "Publisher", "Indexer"} \subseteq DOMAIN n.node
                /\ IndexedOnce(n.node) /\ n.workers > 0
           /\ "serve" \in n.running =>
                /\ {"Retriever", "IPLDFetcher"} \subseteq DOMAIN n.node
                /\ n.running \in {{"serve"}, {"serve", "backFill"}} \/ "Filterer" \in DOMAIN n.node
                /\ "vdb" \in n.servers.ipc /\ (n.servers.http # {} \/ n.chain = "Bitcoin")
           /\ "backFill" \in n.running =>
                /\ Pipeline \subseteq DOMAIN n.filler
                /\ IndexedOnce(n.filler)
                /\ n.fillWorkers > 0 \/ env.batchNumber < 0
           /\ own(n.node) /\ own(n.filler)
        \/ /\ request[1] = "resync"
           /\ Pipeline \cup {"Cleaner"} \subseteq DOMAIN n.parts
           /\ IndexedOnce(n.parts) /\ own(n.parts)
           /\ n.type \in CleanTypes(n.chain)
           /\ n.workers > 0 \/ env.batchNumber < 0
=============================================================================
