----------------------------- MODULE BtcFilters -----------------------------
(***************************************************************************)
(* What a Bitcoin subscriber is sent of a block: the live filter           *)
(* (pkg/super_node/btc/filterer.go) and the SQL over the index             *)
(* (btc/cid_retriever.go), both over the converted block                   *)
(* (btc/converter.go): a sequence of transactions                          *)
(* [segwit, witness, ins, outs]; an output is [sigs, addrs, class] and     *)
(* ins is the number of inputs.                                            *)
(***************************************************************************)
EXTENDS Integers, Sequences, FiniteSets

NonStandardTy == 0

\* A raw transaction has [hash, ins, scripts], ins telling which inputs carry a
\* witness.  txscript reads a script as [class, addrs, sigs, err].
BtcModel(tx) ==
  LET segwit == \E i \in DOMAIN tx.ins : tx.ins[i]
  IN  [segwit |-> segwit, witness |-> IF segwit THEN tx.hash ELSE "", ins |-> Len(tx.ins),
       outs |-> {[class |-> s.class, addrs |-> s.addrs, sigs |-> s.sigs] : s \in tx.scripts}]

\* A script that cannot be read is kept as a non-standard one.
BtcConvertError(b) ==
  \E i \in DOMAIN b : \E s \in b[i].scripts : s.err /\ s.class # NonStandardTy

BtcConvert(b) == [i \in DOMAIN b |-> BtcModel(b[i])]
-----------------------------------------------------------------------------
\* Every criterion may be met by another output.
checkTransaction(f, i, tx) ==
  /\ f.segwit => tx.segwit
  /\ f.multisig => \E o \in tx.outs : o.sigs > 1
  /\ f.witness = {} \/ tx.witness \in f.witness
  /\ f.addrs = {} \/ \E o \in tx.outs : f.addrs \cap o.addrs # {}
  /\ f.indexes = {} \/ i \in f.indexes
  /\ f.classes = {} \/ \E o \in tx.outs : o.class \in f.classes

BtcFilter(f, b) == IF f.off THEN {} ELSE {i \in DOMAIN b : checkTransaction(f, i, b[i])}

\* The outputs that satisfy the WHERE clause: one row joins a transaction with
\* one input and one output, so the output criteria meet in the same output.
RowOutputs(f, tx) ==
  {o \in tx.outs : /\ f.multisig => o.sigs > 1
                   /\ f.addrs = {} \/ f.addrs \cap o.addrs # {}
                   /\ f.classes = {} \/ o.class \in f.classes}

\* Mutant: the criteria on outputs are left to the client.
BtcRowsAnyOutput(f, i, tx) ==
  IF /\ f.segwit => tx.segwit
     /\ f.witness = {} \/ tx.witness \in f.witness
     /\ f.indexes = {} \/ i \in f.indexes
  THEN tx.ins * Cardinality(tx.outs) ELSE 0

\* The rows of RetrieveTxCIDs per transaction: there is no DISTINCT.
BtcRows(f, i, tx) ==
  IF /\ f.segwit => tx.segwit
     /\ f.witness = {} \/ tx.witness \in f.witness
     /\ f.indexes = {} \/ i \in f.indexes
  THEN tx.ins * Cardinality(RowOutputs(f, tx)) ELSE 0

\* The transactions of the historical feed with their multiplicity; as for
\* Ethereum nothing can be fetched with the header filter off.
BtcRetrieve(f, b) ==
  [i \in DOMAIN b |-> IF f.off \/ f.headerOff THEN 0 ELSE BtcRows(f, i, b[i])]
=============================================================================
