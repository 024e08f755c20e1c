-------------------------- MODULE MCContractWatcher --------------------------
(* A contract with two events, filtered logs and piped methods, and one    *)
(* that starts later, watches all its events and polls a method without    *)
(* arguments; or one method that takes too many.                           *)
EXTENDS ContractWatcher

Conf(methods) ==
  [c |-> [events |-> {"e", "f"}, methods |-> {"m", "n"}, eventArgs |-> {"p"}, start |-> 1, piping |-> TRUE],
   d |-> [methods |-> methods, methodArgs |-> {"p"}, start |-> 2]]
MCRaws == {Conf({"k"}), Conf({"x"})}
MCAbi == [c |-> [events |-> {"e", "f", "g"}, methods |-> {"m", "n"}],
          d |-> [events |-> {"e"}, methods |-> {"k", "x"}]]
MCArity == [m |-> 1, n |-> 2, k |-> 0, x |-> 3]
MCReturns == [m |-> {"q"}, n |-> {}, k |-> {}]
Log(c, e, as) == [addr |-> c, event |-> e, args |-> as]
MCBlocks == {<<1, 0>>, <<2, 0>>, <<2, 1>>}
MCLogsOf == (<<1, 0>> :> {Log("c", "e", {"p"}), Log("c", "f", {"q"})}
          @@ <<2, 0>> :> {Log("c", "f", {"p"}), Log("d", "e", {"q"})}
          @@ <<2, 1>> :> {})
=============================================================================
