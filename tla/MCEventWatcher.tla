--------------------------- MODULE MCEventWatcher ---------------------------
(* Two transformers of one pair of address and topic, the later one in   *)
(* the order of names with the earlier starting block, and one of another *)
(* pair; blocks that hold a log of each pair and one that only the query  *)
(* asks for.                                                               *)
EXTENDS EventWatcher, TLC

T1 == [name |-> "one", addrs |-> {"a"}, topic |-> "t", start |-> 2]
T2 == [name |-> "two", addrs |-> {"a"}, topic |-> "t", start |-> 1]
T3 == [name |-> "three", addrs |-> {"b"}, topic |-> "u", start |-> 1]
MCTransformers == {T1, T2, T3}
MCBlocks == {<<1, 0>>, <<2, 0>>, <<2, 1>>}
Log(a, t, x) == [addr |-> a, topic |-> t, tx |-> x]
MCLogsOf == (<<1, 0>> :> {Log("a", "t", "x")}
          @@ <<2, 0>> :> {Log("a", "t", "x"), Log("b", "u", "y")}
          @@ <<2, 1>> :> {Log("a", "u", "y")})
=============================================================================
