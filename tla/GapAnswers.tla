----------------------------- MODULE GapAnswers -----------------------------
(* What the gap search of the backfill promises, for any header_cids table. *)
EXTENDS Request, HeaderCIDs

Under == UnderRows(request[2], request[1])
Spans(gaps) == [i \in DOMAIN gaps |-> Span(gaps[i])]

\* "it finds the union of heights where no data exists and where the
\* times_validated is lower than the validation level" (cid_retriever.go:444):
\* all of these heights up to the highest stored one and nothing else.  The
\* exception is a table with a single under-validated header: the loop of
\* MissingHeightsToGaps over heights[1:] (utils.go:60) then yields no gap.
GapsComplete ==
  kind = "gaps" /\ answer # <<>> /\ Cardinality(Under) # 1 =>
    UNION Range(Spans(answer[1])) =
      {h \in 0..Max(Stored(request[2])) : h \notin Stored(request[2])} \cup {k[1] : k \in Under}

\* "There will be no overlap between these 'gaps' and the ones above"
\* (cid_retriever.go:482), nor between two gaps of one kind: only a forked
\* height with two under-validated headers is found twice, and put into two
\* batches of the pass, whatever the size of a batch.
GapsDisjoint ==
  kind = "gaps" /\ answer # <<>> =>
    \A size \in 1..(MaxHeight + 1) :
      LET bins == PassBins(answer[1], size)
      IN  \A i, j \in DOMAIN bins : i # j =>
            \A h \in bins[i] \cap bins[j] : Cardinality({k \in Under : k[1] = h}) > 1
=============================================================================
