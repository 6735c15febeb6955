--------------------------- MODULE MCStoreForward ---------------------------
(* Small instances of StoreForward. *)
EXTENDS StoreForward, TLC

CONSTANTS m1, m2

\* To keep the instance small a behaviour tells one story: either outages and
\* an orderly stop with both sensors heard, or outages with one failing file
\* operation, read or crash each and m1 alone heard.
Faulted ==
    \/ budget.disk < MaxDiskErrors
    \/ budget.read < MaxReadErrors
    \/ budget.crash < MaxCrashes
Heard(m) == latest[m] # 0 \/ \E r \in emitted : r[1] = m
OneStory == Faulted => budget.stop = MaxStops /\ \A m \in Macs \ {m1} : ~Heard(m)

\* FairSpec, step for step within the story.
MCSpec ==
    /\ Init /\ [][Next /\ OneStory']_vars
    /\ WF_vars(Flush /\ OneStory') /\ WF_vars(FinalFlush) /\ WF_vars(DeliverStep /\ OneStory')
    /\ WF_vars(Exit) /\ WF_vars(Restart) /\ WF_vars(Ingest)
=============================================================================
