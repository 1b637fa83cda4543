----------------------------- MODULE SearchView -----------------------------
(***************************************************************************)
(* What the live index promises a search, without base, overlay, bitsets   *)
(* or rebuilds: the database commits new content for one document at a     *)
(* time, and what a search is shown changes only by catching up with what  *)
(* is committed - one document at a time, or all at once.                  *)
(***************************************************************************)
CONSTANT Docs

VARIABLES
    committed,  \* the content SQLite holds for each document
    shown       \* the content a search is shown for each document

viewVars == <<committed, shown>>

Init == \E nothing \in [Docs -> {{}}] : committed = nothing /\ shown = nothing

\* A transaction on d commits: searches still see the old content.
Write(d) ==
    /\ \A e \in Docs \ {d} : committed'[e] = committed[e]
    /\ shown' = shown

\* d's new content replaces its old content in one step.
Publish(d) ==
    /\ shown' = [shown EXCEPT ![d] = committed[d]]
    /\ committed' = committed

\* The whole view is rebuilt from the database.
Refresh ==
    /\ shown' = committed
    /\ committed' = committed

Next == (\E d \in Docs : Write(d) \/ Publish(d)) \/ Refresh

Spec == Init /\ [][Next]_viewVars
=============================================================================
