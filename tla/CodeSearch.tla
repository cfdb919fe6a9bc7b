----------------------------- MODULE CodeSearch -----------------------------
(***************************************************************************)
(* Searching the index while it is being indexed: CodeIndex.search.        *)
(*                                                                         *)
(* A search takes no lock.  It looks whether the manifest is of its own    *)
(* model, has its query embedded over the network and only then asks the   *)
(* vector store.  Runs of any agent come in between.                       *)
(***************************************************************************)
EXTENDS CodeIndex

VARIABLES
    asking,     \* agents that found a manifest of theirs and wait for the embedder
    rebound     \* history: those since whose check the manifest has been of
                \* another model

searchVars == <<vars, asking, rebound>>

SearchTypeOK == asking \subseteq Agents /\ rebound \subseteq asking

SearchInit == Init /\ asking = {} /\ rebound = {}

\* The check.  A search that does not find its manifest is over.
Ask(a) ==
    /\ a \notin asking /\ Matches(manifest, Model[a])
    /\ asking' = asking \cup {a}
    /\ UNCHANGED <<vars, rebound>>

\* What query_points finds; the filter is on the scope, not on the model.
Answer == points

\* The search comes back: with Answer, or because its embedding failed or its
\* host reaped it.
Query(a) ==
    /\ a \in asking
    /\ asking' = asking \ {a} /\ rebound' = rebound \ {a}
    /\ UNCHANGED vars

OfAnother(m, model) == m # NoManifest /\ m.model # model

\* A step of the index.  Who is killed no longer asks.
Indexing ==
    /\ Next
    /\ asking' = {a \in asking : ~Kill(a)}
    /\ rebound' = {a \in asking' : a \in rebound \/ OfAnother(manifest', Model[a])}

SearchNext == Indexing \/ \E a \in Agents : Ask(a) \/ Query(a)

SearchSpec == SearchInit /\ [][SearchNext]_searchVars

\* As FairSpec; searches need not come, nor come back.
SearchFair ==
    /\ SearchSpec
    /\ \A a \in Agents : WF_vars(Index(a)) /\ WF_vars(Elapse(a)) /\ WF_vars(AutoKick(a))

-----------------------------------------------------------------------------
(* Properties.                                                             *)

\* Whenever a search is out and may be answered, it finds points of the searcher's model
\* only, wherever runs were killed, whatever was removed and whoever indexed
\* since its check, unless the manifest has meanwhile been bound to another
\* model: the check is not repeated after the embedding.
SearchFindsOwn == \A a \in asking \ rebound : \A pt \in Answer : pt.model = Model[a]
=============================================================================
