----------------------- MODULE MCConfigurationManager -----------------------
(* A small instance of ConfigurationManager: two coroutines at a time.     *)
EXTENDS ConfigurationManager, TLC

Symmetry == Permutations(Procs)

\* The types of the variables; a service is never registered before it has
\* read the category, and only coroutines that notify share a dictionary.
TypeOK ==
    /\ row \in Row \cup {NoRow} /\ cache \in Row \cup {NoRow}
    /\ got \in [Procs -> Row \cup {NoRow}]
    /\ registered \subseteq fetched /\ fetched \subseteq Services
    /\ view \in [Services -> Values \cup {0}]
    /\ todo \in [Procs -> SUBSET Services]
    /\ \A p \in sharing : pc[p] = "post" /\ got[p].value = cache.value
    /\ wanted \in Values /\ stale \subseteq Procs /\ late \subseteq Services
=============================================================================
