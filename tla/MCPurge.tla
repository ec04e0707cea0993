------------------------------ MODULE MCPurge ------------------------------
(* Small instances of Purge. *)
EXTENDS Purge

\* The purge by size, the purge by age, and the one after the other.
MCConfigs ==
    {[flag |-> "retainall", size |-> 1, age |-> FALSE],
     [flag |-> "retainany", size |-> 1, age |-> FALSE],
     [flag |-> "purge",     size |-> 0, age |-> TRUE],
     [flag |-> "retainall", size |-> 0, age |-> TRUE],
     [flag |-> "purge",     size |-> 2, age |-> TRUE]}

MCExcluded == {{}, {2}}
=============================================================================
