-------------------------- MODULE MCStateBackends --------------------------
(* TLC instances of StateBackends.                                           *)
EXTENDS StateBackends

CONSTANTS val, map, unitmap, vec, red, agg

\* Values and maps. The order of a map's list of keys multiplies the states of
\* SlowerFaster, which therefore has the map without item key and namespace.
MapDeployments ==
    ({"InMemory", "Rocks", "SledCheckpoints", "Faster"} \X {{map}})
        \cup ({"Rocks", "SlowerFaster"} \X {{val, unitmap}})
        \cup ({"InMemory", "SledCheckpoints", "Faster"} \X {{val}})

\* The states whose writes are merged.
MergeDeployments ==
    {"InMemory", "Rocks", "Sled", "SledCheckpoints", "Faster"} \X {{vec}, {red}, {agg}}
============================================================================
