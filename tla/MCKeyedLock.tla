----------------------------- MODULE MCKeyedLock -----------------------------
(* KeyedLock for two CreateVolume names that share one backing path, and a *)
(* DeleteVolume of that path.                                              *)
EXTENDS KeyedLock

MCKeys == {"name-a", "name-b", "path"}

MCPlans == {<<"name-a", "path">>, <<"name-b", "path">>, <<"path">>}

\* All references to a key are to one object, so one object per key is the
\* most that can be reachable at once; freed ones are handed out again.
MCLocks == 1..3

MCWorkers == {"g1", "g2", "g3"}

=============================================================================
