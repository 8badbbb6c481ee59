------------------------- MODULE MCOrganismService -------------------------
(***************************************************************************)
(* Small instances, each with restarts at any time.                        *)
(***************************************************************************)
EXTENDS OrganismService

CONSTANTS org1, org2, t1, t2, h1

InstancesMC == 1..3

Of(backend, locks, ids, tasks, hibernations) ==
    [backend |-> backend, locks |-> locks, ids |-> ids, tasks |-> tasks,
     hibernations |-> hibernations]

LoadsMC ==
    {Of(b, FALSE, {org1}, {t1}, {h1}) : b \in {"memory", "redis", "postgres"}} \cup
    {Of("postgres", TRUE, {org1}, {t1}, {h1}), Of("memory", TRUE, {org1}, {t1, t2}, {}),
     Of("memory", FALSE, {org1, org2}, {t1}, {})}
=============================================================================
