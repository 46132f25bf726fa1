----------------------------- MODULE MCCatalog -----------------------------
(* Three targets: db and web of the file, extra of the API.  The file names *)
(* web twice, once by its ID, with an interval below one second; a later    *)
(* file drops it; a third has a monitor without a host.                     *)
EXTENDS Catalog, TLC

CONSTANTS db, web, extra, noId, r1, r2

MCIds == {db, web, extra}
MCDefaultId(name) == IF name = 1 THEN db ELSE web

\* Names: 1 "db", 2 "web", 3 "www".
Monitor(id, name, interval, timeout) ==
    [id |-> id, name |-> name, host |-> 4, protocol |-> 1,
     interval |-> interval, timeout |-> timeout, down |-> 0]
MCFiles ==
    {[bind |-> 1, monitors |-> <<Monitor(noId, 2, 60000000, 0),
                                 Monitor(web, 3, 500000, 1500)>>],
     [bind |-> 1, monitors |-> <<Monitor(noId, 1, 0, 2000000)>>],
     [bind |-> 1, monitors |-> <<[Monitor(noId, 1, 0, 0) EXCEPT !.host = 0]>>]}
MCPosts ==
    {[id |-> noId, body |-> [name |-> 1, protocol |-> 2]],
     [id |-> web, body |-> [name |-> 2, interval |-> 10]]}
MCChanges ==
    {[interval |-> 0], [name |-> 3, down |-> 5]}
\* The targets of the file match by their host, whatever their name is.
MCQueries == {[protocol |-> 0, search |-> {1, 2, 4}, limit |-> 1],
              [protocol |-> 1, search |-> 0..4, limit |-> 0]}

Symmetry == Permutations({r1, r2})

\* The settings a probe uses: both programs derive them alike from a monitor.
ASSUME \A f \in MCFiles : \A i \in DOMAIN f.monitors :
    \A x \in {"name", "host", "protocol", "interval", "timeout"} :
        SpecToTarget(f.monitors[i])[x] = AgentTarget(f.monitors[i])[x]
=============================================================================
