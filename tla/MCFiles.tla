--------------------------------- MODULE MCFiles ---------------------------------
(* Files that goroutines share without a common lock: those of the configured proxies,   *)
(* and those of a route's disk cache.  A behaviour moves one of the two.                 *)
EXTENDS ProxyStore, DiskCache

CONSTANTS a, b

\* Every proxy keeps its host: that of a, an HTTP proxy, and of b, a TCP proxy, is the same.
Stems == [h \in Host \cup {None} |-> IF h = 2 THEN 1 ELSE None]
OwnHost == [i \in Id |-> IF i = a THEN {1} ELSE {2}]

\* Every proxy may be given every host.
AnyHost == [i \in Id |-> Host]

VARIABLE focus

filesVars == <<focus, vars, cacheVars>>

\* An earlier process left at most one answer, expired; the values of the header play the
\* same part, so the first request has the first of them.
FilesInit ==
  /\ focus \in {"proxies", "cache"}
  /\ Init /\ CacheInit
  /\ \A k \in CacheKey : Exists(stored[k]) =>
       focus = "cache" /\ stored[k].expires = 0 /\ \A l \in CacheKey : Exists(stored[l]) => l = k
  /\ varyFile = (\E k \in CacheKey \ {{}} : Exists(stored[k]))
  /\ \A c \in Client : focus = "proxies" \/ c = (CHOOSE d \in Client : TRUE)
       => task[Asked(c)].field = CHOOSE f \in Field : TRUE

Only(part) == focus = part /\ UNCHANGED focus

FilesNext ==
  \/ Only("proxies") /\ Next /\ UNCHANGED cacheVars
  \/ Only("cache") /\ CacheNext /\ UNCHANGED vars

FilesSpec == FilesInit /\ [][FilesNext]_filesVars /\ CacheFairness

\* The type invariants of the two.
FilesTypeOK == TypeOK /\ CacheTypeOK

==================================================================================
