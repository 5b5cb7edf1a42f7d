------------------------------- MODULE ProxyStore -------------------------------
(***************************************************************************)
(* The file store of a gateway's configured proxies (internal/edge/         *)
(* proxystore/store.go): one file per proxy, named after its host, behind   *)
(* an index from identifiers to paths and a memorised listing.              *)
(*                                                                         *)
(* idMu protects the index and the listing, not the directory: a file is    *)
(* renamed or removed first, and the index told afterwards.  The steps of   *)
(* an operation are its accesses to the directory and its critical          *)
(* sections of idMu; a rebuild reads the directory under idMu, the names    *)
(* first and then the files.                                                *)
(***************************************************************************)
EXTENDS Naturals, FiniteSets

CONSTANTS
  Id,       \* proxy identifiers
  Host,     \* hosts, numbered in the order of their file names
  HostOf,   \* the hosts each identifier may be given
  StemOf,   \* <host>.yaml for the path <host>_<type>.yaml of a TCP or UDP proxy
  MaxOps,   \* bound: how many writes and deletions are made
  Serial    \* TRUE: no two of them at the same time

None == 0   \* no path

ASSUME HostAssumption == Host \subseteq Nat \ {None} /\ IsFiniteSet(Host)
ASSUME StoreAssumption == HostOf \in [Id -> SUBSET Host]
                          /\ MaxOps \in Nat /\ Serial \in BOOLEAN

ASSUME StemAssumption ==
  /\ StemOf \in [Host \cup {None} -> Host \cup {None}]
  /\ \A h \in Host \cup {None} : StemOf[h] # h \/ h = None
  /\ \A h \in Host \cup {None} : StemOf[StemOf[h]] = None

VARIABLES
  file,        \* the directory: for each path the envelopes there (at most one)
  idIndex,     \* Store.idIndex: the set of <<id, path>>
  indexed,     \* FALSE: Store.idIndex is nil
  listCache,   \* Store.listCache: the set of <<path, envelope>>
  listed,      \* FALSE: Store.listCache is nil
  build,       \* the rebuild under way, which holds idMu
  ops,         \* the writes and deletions under way
  started      \* how many were started

vars == <<file, idIndex, indexed, listCache, listed, build, ops, started>>

---------------------------------------------------------------------------
(* Data *)

\* An envelope; its version tells it from the others of the same proxy.
Envelope == [id : Id, ver : 1..MaxOps]

\* The rebuild is made for the operation of this number, or for ListProd.
ForList == 0
Build == [held : BOOLEAN, by : 0..MaxOps, names : SUBSET Host]
Free == [held |-> FALSE, by |-> ForList, names |-> {}]

\* no: the number of the operation, which is also the version it writes; host: the
\* new host; path: where the present version is, as far as the operation knows; left:
\* how many obsolete paths it has yet to clear.
WriteStep == {"lookup", "read", "write", "check", "clear", "index", "rename"}
DeleteStep == {"lookup", "read", "remove", "clear", "forget"}
Op == {o \in [no : 1..MaxOps, kind : {"promote", "adopt"}, id : Id, host : Host,
              path : Host \cup {None}, left : 0..2, pc : WriteStep]
              \cup [no : 1..MaxOps, kind : {"delete"}, id : Id, host : {None},
                    path : Host \cup {None}, left : 0..2, pc : DeleteStep] :
         o.pc \in {"check", "clear"} => o.left > 0}

Unlocked == ~build.held

\* What is in the directory, restricted to these names.
Entries(names) == {x \in names \X Envelope : x[2] \in file[x[1]]}

\* The last name read for an identifier wins in the index.
IndexOf(entries) ==
  {x \in Id \X Host :
     /\ \E e \in Envelope : e.id = x[1] /\ <<x[2], e>> \in entries
     /\ \A y \in entries : y[2].id = x[1] => y[1] <= x[2]}

PathOf(i) == IF \E h \in Host : <<i, h>> \in idIndex
             THEN CHOOSE h \in Host : <<i, h>> \in idIndex
             ELSE None

Init ==
  /\ file = [h \in Host |-> {}]
  /\ idIndex = {} /\ indexed = FALSE
  /\ listCache = {} /\ listed = FALSE
  /\ build = Free
  /\ ops = {}
  /\ started = 0

---------------------------------------------------------------------------
(* The index and the listing *)

\* The operation goes on with these changes; the others are left alone.
Moves(o, p) == ops' = (ops \ {o}) \cup {p}
Ends(o) == ops' = ops \ {o}

\* ListProd finds no listing, or a lookup no index: ReadDir.
StartBuild(by) ==
  /\ Unlocked
  /\ build' = [held |-> TRUE, by |-> by, names |-> {h \in Host : file[h] # {}}]
  /\ UNCHANGED <<file, idIndex, indexed, listCache, listed, ops, started>>

ListProd == ~listed /\ StartBuild(ForList)

LookupBuild(o) == o.pc = "lookup" /\ ~indexed /\ StartBuild(o.no)

\* Without a path a promotion has no previous file, and a deletion is over.
AfterLookup(o, path) ==
  [o EXCEPT !.path = path, !.pc = IF path # None THEN "read" ELSE "write"]

\* Mutant: a deletion goes on without a path.
Answered_goes(o, path) == Moves(o, AfterLookup(o, path))

Answered(o, path) ==
  IF path = None /\ o.kind = "delete" THEN Ends(o) ELSE Moves(o, AfterLookup(o, path))

\* The files are read, idMu is released; a lookup has its answer.
BuildRead ==
  LET entries == Entries(build.names) IN
  /\ ~Unlocked
  /\ idIndex' = IndexOf(entries) /\ indexed' = TRUE
  /\ listCache' = entries /\ listed' = TRUE
  /\ build' = Free
  /\ \/ build.by = ForList /\ UNCHANGED ops
     \/ \E o \in ops :
          /\ o.no = build.by
          /\ LET found == {h \in Host : <<o.id, h>> \in idIndex'} IN
             Answered(o, IF found = {} THEN None ELSE CHOOSE h \in found : TRUE)
  /\ UNCHANGED <<file, started>>

Lookup(o) ==
  /\ o.pc = "lookup" /\ indexed /\ Unlocked
  /\ Answered(o, PathOf(o.id))
  /\ UNCHANGED <<file, idIndex, indexed, listCache, listed, build, started>>

\* ReadProdByID reads the file, whosever it is: a deletion goes on to remove it, a
\* promotion forgets it if it is not the proxy's own.  If the file is gone the index
\* is dropped, but not the listing.
Read(o) ==
  /\ o.pc = "read"
  /\ \/ /\ file[o.path] # {}
        /\ IF o.kind = "delete" THEN Moves(o, [o EXCEPT !.pc = "remove"])
           ELSE Moves(o, [o EXCEPT !.pc = "write",
                                   !.path = IF \E e \in file[@] : e.id = o.id THEN @ ELSE None])
        /\ UNCHANGED <<idIndex, indexed>>
     \/ /\ file[o.path] = {} /\ Unlocked
        /\ idIndex' = {} /\ indexed' = FALSE
        /\ IF o.kind = "delete" THEN Ends(o)
           ELSE Moves(o, [o EXCEPT !.pc = "write", !.path = None])
  /\ UNCHANGED <<file, listCache, listed, build, started>>

---------------------------------------------------------------------------
(* Writes: Promote, which Pipeline.mu serialises, and mergeProxyReplica *)

Start(o) ==
  /\ started < MaxOps
  /\ Serial => ops = {}
  /\ started' = started + 1
  /\ ops' = ops \cup {o}
  /\ UNCHANGED <<file, idIndex, indexed, listCache, listed, build>>

\* The dry run of a promotion lists the production and refuses a host that another
\* proxy has there.
StartPromote(i, h) ==
  /\ listed /\ \A x \in listCache : x[1] = h => x[2].id = i
  /\ \A o \in ops : o.kind # "promote"
  /\ Start([no |-> started + 1, kind |-> "promote", id |-> i, host |-> h,
            path |-> None, left |-> 0, pc |-> "lookup"])

\* The merge takes the previous version from the listing, where the last of two
\* files of the proxy wins.
ListedPath(i) ==
  LET index == IndexOf(listCache) IN
  IF \E h \in Host : <<i, h>> \in index THEN CHOOSE h \in Host : <<i, h>> \in index ELSE None

StartAdopt(i, h) ==
  /\ listed
  /\ \A o \in ops : o.kind # "adopt"
  /\ Start([no |-> started + 1, kind |-> "adopt", id |-> i, host |-> h,
            path |-> ListedPath(i), left |-> 0, pc |-> "write"])

\* Where the proxy's file is put, or is taken away.
Where(o) == IF o.kind = "delete" THEN o.path ELSE o.host

\* obsoleteProdPaths of a TCP or UDP proxy has <host>.yaml, the name of an HTTP proxy of that
\* host, twice.
Obsolete(h) == IF StemOf[h] = None THEN 0 ELSE 2

\* n obsolete paths are left: a write reads each before it removes it, a deletion does not.
ToClear(o, n) ==
  [o EXCEPT !.left = n,
            !.pc = IF o.kind = "delete" THEN IF n = 0 THEN "forget" ELSE "clear"
                   ELSE IF n = 0 THEN "index" ELSE "check"]

\* WriteProd: the rename puts the new file in place of the one at that path ...
WriteFile(o) ==
  /\ o.pc = "write"
  /\ file' = [file EXCEPT ![o.host] = {[id |-> o.id, ver |-> o.no]}]
  /\ Moves(o, ToClear(o, Obsolete(o.host)))
  /\ UNCHANGED <<idIndex, indexed, listCache, listed, build, started>>

\* ... an obsolete path is cleared if the proxy's own file is there ...
CheckObsolete(o) ==
  /\ o.pc = "check"
  /\ Moves(o, IF \E e \in file[StemOf[o.host]] : e.id = o.id
              THEN [o EXCEPT !.pc = "clear"] ELSE ToClear(o, o.left - 1))
  /\ UNCHANGED <<file, idIndex, indexed, listCache, listed, build, started>>

ClearObsolete(o) ==
  /\ o.pc = "clear"
  /\ file' = [file EXCEPT ![StemOf[Where(o)]] = {}]
  /\ Moves(o, ToClear(o, o.left - 1))
  /\ UNCHANGED <<idIndex, indexed, listCache, listed, build, started>>

Without(i) == {x \in idIndex : x[1] # i}

\* Mutant: the listing is not told.
IndexFile_listed(o) ==
  /\ o.pc = "index" /\ Unlocked
  /\ idIndex' = (IF indexed THEN Without(o.id) \cup {<<o.id, o.host>>} ELSE {})
  /\ Moves(o, [o EXCEPT !.pc = "rename"])
  /\ UNCHANGED <<file, indexed, listCache, listed, build, started>>

\* ... and the index is told, if there is one; the listing is dropped.
IndexFile(o) ==
  /\ o.pc = "index" /\ Unlocked
  /\ idIndex' = (IF indexed THEN Without(o.id) \cup {<<o.id, o.host>>} ELSE {})
  /\ listCache' = {} /\ listed' = FALSE
  /\ Moves(o, [o EXCEPT !.pc = "rename"])
  /\ UNCHANGED <<file, indexed, build, started>>

\* RemoveProdIfRenamed: whatever is at the old path goes, and nobody is told.
RemoveRenamed(o) ==
  /\ o.pc = "rename"
  /\ file' = IF o.path \in Host \ {o.host} THEN [file EXCEPT ![o.path] = {}] ELSE file
  /\ Ends(o)
  /\ UNCHANGED <<idIndex, indexed, listCache, listed, build, started>>

---------------------------------------------------------------------------
(* Deletions: DeleteProdByID *)

StartDelete(i) ==
  Start([no |-> started + 1, kind |-> "delete", id |-> i, host |-> None,
         path |-> None, left |-> 0, pc |-> "lookup"])

\* The file goes, and then whatever is at the obsolete paths (ClearObsolete).
RemoveFile(o) ==
  /\ o.pc = "remove"
  /\ file' = [file EXCEPT ![o.path] = {}]
  /\ Moves(o, ToClear(o, Obsolete(o.path)))
  /\ UNCHANGED <<idIndex, indexed, listCache, listed, build, started>>

Forget(o) ==
  /\ o.pc = "forget" /\ Unlocked
  /\ idIndex' = Without(o.id)
  /\ listCache' = {} /\ listed' = FALSE
  /\ Ends(o)
  /\ UNCHANGED <<file, indexed, build, started>>

---------------------------------------------------------------------------
OpStep(o) ==
  \/ LookupBuild(o) \/ Lookup(o) \/ Read(o)
  \/ WriteFile(o) \/ IndexFile(o) \/ RemoveRenamed(o)
  \/ CheckObsolete(o) \/ ClearObsolete(o) \/ RemoveFile(o) \/ Forget(o)

Next ==
  \/ ListProd
  \/ BuildRead
  \/ \E i \in Id : \E h \in HostOf[i] : StartPromote(i, h) \/ StartAdopt(i, h)
  \/ \E i \in Id : StartDelete(i)
  \/ \E o \in ops : OpStep(o)

Spec == Init /\ [][Next]_vars

---------------------------------------------------------------------------
(* Properties *)

\* At most one file per path, one answer per identifier, one operation per number, and idMu
\* is held only for ListProd or an operation that is looking for its file.
TypeOK ==
  /\ file \in [Host -> SUBSET Envelope]
  /\ \A h \in Host : \A d, e \in file[h] : d = e
  /\ idIndex \subseteq Id \X Host
  /\ \A x, y \in idIndex : x[1] = y[1] => x = y
  /\ indexed \in BOOLEAN /\ listed \in BOOLEAN
  /\ listCache \subseteq Host \X Envelope
  /\ build \in Build /\ (Unlocked => build = Free)
  /\ build.by \in {ForList} \cup {o.no : o \in {p \in ops : p.pc = "lookup"}}
  /\ ops \subseteq Op
  /\ \A o, p \in ops : o.no <= started /\ (o.no = p.no => o = p)
  /\ started \in 0..MaxOps

\* When nothing is under way a memorised listing is what the directory holds: it is
\* dropped by every operation that changes the directory.
ListingFresh == ops = {} /\ Unlocked /\ listed => listCache = Entries(Host)

\* A proxy keeps its host and its type.
NoRename == \A i \in Id : \A g, h \in HostOf[i] : g = h

\* A proxy is found only where it may be.
Homes ==
  /\ \A h \in Host : \A e \in file[h] : h \in HostOf[e.id]
  /\ \A x \in idIndex : x[2] \in HostOf[x[1]]
  /\ \A x \in listCache : x[1] \in HostOf[x[2].id]
  /\ \A o \in ops : {o.host, o.path} \subseteq HostOf[o.id] \cup {None}

\* The file at this path may have changed and the listing is yet to be dropped for it.
Due(h) == \E o \in ops : /\ o.pc \in {"check", "clear", "index", "forget"}
                        /\ h \in {Where(o), StemOf[Where(o)]}

\* Where the listing, or the one a rebuild is about to make, is not what the directory
\* holds, the operation that changed it is not over.
ListingInv ==
  /\ TypeOK /\ Homes
  /\ listed => \A h \in Host : Due(h) \/ \A e \in Envelope : <<h, e>> \in listCache <=> e \in file[h]
  /\ build.held => \A h \in Host : Due(h) \/ h \in build.names \/ file[h] = {}

\* A deletion that ends has removed every file of its proxy from the directory.
DeleteRemoves ==
  [][\A o \in ops :
       o.kind = "delete" /\ (\A p \in ops' : p.no # o.no)
         => \A h \in Host, e \in Envelope : e \in file'[h] => e.id # o.id]_vars

Present(i) == \E h \in Host, e \in Envelope : e \in file[h] /\ e.id = i

\* What the comments of WriteProd and DeleteProdByID lead one to expect (store.go:356): a
\* proxy's last file leaves the directory only under a deletion of that proxy.  False: the
\* deletion of a TCP or UDP proxy also removes the file of an HTTP proxy of the same host.
OnlyDeletedGoes ==
  [][\A i \in Id :
       Present(i) /\ ~Present(i)' => \E o \in ops : o.kind = "delete" /\ o.id = i]_vars

=================================================================================
