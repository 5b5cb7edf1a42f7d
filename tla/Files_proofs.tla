------------------------------- MODULE Files_proofs -------------------------------
(***************************************************************************)
(* Proofs about ProxyStore and DiskCache: what the listing of the proxies    *)
(* says follows the files, and a cached answer is only given for the header  *)
(* it varies on, for any proxies, hosts, goroutines and responses.           *)
(***************************************************************************)
EXTENDS MCFiles, TLAPS

---------------------------------------------------------------------------
(* The file store of the configured proxies *)

HostOrNone == Host \cup {None}

LEMMA StoreBounds ==
  /\ MaxOps \in Nat /\ \A i \in Id : HostOf[i] \subseteq Host
  /\ None \notin Host /\ Host \subseteq Nat
  /\ \A h \in HostOrNone : StemOf[h] \in HostOrNone
BY HostAssumption, StoreAssumption, StemAssumption DEF HostOrNone

\* What the fields of an operation are.
LEMMA OpFields ==
  ASSUME NEW o \in Op
  PROVE  /\ o.no \in 1..MaxOps /\ o.id \in Id /\ o.path \in HostOrNone /\ o.left \in 0..2
         /\ o.kind \in {"promote", "adopt", "delete"}
         /\ o.kind # "delete" => o.host \in Host /\ o.pc \in WriteStep
         /\ o.kind = "delete" => o.host = None /\ o.pc \in DeleteStep
         /\ o.pc \in {"check", "clear"} => o.left > 0
         /\ Where(o) \in HostOrNone
BY DEF Op, HostOrNone, Where

StepsOf(o) == IF o.kind = "delete" THEN DeleteStep ELSE WriteStep

\* An operation goes on to one of its own steps, with a path or without.
LEMMA OpSteps ==
  ASSUME NEW o \in Op, NEW pc \in StepsOf(o), NEW path \in HostOrNone,
         pc \in {"check", "clear"} => o.left > 0
  PROVE  /\ [o EXCEPT !.pc = pc] \in Op
         /\ [o EXCEPT !.path = path, !.pc = pc] \in Op
         /\ [o EXCEPT !.pc = pc, !.path = path] \in Op
<1>1. CASE o.kind = "delete"
  <2>1. o \in [no : 1..MaxOps, kind : {"delete"}, id : Id, host : {None},
               path : Host \cup {None}, left : 0..2, pc : DeleteStep]
    BY <1>1 DEF Op
  <2> QED BY <1>1, <2>1 DEF Op, HostOrNone, StepsOf
<1>2. CASE o.kind # "delete"
  <2>1. o \in [no : 1..MaxOps, kind : {"promote", "adopt"}, id : Id, host : Host,
               path : Host \cup {None}, left : 0..2, pc : WriteStep]
    BY <1>2 DEF Op
  <2> QED BY <1>2, <2>1 DEF Op, HostOrNone, StepsOf
<1> QED BY <1>1, <1>2

\* It goes on to clear what is left of its obsolete paths, or to tell.
LEMMA ToClearSteps ==
  ASSUME NEW o \in Op, NEW n \in 0..2
  PROVE  /\ ToClear(o, n) \in Op
         /\ ToClear(o, n).id = o.id /\ ToClear(o, n).no = o.no /\ ToClear(o, n).kind = o.kind
         /\ ToClear(o, n).host = o.host /\ ToClear(o, n).path = o.path
         /\ ToClear(o, n).pc \in {"check", "clear", "index", "forget"}
<1>1. CASE o.kind = "delete"
  <2>1. o \in [no : 1..MaxOps, kind : {"delete"}, id : Id, host : {None},
               path : Host \cup {None}, left : 0..2, pc : DeleteStep]
    BY <1>1 DEF Op
  <2>2. ToClear(o, n) = [o EXCEPT !.left = n, !.pc = IF n = 0 THEN "forget" ELSE "clear"]
    BY <1>1 DEF ToClear
  <2>3. CASE n = 0
    <3>1. ToClear(o, n) = [o EXCEPT !.left = n, !.pc = "forget"]
      BY <2>2, <2>3
    <3>2. ToClear(o, n) \in
            [no : 1..MaxOps, kind : {"delete"}, id : Id, host : {None},
                    path : Host \cup {None}, left : 0..2, pc : DeleteStep]
      BY <2>1, <3>1 DEF DeleteStep
    <3>3. ToClear(o, n) \in Op
      BY <1>1, <2>1, <3>1, <3>2 DEF Op
    <3> QED BY <2>1, <3>1, <3>3
  <2>4. CASE n # 0
    <3>1. ToClear(o, n) = [o EXCEPT !.left = n, !.pc = "clear"]
      BY <2>2, <2>4
    <3>2. ToClear(o, n) \in
            [no : 1..MaxOps, kind : {"delete"}, id : Id, host : {None},
                    path : Host \cup {None}, left : 0..2, pc : DeleteStep]
      BY <2>1, <3>1 DEF DeleteStep
    <3>3. ToClear(o, n).left > 0
      BY <2>1, <2>4, <3>1
    <3>4. ToClear(o, n) \in Op
      BY <3>2, <3>3 DEF Op
    <3> QED BY <2>1, <3>1, <3>4
  <2> QED BY <2>3, <2>4
<1>2. CASE o.kind # "delete"
  <2>1. o \in [no : 1..MaxOps, kind : {"promote", "adopt"}, id : Id, host : Host,
               path : Host \cup {None}, left : 0..2, pc : WriteStep]
    BY <1>2 DEF Op
  <2>2. ToClear(o, n) = [o EXCEPT !.left = n, !.pc = IF n = 0 THEN "index" ELSE "check"]
    BY <1>2 DEF ToClear
  <2>3. CASE n = 0
    <3>1. ToClear(o, n) = [o EXCEPT !.left = n, !.pc = "index"]
      BY <2>2, <2>3
    <3>2. ToClear(o, n) \in
            [no : 1..MaxOps, kind : {"promote", "adopt"}, id : Id, host : Host,
                    path : Host \cup {None}, left : 0..2, pc : WriteStep]
      BY <2>1, <3>1 DEF WriteStep
    <3>3. ToClear(o, n) \in Op
      BY <1>2, <2>1, <3>1, <3>2 DEF Op
    <3> QED BY <2>1, <3>1, <3>3
  <2>4. CASE n # 0
    <3>1. ToClear(o, n) = [o EXCEPT !.left = n, !.pc = "check"]
      BY <2>2, <2>4
    <3>2. ToClear(o, n) \in
            [no : 1..MaxOps, kind : {"promote", "adopt"}, id : Id, host : Host,
                    path : Host \cup {None}, left : 0..2, pc : WriteStep]
      BY <2>1, <3>1 DEF WriteStep
    <3>3. ToClear(o, n).left > 0
      BY <2>1, <2>4, <3>1
    <3>4. ToClear(o, n) \in Op
      BY <3>2, <3>3 DEF Op
    <3> QED BY <2>1, <3>1, <3>4
  <2> QED BY <2>3, <2>4
<1> QED BY <1>1, <1>2

\* The index a rebuild makes: one path of each proxy, where a file of it is.
LEMMA IndexTypes ==
  ASSUME NEW entries \in SUBSET (Host \X Envelope)
  PROVE  /\ IndexOf(entries) \subseteq Id \X Host
         /\ \A x, y \in IndexOf(entries) : x[1] = y[1] => x = y
         /\ \A x \in IndexOf(entries) : \E e \in Envelope : e.id = x[1] /\ <<x[2], e>> \in entries
<1>1. IndexOf(entries) \subseteq Id \X Host
  BY DEF IndexOf
<1>2. ASSUME NEW x \in IndexOf(entries)
      PROVE  /\ x[1] \in Id /\ x[2] \in Host /\ x = <<x[1], x[2]>>
             /\ \E e \in Envelope : e.id = x[1] /\ <<x[2], e>> \in entries
             /\ \A z \in entries : z[2].id = x[1] => z[1] <= x[2]
  BY DEF IndexOf
<1>3. ASSUME NEW x \in IndexOf(entries), NEW y \in IndexOf(entries), x[1] = y[1]
      PROVE  x = y
  <2>1. PICK d \in Envelope : d.id = x[1] /\ <<x[2], d>> \in entries
    BY <1>2
  <2>2. PICK e \in Envelope : e.id = y[1] /\ <<y[2], e>> \in entries
    BY <1>2
  <2>3. x[2] <= y[2]
    <3> DEFINE z == <<x[2], d>>
    <3>1. z \in entries /\ z[2].id = y[1] /\ z[1] = x[2]
      BY <2>1, <1>3
    <3> HIDE DEF z
    <3> QED BY <1>2, <3>1
  <2>4. y[2] <= x[2]
    <3> DEFINE z == <<y[2], e>>
    <3>1. z \in entries /\ z[2].id = x[1] /\ z[1] = y[2]
      BY <2>2, <1>3
    <3> HIDE DEF z
    <3> QED BY <1>2, <3>1
  <2>5. x[2] = y[2]
    BY <1>2, <2>3, <2>4, StoreBounds
  <2> QED BY <1>2, <1>3, <2>5
<1> QED BY <1>1, <1>2, <1>3

\* What is read of the directory.
LEMMA EntriesTypes ==
  ASSUME TypeOK, Homes, NEW names \in SUBSET Host
  PROVE  /\ Entries(names) \in SUBSET (Host \X Envelope)
         /\ \A x \in Entries(names) : x[1] \in HostOf[x[2].id]
         /\ \A h \in Host, e \in Envelope : <<h, e>> \in Entries(names) <=> h \in names /\ e \in file[h]
<1>1. Entries(names) \subseteq names \X Envelope
  BY DEF Entries
<1>2. \A h \in Host, e \in Envelope : <<h, e>> \in Entries(names) <=> h \in names /\ e \in file[h]
  BY DEF Entries
<1>3. ASSUME NEW x \in Entries(names) PROVE x[1] \in HostOf[x[2].id]
  <2>1. x[1] \in Host /\ x[2] \in file[x[1]]
    BY DEF Entries
  <2> QED BY <2>1 DEF Homes
<1> QED BY <1>1, <1>2, <1>3

\* TypeOK and Homes, by what they are about.
DirOK ==
  /\ file \in [Host -> SUBSET Envelope]
  /\ \A h \in Host : \A d, e \in file[h] : d = e
  /\ \A h \in Host : \A e \in file[h] : h \in HostOf[e.id]
IndexOK ==
  /\ indexed \in BOOLEAN /\ idIndex \subseteq Id \X Host
  /\ \A x, y \in idIndex : x[1] = y[1] => x = y
  /\ \A x \in idIndex : x[2] \in HostOf[x[1]]
ListOK ==
  /\ listed \in BOOLEAN /\ listCache \subseteq Host \X Envelope
  /\ \A x \in listCache : x[1] \in HostOf[x[2].id]
OpsOK ==
  /\ ops \subseteq Op /\ started \in 0..MaxOps
  /\ \A o, p \in ops : o.no <= started /\ (o.no = p.no => o = p)
  /\ \A o \in ops : {o.host, o.path} \subseteq HostOf[o.id] \cup {None}
BuildOK ==
  /\ build \in Build /\ (Unlocked => build = Free)
  /\ build.by \in {ForList} \cup {o.no : o \in {p \in ops : p.pc = "lookup"}}
StoreOK == DirOK /\ IndexOK /\ ListOK /\ OpsOK /\ BuildOK

LEMMA StoreParts == TypeOK /\ Homes <=> StoreOK
BY DEF TypeOK, Homes, StoreOK, DirOK, IndexOK, ListOK, OpsOK, BuildOK

LEMMA OpsMove ==
  ASSUME OpsOK, NEW o \in ops, NEW p \in Op, p.id = o.id, p.no = o.no,
         {p.host, p.path} \subseteq HostOf[o.id] \cup {None}, Moves(o, p), started' = started
  PROVE  OpsOK'
BY DEF OpsOK, Moves

LEMMA OpsEnd ==
  ASSUME OpsOK, NEW o \in ops, Ends(o), started' = started
  PROVE  OpsOK'
BY DEF OpsOK, Ends

\* The rebuild under way is for a lookup that is still there.
LEMMA BuildKept ==
  ASSUME BuildOK, build' = build, Unlocked \/ \A x \in ops : x.pc = "lookup" => x \in ops'
  PROVE  BuildOK'
<1>1. CASE Unlocked
  BY <1>1 DEF BuildOK, Unlocked, Free
<1>2. CASE \A x \in ops : x.pc = "lookup" => x \in ops'
  <2>1. build.by \in {ForList} \cup {o.no : o \in {p \in ops' : p.pc = "lookup"}}
    BY <1>2 DEF BuildOK
  <2> QED BY <2>1 DEF BuildOK, Unlocked
<1> QED BY <1>1, <1>2

\* An operation that may have changed the directory, and is yet to tell.
Telling(o) == o.pc \in {"check", "clear", "index", "forget"}

LEMMA DueKept ==
  ASSUME NEW h, Due(h), \A x \in ops : Telling(x) => x \in ops'
  PROVE  Due(h)'
BY DEF Due, Telling

\* The part of ListingInv that relates the listing to the directory.
Listing ==
  /\ listed => \A h \in Host : Due(h) \/ \A e \in Envelope : <<h, e>> \in listCache <=> e \in file[h]
  /\ build.held => \A h \in Host : Due(h) \/ h \in build.names \/ file[h] = {}

LEMMA ListingKept ==
  ASSUME Listing, UNCHANGED <<file, listCache, listed, build>>,
         \A x \in ops : Telling(x) => x \in ops'
  PROVE  Listing'
BY DueKept DEF Listing

\* The listing is dropped while no rebuild is under way.
LEMMA ListingDropped ==
  ASSUME Unlocked, build' = build, listed' = FALSE
  PROVE  Listing'
BY DEF Listing, Unlocked

---------------------------------------------------------------------------

LEMMA StartBuildStep ==
  ASSUME StoreOK, NEW by, StartBuild(by),
         by \in {ForList} \cup {o.no : o \in {p \in ops : p.pc = "lookup"}}
  PROVE  StoreOK' /\ (Listing => Listing')
<1> DEFINE names == {h \in Host : file[h] # {}}
<1>1. build' = [held |-> TRUE, by |-> by, names |-> names]
      /\ UNCHANGED <<file, idIndex, indexed, listCache, listed, ops, started>>
  BY DEF StartBuild
<1>2. by \in 0..MaxOps
  <2>1. \A o \in ops : o.no \in 0..MaxOps
    BY OpFields, StoreBounds DEF StoreOK, OpsOK
  <2> QED BY <2>1, StoreBounds DEF ForList
<1>3. names \subseteq Host
  OBVIOUS
<1> HIDE DEF names
<1>4. build' \in Build /\ build'.held = TRUE /\ build'.by = by /\ build'.names = names
  BY <1>1, <1>2, <1>3 DEF Build
<1>5. BuildOK'
  BY <1>1, <1>4 DEF BuildOK, Unlocked
<1>6. Listing => Listing'
  <2> SUFFICES ASSUME Listing PROVE Listing'
    OBVIOUS
  <2>1. \A h \in Host : h \in build'.names \/ file[h] = {}
    BY <1>4 DEF names
  <2>2. \A h \in Host : Due(h) <=> Due(h)'
    BY <1>1 DEF Due
  <2> QED BY <1>1, <2>1, <2>2 DEF Listing
<1> QED BY <1>1, <1>5, <1>6 DEF StoreOK, DirOK, IndexOK, ListOK, OpsOK

\* What a lookup makes of the operation when it finds this path, or none.
LEMMA AnsweredOps ==
  ASSUME OpsOK, NEW o \in ops, o.pc = "lookup", NEW path \in HostOf[o.id] \cup {None},
         Answered(o, path), started' = started
  PROVE  /\ OpsOK'
         /\ \A x \in ops : x.pc # "lookup" => x \in ops'
<1>1. o \in Op /\ o.id \in Id /\ {o.host, o.path} \subseteq HostOf[o.id] \cup {None}
  BY OpFields DEF OpsOK
<1>2. CASE Ends(o)
  BY <1>2, OpsEnd DEF Ends
<1>3. CASE Moves(o, AfterLookup(o, path)) /\ (path # None \/ o.kind # "delete")
  <2> DEFINE pc == IF path # None THEN "read" ELSE "write"
             p == [o EXCEPT !.path = path, !.pc = pc]
  <2>1. Moves(o, p)
    BY <1>3 DEF AfterLookup
  <2>2. path \in HostOrNone
    BY <1>1, StoreBounds DEF HostOrNone
  <2>3. pc \in StepsOf(o) /\ pc \notin {"check", "clear"}
    BY <1>3 DEF StepsOf, WriteStep, DeleteStep
  <2> HIDE DEF pc
  <2>4. p \in Op
    BY <1>1, <2>2, <2>3, OpSteps
  <2>5. p.id = o.id /\ p.no = o.no /\ p.host = o.host /\ p.path = path
    BY <1>1 DEF Op
  <2> HIDE DEF p
  <2>6. OpsOK'
    BY <1>1, <2>1, <2>4, <2>5, OpsMove
  <2> QED BY <2>1, <2>6 DEF Moves
<1> QED BY <1>2, <1>3 DEF Answered

LEMMA BuildReadStep ==
  ASSUME StoreOK, BuildRead
  PROVE  StoreOK' /\ (Listing => Listing')
<1> DEFINE entries == Entries(build.names)
<1>1. /\ idIndex' = IndexOf(entries) /\ indexed' = TRUE
      /\ listCache' = entries /\ listed' = TRUE
      /\ build' = Free /\ UNCHANGED <<file, started>> /\ build.held
  BY DEF BuildRead, Unlocked
<1>2. build.names \in SUBSET Host
  BY DEF StoreOK, BuildOK, Build
<1>3. /\ entries \in SUBSET (Host \X Envelope)
      /\ \A x \in entries : x[1] \in HostOf[x[2].id]
      /\ \A h \in Host, e \in Envelope : <<h, e>> \in entries <=> h \in build.names /\ e \in file[h]
  BY <1>2, EntriesTypes, StoreParts
<1> HIDE DEF entries
<1>4. IndexOK'
  <2>1. /\ IndexOf(entries) \subseteq Id \X Host
        /\ \A x, y \in IndexOf(entries) : x[1] = y[1] => x = y
        /\ \A x \in IndexOf(entries) : \E e \in Envelope : e.id = x[1] /\ <<x[2], e>> \in entries
    BY <1>3, IndexTypes
  <2>2. ASSUME NEW x \in IndexOf(entries) PROVE x[2] \in HostOf[x[1]]
    <3>1. PICK e \in Envelope : e.id = x[1] /\ <<x[2], e>> \in entries
      BY <2>1
    <3> DEFINE y == <<x[2], e>>
    <3>2. y \in entries /\ y[1] = x[2] /\ y[2].id = x[1]
      BY <3>1
    <3> HIDE DEF y
    <3> QED BY <1>3, <3>2
  <2> QED BY <1>1, <2>1, <2>2 DEF IndexOK
<1>5. ListOK'
  BY <1>1, <1>3 DEF ListOK
<1>6. OpsOK' /\ \A x \in ops : x.pc # "lookup" => x \in ops'
  <2>1. CASE UNCHANGED ops
    BY <1>1, <2>1 DEF StoreOK, OpsOK
  <2>2. CASE ~UNCHANGED ops
    <3>1. PICK o \in ops :
            /\ o.no = build.by
            /\ LET found == {h \in Host : <<o.id, h>> \in idIndex'} IN
               Answered(o, IF found = {} THEN None ELSE CHOOSE h \in found : TRUE)
      BY <2>2 DEF BuildRead
    <3> DEFINE found == {h \in Host : <<o.id, h>> \in idIndex'}
               path == IF found = {} THEN None ELSE CHOOSE h \in found : TRUE
    <3>2. path \in HostOf[o.id] \cup {None}
      <4>1. \A h \in found : h \in HostOf[o.id]
        BY <1>4 DEF IndexOK
      <4> QED BY <4>1
    <3>3. Answered(o, path)
      BY <3>1
    <3>4. o.pc = "lookup"
      <4>1. build.by # ForList
        BY <3>1, OpFields DEF StoreOK, OpsOK, ForList
      <4>2. PICK p \in ops : p.pc = "lookup" /\ p.no = build.by
        BY <4>1 DEF StoreOK, BuildOK
      <4>3. p = o
        BY <3>1, <4>2 DEF StoreOK, OpsOK
      <4> QED BY <4>2, <4>3
    <3> HIDE DEF path
    <3> QED BY <1>1, <3>2, <3>3, <3>4, AnsweredOps DEF StoreOK
  <2> QED BY <2>1, <2>2
<1>7. BuildOK'
  <2>1. Free \in Build /\ Free.by = ForList
    BY StoreBounds DEF Free, Build, ForList
  <2> QED BY <1>1, <2>1 DEF BuildOK
<1>8. Listing => Listing'
  <2> SUFFICES ASSUME Listing PROVE Listing'
    OBVIOUS
  <2>1. ~build'.held
    BY <1>1 DEF Free
  <2>2. ASSUME NEW h \in Host, ~Due(h)'
        PROVE  \A e \in Envelope : <<h, e>> \in entries <=> e \in file[h]
    <3>1. ~Due(h)
      BY <1>6, <2>2, DueKept DEF Telling
    <3>2. h \in build.names \/ file[h] = {}
      BY <1>1, <3>1 DEF Listing
    <3> QED BY <1>3, <3>2
  <2> QED BY <1>1, <2>1, <2>2 DEF Listing
<1> QED BY <1>1, <1>4, <1>5, <1>6, <1>7, <1>8 DEF StoreOK, DirOK

LEMMA LookupStep ==
  ASSUME StoreOK, NEW o \in ops, Lookup(o)
  PROVE  StoreOK' /\ (Listing => Listing')
<1> DEFINE path == PathOf(o.id)
<1>1. /\ o.pc = "lookup" /\ Unlocked /\ Answered(o, path)
      /\ UNCHANGED <<file, idIndex, indexed, listCache, listed, build, started>>
  BY DEF Lookup
<1>2. path \in HostOf[o.id] \cup {None}
  <2> DEFINE found == {h \in Host : <<o.id, h>> \in idIndex}
  <2>1. \A h \in found : h \in HostOf[o.id]
    BY DEF StoreOK, IndexOK
  <2>2. path = IF found = {} THEN None ELSE CHOOSE h \in Host : <<o.id, h>> \in idIndex
    BY DEF PathOf
  <2>3. found # {} => path \in found
    BY <2>2
  <2> HIDE DEF found, path
  <2> QED BY <2>1, <2>2, <2>3
<1> HIDE DEF path
<1>3. OpsOK' /\ \A x \in ops : x.pc # "lookup" => x \in ops'
  BY <1>1, <1>2, AnsweredOps DEF StoreOK
<1>4. BuildOK'
  BY <1>1, BuildKept DEF StoreOK
<1>5. Listing => Listing'
  BY <1>1, <1>3, ListingKept DEF Telling
<1> QED BY <1>1, <1>3, <1>4, <1>5 DEF StoreOK, DirOK, IndexOK, ListOK

LEMMA ReadStep ==
  ASSUME StoreOK, NEW o \in ops, Read(o)
  PROVE  StoreOK' /\ (Listing => Listing')
<1>1. o \in Op /\ o.pc = "read" /\ {o.host, o.path} \subseteq HostOf[o.id] \cup {None}
      /\ UNCHANGED <<file, listCache, listed, build, started>>
  BY DEF Read, StoreOK, OpsOK
<1>2. IndexOK'
  BY DEF Read, StoreOK, IndexOK
<1>3. \/ Ends(o)
      \/ o.kind = "delete" /\ Moves(o, [o EXCEPT !.pc = "remove"])
      \/ o.kind # "delete" /\ \E path \in {o.path, None} : Moves(o, [o EXCEPT !.pc = "write", !.path = path])
  <2>1. CASE file[o.path] # {} /\ o.kind # "delete"
    <3> DEFINE path == IF \E e \in file[o.path] : e.id = o.id THEN o.path ELSE None
    <3>1. Moves(o, [o EXCEPT !.pc = "write", !.path = path])
      BY <2>1 DEF Read
    <3>2. path \in {o.path, None}
      OBVIOUS
    <3> HIDE DEF path
    <3> QED BY <2>1, <3>1, <3>2
  <2>2. CASE file[o.path] # {} /\ o.kind = "delete"
    BY <2>2 DEF Read
  <2>3. CASE file[o.path] = {}
    BY <2>3 DEF Read
  <2> QED BY <2>1, <2>2, <2>3
<1>4. OpsOK' /\ \A x \in ops : x # o => x \in ops'
  <2>1. CASE Ends(o)
    BY <1>1, <2>1, OpsEnd DEF StoreOK, Ends
  <2>2. CASE o.kind = "delete" /\ Moves(o, [o EXCEPT !.pc = "remove"])
    <3> DEFINE p == [o EXCEPT !.pc = "remove"]
    <3>1. p \in Op
      BY <1>1, <2>2, OpSteps, OpFields DEF StepsOf, DeleteStep
    <3>2. p.id = o.id /\ p.no = o.no /\ p.host = o.host /\ p.path = o.path
      BY <1>1 DEF Op
    <3>3. Moves(o, p)
      BY <2>2
    <3> HIDE DEF p
    <3> QED BY <1>1, <3>1, <3>2, <3>3, OpsMove DEF StoreOK, Moves
  <2>3. ASSUME o.kind # "delete", NEW path \in {o.path, None}, Moves(o, [o EXCEPT !.pc = "write", !.path = path])
        PROVE  OpsOK' /\ \A x \in ops : x # o => x \in ops'
    <3> DEFINE p == [o EXCEPT !.pc = "write", !.path = path]
    <3>0. path \in HostOrNone
      BY <1>1, OpFields DEF HostOrNone
    <3>1. p \in Op
      BY <1>1, <2>3, <3>0, OpSteps DEF StepsOf, WriteStep
    <3>2. p.id = o.id /\ p.no = o.no /\ p.host = o.host /\ p.path = path
      BY <1>1 DEF Op
    <3>3. Moves(o, p)
      BY <2>3
    <3> HIDE DEF p
    <3> QED BY <1>1, <3>1, <3>2, <3>3, OpsMove DEF StoreOK, Moves
  <2> QED BY <1>3, <2>1, <2>2, <2>3
<1>5. BuildOK'
  BY <1>1, <1>4, BuildKept DEF StoreOK
<1>6. Listing => Listing'
  BY <1>1, <1>4, ListingKept DEF Telling
<1> QED BY <1>1, <1>2, <1>4, <1>5, <1>6 DEF StoreOK, DirOK, ListOK

LEMMA StartStep ==
  ASSUME StoreOK, NEW o \in Op, o.no = started + 1,
         {o.host, o.path} \subseteq HostOf[o.id] \cup {None}, Start(o)
  PROVE  StoreOK' /\ (Listing => Listing')
<1>1. /\ started < MaxOps /\ started' = started + 1 /\ ops' = ops \cup {o}
      /\ UNCHANGED <<file, idIndex, indexed, listCache, listed, build>>
  BY DEF Start
<1>2. OpsOK'
  <2>1. \A p \in ops : p.no <= started /\ p.no \in Nat
    BY OpFields DEF StoreOK, OpsOK
  <2>2. started \in Nat /\ started' \in 0..MaxOps
    BY <1>1, StoreBounds DEF StoreOK, OpsOK
  <2>3. \A p, q \in ops' : p.no <= started' /\ (p.no = q.no => p = q)
    BY <1>1, <2>1, <2>2 DEF StoreOK, OpsOK
  <2> QED BY <1>1, <2>2, <2>3 DEF StoreOK, OpsOK
<1>3. BuildOK' /\ (Listing => Listing')
  BY <1>1, BuildKept, ListingKept DEF StoreOK
<1> QED BY <1>1, <1>2, <1>3 DEF StoreOK, DirOK, IndexOK, ListOK

LEMMA StartsStep ==
  ASSUME StoreOK, NEW i \in Id,
         StartDelete(i) \/ \E h \in HostOf[i] : StartPromote(i, h) \/ StartAdopt(i, h)
  PROVE  StoreOK' /\ (Listing => Listing')
<1>n. started < MaxOps => started + 1 \in 1..MaxOps
  BY StoreBounds DEF StoreOK, OpsOK
<1>1. CASE StartDelete(i)
  <2> DEFINE o == [no |-> started + 1, kind |-> "delete", id |-> i, host |-> None,
                   path |-> None, left |-> 0, pc |-> "lookup"]
  <2>1. Start(o) /\ started < MaxOps
    BY <1>1 DEF StartDelete, Start
  <2>2. o \in Op /\ o.no = started + 1 /\ o.host = None /\ o.path = None
    BY <1>n, <2>1 DEF Op, DeleteStep, WriteStep
  <2> HIDE DEF o
  <2> QED BY <2>1, <2>2, StartStep
<1>2. ASSUME NEW h \in HostOf[i], StartPromote(i, h) PROVE StoreOK' /\ (Listing => Listing')
  <2> DEFINE o == [no |-> started + 1, kind |-> "promote", id |-> i, host |-> h,
                   path |-> None, left |-> 0, pc |-> "lookup"]
  <2>1. Start(o) /\ started < MaxOps /\ h \in Host
    BY <1>2, StoreBounds DEF StartPromote, Start
  <2>2. o \in Op /\ o.no = started + 1 /\ o.id = i /\ o.host = h /\ o.path = None
    BY <1>n, <2>1 DEF Op, DeleteStep, WriteStep
  <2> HIDE DEF o
  <2> QED BY <2>1, <2>2, StartStep
<1>3. ASSUME NEW h \in HostOf[i], StartAdopt(i, h) PROVE StoreOK' /\ (Listing => Listing')
  <2> DEFINE path == ListedPath(i)
             o == [no |-> started + 1, kind |-> "adopt", id |-> i, host |-> h,
                   path |-> path, left |-> 0, pc |-> "write"]
  <2>1. Start(o) /\ started < MaxOps /\ h \in Host
    BY <1>3, StoreBounds DEF StartAdopt, Start
  <2>2. path \in HostOf[i] \cup {None}
    <3> DEFINE index == IndexOf(listCache)
    <3>1. \A x \in index : \E e \in Envelope : e.id = x[1] /\ <<x[2], e>> \in listCache
      BY IndexTypes DEF StoreOK, ListOK
    <3>2. ASSUME NEW g \in Host, <<i, g>> \in index PROVE g \in HostOf[i]
      <4> DEFINE x == <<i, g>>
      <4>1. PICK e \in Envelope : e.id = x[1] /\ <<x[2], e>> \in listCache
        BY <3>1, <3>2
      <4> DEFINE y == <<x[2], e>>
      <4>2. y \in listCache /\ y[1] = g /\ y[2].id = i
        BY <4>1
      <4> HIDE DEF y
      <4> QED BY <4>2 DEF StoreOK, ListOK
    <3>3. path = IF \E g \in Host : <<i, g>> \in index
                 THEN CHOOSE g \in Host : <<i, g>> \in index ELSE None
      BY DEF ListedPath
    <3> HIDE DEF index, path
    <3> QED BY <3>2, <3>3
  <2> HIDE DEF path
  <2>3. path \in Host \cup {None}
    BY <2>2, StoreBounds
  <2>4. o \in Op /\ o.no = started + 1 /\ o.id = i /\ o.host = h /\ o.path = path
    BY <1>n, <2>1, <2>3 DEF Op, WriteStep
  <2> HIDE DEF o
  <2> QED BY <2>1, <2>2, <2>4, StartStep
<1> QED BY <1>1, <1>2, <1>3

\* The steps of an operation that already has its path.
LEMMA OpGoesOn ==
  ASSUME StoreOK, NEW o \in ops, NEW p \in Op, o.pc # "lookup", Moves(o, p), started' = started,
         p.id = o.id, p.no = o.no, p.host = o.host, p.path = o.path
  PROVE  /\ OpsOK'
         /\ \A x \in ops : x # o => x \in ops'
         /\ p \in ops'
         /\ build' = build => BuildOK'
<1>1. o \in Op /\ {o.host, o.path} \subseteq HostOf[o.id] \cup {None}
  BY OpFields DEF StoreOK, OpsOK
<1>2. OpsOK' /\ \A x \in ops : x # o => x \in ops'
  BY <1>1, OpsMove DEF StoreOK, Moves
<1>3. build' = build => BuildOK'
  BY <1>2, BuildKept DEF StoreOK
<1> QED BY <1>2, <1>3 DEF Moves

\* An operation that has changed a path tells of it later.
LEMMA ToldLater ==
  ASSUME StoreOK, NEW o \in ops, o.pc # "lookup", NEW n \in 0..2, Moves(o, ToClear(o, n)),
         UNCHANGED <<idIndex, indexed, listCache, listed, build, started>>,
         NEW g \in {Where(o), StemOf[Where(o)]}, DirOK',
         \A h \in Host \ {g} : file'[h] = file[h]
  PROVE  StoreOK' /\ (Listing => Listing')
<1> DEFINE p == ToClear(o, n)
<1>1. o \in Op /\ g \in HostOrNone
  BY OpFields, StoreBounds DEF StoreOK, OpsOK
<1>2. /\ p \in Op /\ p.id = o.id /\ p.no = o.no /\ p.kind = o.kind /\ p.host = o.host
      /\ p.path = o.path /\ p.pc \in {"check", "clear", "index", "forget"}
  BY <1>1, ToClearSteps
<1>3. Where(p) = Where(o)
  BY <1>2 DEF Where
<1>4. Moves(o, p)
  OBVIOUS
<1> HIDE DEF p
<1>5. /\ OpsOK' /\ BuildOK' /\ p \in ops'
      /\ \A x \in ops : x # o => x \in ops'
  BY <1>1, <1>2, <1>4, OpGoesOn
<1>6. \A h : Due(h) => Due(h)'
  <2> SUFFICES ASSUME NEW h, Due(h) PROVE Due(h)'
    OBVIOUS
  <2>1. PICK x \in ops : Telling(x) /\ h \in {Where(x), StemOf[Where(x)]}
    BY DEF Due, Telling
  <2>2. CASE x = o
    BY <1>2, <1>3, <1>5, <2>1, <2>2 DEF Due
  <2>3. CASE x # o
    BY <1>5, <2>1, <2>3 DEF Due, Telling
  <2> QED BY <2>2, <2>3
<1>7. Due(g)'
  BY <1>2, <1>3, <1>5 DEF Due
<1>8. Listing => Listing'
  BY <1>6, <1>7 DEF Listing
<1> QED BY <1>5, <1>8 DEF StoreOK, IndexOK, ListOK

LEMMA WriteFileStep ==
  ASSUME StoreOK, NEW o \in ops, WriteFile(o)
  PROVE  StoreOK' /\ (Listing => Listing')
<1> DEFINE e == [id |-> o.id, ver |-> o.no]
           h == o.host
<1>1. /\ o.pc = "write" /\ file' = [file EXCEPT ![h] = {e}]
      /\ Moves(o, ToClear(o, Obsolete(h)))
      /\ UNCHANGED <<idIndex, indexed, listCache, listed, build, started>>
  BY DEF WriteFile
<1>2. o \in Op /\ o.kind # "delete" /\ h \in Host /\ h \in HostOf[o.id] /\ e \in Envelope /\ e.id = o.id
  BY <1>1, OpFields, StoreBounds DEF StoreOK, OpsOK, Envelope, DeleteStep
<1>3. h = Where(o) /\ Obsolete(h) \in 0..2
  BY <1>2 DEF Where, Obsolete
<1> HIDE DEF e, h
<1>4. DirOK'
  BY <1>1, <1>2 DEF StoreOK, DirOK
<1>5. \A g \in Host \ {h} : file'[g] = file[g]
  BY <1>1 DEF StoreOK, DirOK
<1> QED BY <1>1, <1>3, <1>4, <1>5, ToldLater

LEMMA CheckObsoleteStep ==
  ASSUME StoreOK, NEW o \in ops, CheckObsolete(o)
  PROVE  StoreOK' /\ (Listing => Listing')
<1>1. /\ o.pc = "check"
      /\ UNCHANGED <<file, idIndex, indexed, listCache, listed, build, started>>
      /\ Moves(o, [o EXCEPT !.pc = "clear"]) \/ Moves(o, ToClear(o, o.left - 1))
  BY DEF CheckObsolete
<1>2. o \in Op /\ o.kind # "delete" /\ o.left \in 0..2 /\ o.left > 0 /\ o.path \in HostOrNone
  BY <1>1, OpFields DEF StoreOK, OpsOK, DeleteStep
<1>3. DirOK'
  BY <1>1 DEF StoreOK, DirOK
<1>4. CASE Moves(o, ToClear(o, o.left - 1))
  <2>1. o.left - 1 \in 0..2
    BY <1>2
  <2> QED BY <1>1, <1>3, <1>4, <2>1, ToldLater
<1>5. CASE Moves(o, [o EXCEPT !.pc = "clear"])
  <2> DEFINE p == [o EXCEPT !.pc = "clear"]
  <2>1. p \in Op
    BY <1>2, OpSteps DEF StepsOf, WriteStep
  <2>2. p.id = o.id /\ p.no = o.no /\ p.host = o.host /\ p.path = o.path /\ p.pc = "clear"
        /\ p.kind = o.kind
    BY <1>2 DEF Op
  <2>3. Moves(o, p)
    BY <1>5
  <2> HIDE DEF p
  <2>4. OpsOK' /\ BuildOK' /\ p \in ops' /\ \A x \in ops : x # o => x \in ops'
    BY <1>1, <2>1, <2>2, <2>3, OpGoesOn
  <2>5. Where(p) = Where(o)
    BY <2>2 DEF Where
  <2>6. \A h : Due(h) => Due(h)'
    BY <2>2, <2>4, <2>5 DEF Due
  <2>7. Listing => Listing'
    BY <1>1, <2>6 DEF Listing
  <2> QED BY <1>1, <1>3, <2>4, <2>7 DEF StoreOK, IndexOK, ListOK
<1> QED BY <1>1, <1>4, <1>5

LEMMA ClearObsoleteStep ==
  ASSUME StoreOK, NEW o \in ops, ClearObsolete(o)
  PROVE  StoreOK' /\ (Listing => Listing')
<1> DEFINE g == StemOf[Where(o)]
<1>1. /\ o.pc = "clear" /\ file' = [file EXCEPT ![g] = {}]
      /\ Moves(o, ToClear(o, o.left - 1))
      /\ UNCHANGED <<idIndex, indexed, listCache, listed, build, started>>
  BY DEF ClearObsolete
<1>2. o.left - 1 \in 0..2
  BY <1>1, OpFields DEF StoreOK, OpsOK
<1>3. g \in {Where(o), StemOf[Where(o)]}
  OBVIOUS
<1> HIDE DEF g
<1>4. DirOK' /\ \A h \in Host \ {g} : file'[h] = file[h]
  BY <1>1 DEF StoreOK, DirOK
<1> QED BY <1>1, <1>2, <1>3, <1>4, ToldLater

LEMMA IndexFileStep ==
  ASSUME StoreOK, NEW o \in ops, IndexFile(o)
  PROVE  StoreOK' /\ (Listing => Listing')
<1>1. /\ o.pc = "index" /\ Unlocked
      /\ idIndex' = (IF indexed THEN Without(o.id) \cup {<<o.id, o.host>>} ELSE {})
      /\ listCache' = {} /\ listed' = FALSE
      /\ Moves(o, [o EXCEPT !.pc = "rename"])
      /\ UNCHANGED <<file, indexed, build, started>>
  BY DEF IndexFile
<1>2. o \in Op /\ o.kind # "delete" /\ o.id \in Id /\ o.host \in Host /\ o.host \in HostOf[o.id]
  BY <1>1, OpFields, StoreBounds DEF StoreOK, OpsOK, DeleteStep
<1>3. OpsOK' /\ BuildOK'
  <2> DEFINE p == [o EXCEPT !.pc = "rename"]
  <2>1. p \in Op
    BY <1>2, OpSteps, OpFields DEF StepsOf, WriteStep
  <2>2. p.id = o.id /\ p.no = o.no /\ p.host = o.host /\ p.path = o.path
    BY <1>2 DEF Op
  <2>3. Moves(o, p)
    BY <1>1
  <2> HIDE DEF p
  <2> QED BY <1>1, <2>1, <2>2, <2>3, OpGoesOn
<1>4. IndexOK'
  BY <1>1, <1>2 DEF StoreOK, IndexOK, Without
<1>5. ListOK'
  BY <1>1 DEF ListOK
<1>6. Listing => Listing'
  BY <1>1, ListingDropped
<1> QED BY <1>1, <1>3, <1>4, <1>5, <1>6 DEF StoreOK, DirOK

LEMMA RemoveRenamedTypes ==
  ASSUME StoreOK, NEW o \in ops, RemoveRenamed(o)
  PROVE  StoreOK'
<1>1. /\ o.pc = "rename" /\ Ends(o)
      /\ UNCHANGED <<idIndex, indexed, listCache, listed, build, started>>
      /\ file' = file \/ file' = [file EXCEPT ![o.path] = {}]
  BY DEF RemoveRenamed
<1>2. DirOK'
  BY <1>1 DEF StoreOK, DirOK
<1>3. OpsOK'
  BY <1>1, OpsEnd DEF StoreOK
<1>4. BuildOK'
  BY <1>1, BuildKept DEF StoreOK, Ends
<1> QED BY <1>1, <1>2, <1>3, <1>4 DEF StoreOK, IndexOK, ListOK

\* Without a change of host there is no previous file to remove.
LEMMA NothingRenamed ==
  ASSUME NoRename, StoreOK, NEW o \in ops, RemoveRenamed(o)
  PROVE  file' = file
<1>1. o.kind # "delete" /\ o.host \in Host /\ o.id \in Id /\ {o.host, o.path} \subseteq HostOf[o.id] \cup {None}
  BY OpFields DEF StoreOK, OpsOK, RemoveRenamed, DeleteStep
<1>2. o.path = None \/ o.path = o.host
  BY <1>1, StoreBounds DEF NoRename
<1> QED BY <1>2, StoreBounds DEF RemoveRenamed

LEMMA RemoveRenamedStep ==
  ASSUME StoreOK, NEW o \in ops, RemoveRenamed(o)
  PROVE  StoreOK' /\ (NoRename /\ Listing => Listing')
<1>1. NoRename => file' = file
  BY NothingRenamed
<1>2. NoRename /\ Listing => Listing'
  BY <1>1, ListingKept DEF RemoveRenamed, Ends, Telling
<1> QED BY <1>2, RemoveRenamedTypes

LEMMA RemoveFileStep ==
  ASSUME StoreOK, NEW o \in ops, RemoveFile(o)
  PROVE  StoreOK' /\ (Listing => Listing')
<1> DEFINE g == o.path
<1>1. /\ o.pc = "remove" /\ file' = [file EXCEPT ![g] = {}]
      /\ Moves(o, ToClear(o, Obsolete(g)))
      /\ UNCHANGED <<idIndex, indexed, listCache, listed, build, started>>
  BY DEF RemoveFile
<1>2. o \in Op /\ o.kind = "delete"
  BY <1>1, OpFields DEF StoreOK, OpsOK, WriteStep
<1>3. g = Where(o) /\ Obsolete(g) \in 0..2
  BY <1>2 DEF Where, Obsolete
<1> HIDE DEF g
<1>4. DirOK' /\ \A h \in Host \ {g} : file'[h] = file[h]
  BY <1>1 DEF StoreOK, DirOK
<1> QED BY <1>1, <1>3, <1>4, ToldLater

LEMMA ForgetStep ==
  ASSUME StoreOK, NEW o \in ops, Forget(o)
  PROVE  StoreOK' /\ (Listing => Listing')
<1>1. /\ o.pc = "forget" /\ Unlocked /\ idIndex' = Without(o.id)
      /\ listCache' = {} /\ listed' = FALSE /\ Ends(o)
      /\ UNCHANGED <<file, indexed, build, started>>
  BY DEF Forget
<1>2. IndexOK'
  BY <1>1 DEF StoreOK, IndexOK, Without
<1>3. OpsOK' /\ BuildOK'
  BY <1>1, OpsEnd, BuildKept DEF StoreOK
<1>4. ListOK' /\ Listing'
  BY <1>1, ListingDropped DEF ListOK
<1> QED BY <1>1, <1>2, <1>3, <1>4 DEF StoreOK, DirOK

LEMMA StoreInit == Init => StoreOK /\ Listing
<1> SUFFICES ASSUME Init PROVE StoreOK /\ Listing
  OBVIOUS
<1>1. BuildOK
  <2>1. Free \in Build /\ Free.by = ForList
    BY StoreBounds DEF Free, Build, ForList
  <2> QED BY <2>1 DEF Init, BuildOK
<1>2. DirOK /\ IndexOK /\ ListOK /\ OpsOK
  <2>1. DirOK
    BY DEF Init, DirOK
  <2>2. IndexOK
    BY DEF Init, IndexOK
  <2>3. ListOK
    BY DEF Init, ListOK
  <2>4. OpsOK
    BY StoreBounds DEF Init, OpsOK
  <2> QED BY <2>1, <2>2, <2>3, <2>4
<1>3. Listing
  BY DEF Init, Listing, Free
<1> QED BY <1>1, <1>2, <1>3 DEF StoreOK

LEMMA StoreStep ==
  ASSUME StoreOK, [Next]_vars
  PROVE  StoreOK' /\ (NoRename /\ Listing => Listing')
<1>1. CASE ListProd
  BY <1>1, StartBuildStep DEF ListProd
<1>2. CASE BuildRead
  BY <1>2, BuildReadStep
<1>3. ASSUME NEW i \in Id, StartDelete(i) \/ \E h \in HostOf[i] : StartPromote(i, h) \/ StartAdopt(i, h)
      PROVE  StoreOK' /\ (NoRename /\ Listing => Listing')
  BY <1>3, StartsStep
<1>4. ASSUME NEW o \in ops, OpStep(o) PROVE StoreOK' /\ (NoRename /\ Listing => Listing')
  <2>1. CASE LookupBuild(o)
    BY <2>1, StartBuildStep DEF LookupBuild
  <2> QED BY <1>4, <2>1, LookupStep, ReadStep, WriteFileStep, CheckObsoleteStep, ClearObsoleteStep,
             IndexFileStep, RemoveRenamedStep, RemoveFileStep, ForgetStep DEF OpStep
<1>5. CASE UNCHANGED vars
  BY <1>5, BuildKept, ListingKept DEF vars, StoreOK, DirOK, IndexOK, ListOK, OpsOK
<1> QED BY <1>1, <1>2, <1>3, <1>4, <1>5 DEF Next

\* Where the memorised listing, or the one a rebuild under way will make, is not what the
\* directory holds, an operation is still to drop it; the index, the listing and the
\* operations name only paths where the proxy may be.  As long as no proxy changes its host.
THEOREM ListingInvariant == ASSUME NoRename PROVE Spec => []ListingInv
<1>1. StoreOK /\ Listing <=> ListingInv
  BY StoreParts DEF ListingInv, Listing
<1>2. Init => ListingInv
  BY <1>1, StoreInit
<1>3. ListingInv /\ [Next]_vars => ListingInv'
  <2> SUFFICES ASSUME ListingInv, [Next]_vars PROVE ListingInv'
    OBVIOUS
  <2>1. StoreOK' /\ Listing'
    BY <1>1, StoreStep
  <2> QED BY <2>1 DEF StoreOK, Listing, ListingInv, TypeOK, Homes, DirOK, IndexOK, ListOK, OpsOK, BuildOK
<1> QED BY <1>2, <1>3, PTL DEF Spec

\* With nothing under way the memorised listing (ListProd) is what the directory holds,
\* whatever writes, deletions and rebuilds overlapped, as long as no proxy changes its host.
THEOREM ListingIsFresh == ASSUME NoRename PROVE Spec => []ListingFresh
<1>1. ListingInv => ListingFresh
  <2> SUFFICES ASSUME ListingInv, ops = {}, listed PROVE listCache = Entries(Host)
    BY DEF ListingFresh
  <2>1. \A h \in Host, e \in Envelope : <<h, e>> \in listCache <=> e \in file[h]
    BY DEF ListingInv, Due
  <2>2. listCache \subseteq Host \X Envelope
    BY DEF ListingInv, TypeOK
  <2>3. \A h \in Host, e \in Envelope : <<h, e>> \in Entries(Host) <=> e \in file[h]
    BY DEF Entries
  <2>4. Entries(Host) \subseteq Host \X Envelope
    BY DEF Entries
  <2> QED BY <2>1, <2>2, <2>3, <2>4
<1> QED BY <1>1, ListingInvariant, PTL

---------------------------------------------------------------------------
(* The disk cache *)

Pc == {"idle", "load", "enter", "wait", "fetch", "setVary", "set", "end", "done"}
AnyResponse == Response \cup {NoResponse}
AnyEntry == CacheEntry \cup {NoFile}

LEMMA CacheBounds ==
  /\ Ttl \in Nat /\ Swr \in Nat /\ Sie \in Nat /\ MaxCacheTime \in Nat /\ MaxUpset \in Nat
  /\ Coalesce \in BOOLEAN
BY CacheAssumption

LEMMA CacheTasks == \A c \in Client : Asked(c) \in CacheTask /\ Behind(c) \in CacheTask
BY DEF CacheTask, Asked, Behind

LEMMA KeyTypes ==
  ASSUME NEW v \in BOOLEAN, NEW f \in Field
  PROVE  KeyOf(v, f) \in CacheKey /\ KeyOf(v, f) \in {{}, {f}}
BY DEF KeyOf, CacheKey

\* The fields of a task.
LEMMA RecordFields ==
  ASSUME NEW r \in CacheRecord
  PROVE  /\ r.pc \in Pc /\ r.gen \in 0..MaxUpset /\ r.field \in Field /\ r.vary \in BOOLEAN
         /\ r.now \in 0..MaxCacheTime /\ r.old \in AnyEntry /\ r.lead \in SUBSET Client
         /\ r.resp \in AnyResponse /\ r.served \in AnyResponse
BY DEF CacheRecord, Pc, AnyEntry, AnyResponse

\* The changes the steps make to a task.
LEMMA RecordSteps ==
  ASSUME NEW r \in CacheRecord, NEW pc \in Pc
  PROVE  /\ [r EXCEPT !.pc = pc] \in CacheRecord
         /\ \A g \in 0..MaxUpset, v \in BOOLEAN : [r EXCEPT !.pc = pc, !.gen = g, !.vary = v] \in CacheRecord
         /\ \A e \in AnyEntry, n \in 0..MaxCacheTime : [r EXCEPT !.pc = pc, !.old = e, !.now = n] \in CacheRecord
         /\ \A e \in AnyEntry : [r EXCEPT !.pc = pc, !.old = e] \in CacheRecord
         /\ \A l \in SUBSET Client : [r EXCEPT !.pc = pc, !.lead = l] \in CacheRecord
         /\ \A p \in AnyResponse : [r EXCEPT !.resp = p, !.pc = pc] \in CacheRecord
<1> USE DEF CacheRecord, Pc, AnyEntry, AnyResponse
<1>1. [r EXCEPT !.pc = pc] \in CacheRecord
  OBVIOUS
<1>2. ASSUME NEW g \in 0..MaxUpset, NEW v \in BOOLEAN
      PROVE  [r EXCEPT !.pc = pc, !.gen = g, !.vary = v] \in CacheRecord
  OBVIOUS
<1>3. ASSUME NEW e \in AnyEntry, NEW n \in 0..MaxCacheTime
      PROVE  [r EXCEPT !.pc = pc, !.old = e, !.now = n] \in CacheRecord
  OBVIOUS
<1>4. ASSUME NEW e \in AnyEntry PROVE [r EXCEPT !.pc = pc, !.old = e] \in CacheRecord
  OBVIOUS
<1>5. ASSUME NEW l \in SUBSET Client PROVE [r EXCEPT !.pc = pc, !.lead = l] \in CacheRecord
  OBVIOUS
<1>6. ASSUME NEW p \in AnyResponse PROVE [r EXCEPT !.resp = p, !.pc = pc] \in CacheRecord
  OBVIOUS
<1> QED BY <1>1, <1>2, <1>3, <1>4, <1>5, <1>6

\* A request that is over with an answer of its own or one that fits it.
LEMMA OverSound ==
  ASSUME CacheTypeOK, NEW t \in CacheTask, NEW p \in AnyResponse, NEW s \in AnyResponse,
         p # NoResponse => p.variant \in {{}, {task[t].field}},
         s \notin {NoResponse, p} => Fits(s, task[t].field)
  PROVE  Over(t, p, s) \in CacheRecord /\ TaskSound(Over(t, p, s))
<1> DEFINE r == task[t]
           o == Over(t, p, s)
<1>1. r \in CacheRecord
  BY DEF CacheTypeOK
<1>o. o = [r EXCEPT !.pc = "done", !.gen = 0, !.vary = FALSE, !.now = 0, !.old = NoFile,
                    !.lead = {}, !.resp = p, !.served = s]
  BY DEF Over
<1> HIDE DEF r, o
<1>2. /\ o \in CacheRecord
      /\ o.pc = "done" /\ o.old = NoFile /\ o.resp = p /\ o.served = s /\ o.field = r.field
  <2>1. 0 \in 0..MaxUpset /\ 0 \in 0..MaxCacheTime
    BY CacheBounds
  <2> QED BY <1>1, <1>o, <2>1 DEF CacheRecord, AnyResponse
<1>3. TaskSound(o)
  BY <1>2 DEF TaskSound, Exists, r
<1> QED BY <1>2, <1>3 DEF o

LEMMA RestSound ==
  ASSUME NEW f \in Field
  PROVE  Rest(f) \in CacheRecord /\ TaskSound(Rest(f))
<1>1. 0 \in 0..MaxUpset /\ 0 \in 0..MaxCacheTime
  BY CacheBounds
<1>2. Rest(f) \in CacheRecord
  BY <1>1 DEF Rest, CacheRecord
<1>3. /\ Rest(f).old = NoFile /\ Rest(f).resp = NoResponse /\ Rest(f).served = NoResponse
      /\ Rest(f).pc = "idle"
  BY DEF Rest
<1>4. TaskSound(Rest(f))
  BY <1>3 DEF TaskSound, Exists
<1> QED BY <1>2, <1>4

\* The tasks when one of them becomes another.
LEMMA OneTask ==
  ASSUME CacheInv, NEW t \in CacheTask, NEW r \in CacheRecord, TaskSound(r), Becomes(t, r)
  PROVE  task' \in [CacheTask -> CacheRecord] /\ \A u \in CacheTask : TaskSound(task'[u])
BY DEF CacheInv, CacheTypeOK, Becomes

\* What a step leaves of CacheInv when it touches no file and only the tasks.
LEMMA FilesKept ==
  ASSUME CacheInv, UNCHANGED <<stored, varyFile, cacheTime, gen, purged>>,
         task' \in [CacheTask -> CacheRecord], \A u \in CacheTask : TaskSound(task'[u]),
         flights' \subseteq [gen : 0..MaxUpset, key : CacheKey, lead : Client],
         refreshing' \subseteq [gen : 0..MaxUpset, key : CacheKey]
  PROVE  CacheInv'
BY DEF CacheInv, CacheTypeOK

\* A task that goes on with these parts stays sound: what it has loaded fits it.
LEMMA GoesOn ==
  ASSUME NEW r \in CacheRecord, TaskSound(r), r.pc # "done", NEW s \in CacheRecord,
         s.pc \notin {"setVary", "set", "done"}, s.field = r.field, s.resp = r.resp, s.served = r.served,
         s.old = r.old \/ (Exists(s.old) => Fits(s.old.resp, r.field))
  PROVE  TaskSound(s)
BY DEF TaskSound

\* What a loaded entry holds.
LEMMA LoadedFits ==
  ASSUME CacheInv, NEW t \in CacheTask,
         NEW e \in {stored[LookupKey(t)], NoFile}, Exists(e)
  PROVE  e \in CacheEntry /\ e.resp \in Response /\ Fits(e.resp, task[t].field)
<1>1. task[t] \in CacheRecord
  BY DEF CacheInv, CacheTypeOK
<1>2. LookupKey(t) \in CacheKey /\ LookupKey(t) \in {{}, {task[t].field}}
  BY <1>1, RecordFields, KeyTypes DEF LookupKey
<1>3. e = stored[LookupKey(t)] /\ e \in CacheEntry
  BY <1>2 DEF CacheInv, CacheTypeOK, Exists
<1>4. e.resp.store /\ e.resp.variant = LookupKey(t)
  BY <1>2, <1>3 DEF CacheInv
<1>5. e.resp \in Response
  BY <1>3 DEF CacheEntry
<1> QED BY <1>2, <1>3, <1>4, <1>5 DEF Fits

LEMMA ComeStep == ASSUME CacheInv, NEW c \in Client, Come(c) PROVE CacheInv'
<1> DEFINE t == Asked(c)
           r == task[t]
<1>1. t \in CacheTask /\ r \in CacheRecord /\ TaskSound(r) /\ r.pc = "idle"
  BY CacheTasks DEF CacheInv, CacheTypeOK, Come
<1>2. PICK v : v \in {varyFile, FALSE} /\ Becomes(t, [r EXCEPT !.pc = "load", !.gen = gen, !.vary = v])
  BY DEF Come
<1> DEFINE s == [r EXCEPT !.pc = "load", !.gen = gen, !.vary = v]
<1>3. v \in BOOLEAN /\ gen \in 0..MaxUpset
  BY <1>2 DEF CacheInv, CacheTypeOK
<1> HIDE DEF t, r
<1>4. s \in CacheRecord
  BY <1>1, <1>3, RecordSteps DEF Pc
<1>5. s.pc = "load" /\ s.field = r.field /\ s.resp = r.resp /\ s.served = r.served /\ s.old = r.old
  BY <1>1 DEF CacheRecord
<1>6. Becomes(t, s)
  BY <1>2
<1> HIDE DEF s
<1>7. TaskSound(s)
  BY <1>1, <1>4, <1>5, GoesOn
<1>8. task' \in [CacheTask -> CacheRecord] /\ \A u \in CacheTask : TaskSound(task'[u])
  BY <1>1, <1>4, <1>6, <1>7, OneTask
<1> QED BY <1>8, FilesKept DEF Come, CacheInv, CacheTypeOK

LEMMA LoadStep == ASSUME CacheInv, NEW c \in Client, LoadEntry(c) PROVE CacheInv'
<1> DEFINE t == Asked(c)
           r == task[t]
<1>1. t \in CacheTask /\ r \in CacheRecord /\ TaskSound(r) /\ r.pc = "load"
  BY CacheTasks DEF CacheInv, CacheTypeOK, LoadEntry
<1>k. LookupKey(t) \in CacheKey
  BY <1>1, RecordFields, KeyTypes DEF LookupKey
<1>2. PICK e \in {stored[LookupKey(t)], NoFile} :
        \/ /\ Within(e, cacheTime, 0)
           /\ Becomes(t, Over(t, NoResponse, e.resp))
           /\ UNCHANGED refreshing
        \/ /\ Within(e, cacheTime, Swr)
           /\ RefreshAsync(c, e)
        \/ /\ Becomes(t, [r EXCEPT !.pc = "enter", !.old = e, !.now = cacheTime])
           /\ UNCHANGED refreshing
  BY DEF LoadEntry
<1>3. e \in AnyEntry
  BY <1>2, <1>k DEF AnyEntry, CacheInv, CacheTypeOK
<1>4. Exists(e) => e \in CacheEntry /\ e.resp \in Response /\ Fits(e.resp, r.field)
  BY <1>1, <1>2, LoadedFits
<1>5. Exists(e) => /\ Over(t, NoResponse, e.resp) \in CacheRecord
                   /\ TaskSound(Over(t, NoResponse, e.resp))
  <2> SUFFICES ASSUME Exists(e) PROVE /\ Over(t, NoResponse, e.resp) \in CacheRecord
                                      /\ TaskSound(Over(t, NoResponse, e.resp))
    OBVIOUS
  <2>1. e.resp \in AnyResponse /\ NoResponse \in AnyResponse /\ Fits(e.resp, task[t].field)
    BY <1>4 DEF AnyResponse
  <2> QED BY <1>1, <2>1, OverSound DEF CacheInv
<1>6. task' \in [CacheTask -> CacheRecord] /\ \A u \in CacheTask : TaskSound(task'[u])
  <2>1. CASE Within(e, cacheTime, 0) /\ Becomes(t, Over(t, NoResponse, e.resp))
    BY <1>1, <1>5, <2>1, OneTask DEF Within
  <2>2. CASE Within(e, cacheTime, Swr) /\ RefreshAsync(c, e)
    <3> DEFINE o == Over(t, NoResponse, e.resp)
               s == [r EXCEPT !.pc = "fetch", !.old = e]
    <3>1. o \in CacheRecord /\ TaskSound(o)
      BY <1>5, <2>2 DEF Within
    <3>2. \E x \in {s, task[Behind(c)]} : task' = [task EXCEPT ![t] = o, ![Behind(c)] = x]
      <4> DEFINE x == IF [gen |-> r.gen, key |-> LookupKey(t)] \in refreshing
                      THEN task[Behind(c)] ELSE s
      <4>2. task' = [task EXCEPT ![t] = o, ![Behind(c)] = x]
        BY <2>2 DEF RefreshAsync
      <4>4. x \in {s, task[Behind(c)]}
        OBVIOUS
      <4> HIDE DEF x
      <4> QED BY <4>2, <4>4
    <3> HIDE DEF o, r, t
    <3>3. s \in CacheRecord
      BY <1>1, <1>3, RecordSteps DEF Pc
    <3>4. s.pc = "fetch" /\ s.field = r.field /\ s.resp = r.resp /\ s.served = r.served /\ s.old = e
      BY <1>1 DEF CacheRecord
    <3> HIDE DEF s
    <3>5. TaskSound(s)
      BY <1>1, <1>4, <3>3, <3>4, GoesOn
    <3>6. PICK x \in {s, task[Behind(c)]} : task' = [task EXCEPT ![t] = o, ![Behind(c)] = x]
      BY <3>2
    <3>7. x \in CacheRecord /\ TaskSound(x)
      BY <3>3, <3>5, <3>6, CacheTasks DEF CacheInv, CacheTypeOK
    <3> QED BY <1>1, <3>1, <3>6, <3>7, CacheTasks DEF CacheInv, CacheTypeOK
  <2>3. CASE Becomes(t, [r EXCEPT !.pc = "enter", !.old = e, !.now = cacheTime])
    <3> DEFINE s == [r EXCEPT !.pc = "enter", !.old = e, !.now = cacheTime]
    <3>1. Becomes(t, s)
      BY <2>3
    <3>2. cacheTime \in 0..MaxCacheTime
      BY DEF CacheInv, CacheTypeOK
    <3> HIDE DEF t, r
    <3>3. s \in CacheRecord
      BY <1>1, <1>3, <3>2, RecordSteps DEF Pc
    <3>4. s.pc = "enter" /\ s.field = r.field /\ s.resp = r.resp /\ s.served = r.served /\ s.old = e
      BY <1>1 DEF CacheRecord
    <3> HIDE DEF s
    <3>5. TaskSound(s)
      BY <1>1, <1>4, <3>3, <3>4, GoesOn
    <3> QED BY <1>1, <3>1, <3>3, <3>5, OneTask
  <2> QED BY <1>2, <2>1, <2>2, <2>3
<1>7. refreshing' \subseteq [gen : 0..MaxUpset, key : CacheKey]
  <2>1. r.gen \in 0..MaxUpset
    BY <1>1, RecordFields
  <2>2. [gen |-> r.gen, key |-> LookupKey(t)] \in [gen : 0..MaxUpset, key : CacheKey]
    BY <1>k, <2>1
  <2>3. \/ UNCHANGED refreshing
        \/ refreshing' = refreshing \cup {[gen |-> r.gen, key |-> LookupKey(t)]}
    BY <1>2 DEF RefreshAsync
  <2> QED BY <2>2, <2>3 DEF CacheInv, CacheTypeOK
<1> QED BY <1>6, <1>7, FilesKept DEF LoadEntry, CacheInv, CacheTypeOK

LEMMA EnterStep == ASSUME CacheInv, NEW c \in Client, Enter(c) PROVE CacheInv'
<1> DEFINE t == Asked(c)
           r == task[t]
<1>1. t \in CacheTask /\ r \in CacheRecord /\ TaskSound(r) /\ r.pc = "enter"
  BY CacheTasks DEF CacheInv, CacheTypeOK, Enter
<1>2. LookupKey(t) \in CacheKey /\ r.gen \in 0..MaxUpset
  BY <1>1, RecordFields, KeyTypes DEF LookupKey
<1>3. flights' \subseteq [gen : 0..MaxUpset, key : CacheKey, lead : Client]
  <2>1. [gen |-> r.gen, key |-> LookupKey(t), lead |-> c] \in [gen : 0..MaxUpset, key : CacheKey, lead : Client]
    BY <1>2
  <2>2. \/ UNCHANGED flights
        \/ flights' = flights \cup {[gen |-> r.gen, key |-> LookupKey(t), lead |-> c]}
    BY DEF Enter
  <2> QED BY <2>1, <2>2 DEF CacheInv, CacheTypeOK
<1>4. \/ Becomes(t, [r EXCEPT !.pc = "fetch"])
      \/ \E pc \in {"fetch", "wait"}, l \in SUBSET Client : Becomes(t, [r EXCEPT !.pc = pc, !.lead = l])
  <2>1. \A fl \in FlightsOf(t) : {fl.lead} \subseteq Client
    BY DEF FlightsOf, CacheInv, CacheTypeOK
  <2>2. \/ Becomes(t, [r EXCEPT !.pc = "fetch"])
        \/ Becomes(t, [r EXCEPT !.pc = "fetch", !.lead = {c}])
        \/ \E fl \in FlightsOf(t) : Becomes(t, [r EXCEPT !.pc = "wait", !.lead = {fl.lead}])
    BY DEF Enter
  <2>3. {c} \in SUBSET Client
    OBVIOUS
  <2> HIDE DEF r, t
  <2> QED BY <2>1, <2>2, <2>3
<1>5. \E s \in CacheRecord : /\ Becomes(t, s) /\ s.pc \in {"fetch", "wait"}
                             /\ s.field = r.field /\ s.resp = r.resp /\ s.served = r.served /\ s.old = r.old
  <2> HIDE DEF r, t
  <2>1. CASE Becomes(t, [r EXCEPT !.pc = "fetch"])
    <3> DEFINE s == [r EXCEPT !.pc = "fetch"]
    <3>1. s \in CacheRecord
      BY <1>1, RecordSteps DEF Pc
    <3>2. s.pc = "fetch" /\ s.field = r.field /\ s.resp = r.resp /\ s.served = r.served /\ s.old = r.old
      BY <1>1 DEF CacheRecord
    <3> QED BY <2>1, <3>1, <3>2
  <2>2. ASSUME NEW pc \in {"fetch", "wait"}, NEW l \in SUBSET Client, Becomes(t, [r EXCEPT !.pc = pc, !.lead = l])
        PROVE  \E s \in CacheRecord : /\ Becomes(t, s) /\ s.pc \in {"fetch", "wait"}
                                      /\ s.field = r.field /\ s.resp = r.resp /\ s.served = r.served /\ s.old = r.old
    <3> DEFINE s == [r EXCEPT !.pc = pc, !.lead = l]
    <3>1. s \in CacheRecord
      BY <1>1, RecordSteps DEF Pc
    <3>2. s.pc = pc /\ s.field = r.field /\ s.resp = r.resp /\ s.served = r.served /\ s.old = r.old
      BY <1>1 DEF CacheRecord
    <3> QED BY <2>2, <3>1, <3>2
  <2> QED BY <1>4, <2>1, <2>2
<1>6. task' \in [CacheTask -> CacheRecord] /\ \A u \in CacheTask : TaskSound(task'[u])
  <2>1. PICK s \in CacheRecord : /\ Becomes(t, s) /\ s.pc \in {"fetch", "wait"}
                                 /\ s.field = r.field /\ s.resp = r.resp /\ s.served = r.served /\ s.old = r.old
    BY <1>5
  <2>2. TaskSound(s)
    BY <1>1, <2>1, GoesOn
  <2> QED BY <1>1, <2>1, <2>2, OneTask
<1> QED BY <1>3, <1>6, FilesKept DEF Enter, CacheInv, CacheTypeOK

\* What a request gives: the answer it has, or the entry it had loaded, which fits it.
LEMMA GivenFits ==
  ASSUME CacheInv, NEW t \in CacheTask, NEW p \in AnyResponse
  PROVE  /\ Given(t, p) \in AnyResponse
         /\ Given(t, p) = p \/ Fits(Given(t, p), task[t].field)
<1>1. task[t] \in CacheRecord /\ TaskSound(task[t])
  BY DEF CacheInv, CacheTypeOK
<1>2. task[t].old \in AnyEntry
  BY <1>1, RecordFields
<1>3. Exists(task[t].old) => task[t].old.resp \in AnyResponse /\ Fits(task[t].old.resp, task[t].field)
  BY <1>1, <1>2 DEF AnyEntry, AnyResponse, CacheEntry, Exists, TaskSound
<1> QED BY <1>3 DEF Given, Within

LEMMA WakeStep == ASSUME CacheInv, NEW c \in Client, Wake(c) PROVE CacheInv'
<1> DEFINE t == Asked(c)
           r == task[t]
<1>1. t \in CacheTask /\ r \in CacheRecord /\ TaskSound(r) /\ r.pc = "wait"
  BY CacheTasks DEF CacheInv, CacheTypeOK, Wake
<1>2. PICK l \in r.lead :
        \/ Shared(t, Asked(l)) /\ Becomes(t, Over(t, NoResponse, Given(t, task[Asked(l)].resp)))
        \/ Becomes(t, [r EXCEPT !.pc = "fetch", !.lead = {}])
  BY DEF Wake
<1>3. Asked(l) \in CacheTask
  BY <1>1, <1>2, RecordFields, CacheTasks
<1>4. task' \in [CacheTask -> CacheRecord] /\ \A u \in CacheTask : TaskSound(task'[u])
  <2>1. CASE Shared(t, Asked(l)) /\ Becomes(t, Over(t, NoResponse, Given(t, task[Asked(l)].resp)))
    <3> DEFINE p == task[Asked(l)].resp
               g == Given(t, p)
    <3>1. p \in AnyResponse
      BY <1>3, RecordFields DEF CacheInv, CacheTypeOK
    <3>2. p.store /\ p.variant = KeyOf(p.variant # {}, r.field)
      BY <2>1 DEF Shared
    <3>3. Fits(p, r.field)
      <4>1. p.variant \in {{}, {r.field}}
        BY <3>2, Zenon DEF KeyOf
      <4> QED BY <3>2, <4>1 DEF Fits
    <3>4. g \in AnyResponse /\ Fits(g, r.field)
      <4> HIDE DEF p, t
      <4> QED BY <1>1, <3>1, <3>3, GivenFits
    <3>5. NoResponse \in AnyResponse
      BY DEF AnyResponse
    <3> HIDE DEF g
    <3>6. Over(t, NoResponse, g) \in CacheRecord /\ TaskSound(Over(t, NoResponse, g))
      BY <1>1, <3>4, <3>5, OverSound DEF CacheInv
    <3> QED BY <1>1, <2>1, <3>6, OneTask DEF g
  <2>2. CASE Becomes(t, [r EXCEPT !.pc = "fetch", !.lead = {}])
    <3> DEFINE s == [r EXCEPT !.pc = "fetch", !.lead = {}]
    <3>1. Becomes(t, s)
      BY <2>2
    <3> HIDE DEF t, r
    <3>2. s \in CacheRecord
      BY <1>1, RecordSteps DEF Pc
    <3>3. s.pc = "fetch" /\ s.field = r.field /\ s.resp = r.resp /\ s.served = r.served /\ s.old = r.old
      BY <1>1 DEF CacheRecord
    <3> HIDE DEF s
    <3>4. TaskSound(s)
      BY <1>1, <3>2, <3>3, GoesOn
    <3> QED BY <1>1, <3>1, <3>2, <3>4, OneTask
  <2> QED BY <1>2, <2>1, <2>2
<1> QED BY <1>4, FilesKept DEF Wake, CacheInv, CacheTypeOK

\* A request that ends without an answer, and whose flight may end.
LEMMA GivesUp ==
  ASSUME CacheInv, NEW t \in CacheTask, Becomes(t, Over(t, NoResponse, NoResponse)),
         flights' \subseteq flights, UNCHANGED <<stored, varyFile, refreshing, cacheTime, gen, purged>>
  PROVE  CacheInv'
<1>1. NoResponse \in AnyResponse
  BY DEF AnyResponse
<1>2. Over(t, NoResponse, NoResponse) \in CacheRecord /\ TaskSound(Over(t, NoResponse, NoResponse))
  BY <1>1, OverSound DEF CacheInv
<1>3. task' \in [CacheTask -> CacheRecord] /\ \A u \in CacheTask : TaskSound(task'[u])
  BY <1>2, OneTask
<1> QED BY <1>3, FilesKept DEF CacheInv, CacheTypeOK

LEMMA LeaveStep == ASSUME CacheInv, NEW c \in Client, Leave(c) \/ Abort(c) PROVE CacheInv'
BY CacheTasks, GivesUp DEF Leave, Abort

LEMMA AnswerStep == ASSUME CacheInv, NEW t \in CacheTask, Answer(t) PROVE CacheInv'
<1> DEFINE r == task[t]
<1>1. r \in CacheRecord /\ TaskSound(r) /\ r.pc = "fetch"
  BY DEF CacheInv, CacheTypeOK, Answer
<1>2. r.field \in Field
  BY <1>1, RecordFields
<1>3. PICK v \in BOOLEAN, good \in BOOLEAN, store \in BOOLEAN :
        LET resp == [variant |-> KeyOf(v, task[t].field), good |-> good, store |-> store]
            kept == [resp EXCEPT !.store = Keeps(t, resp)] IN
        /\ ~store => ~v
        /\ Becomes(t, [task[t] EXCEPT !.resp = kept,
                         !.pc = IF ~kept.store THEN "end"
                                ELSE IF v \/ task[t].vary THEN "setVary" ELSE "set"])
  <2> HIDE DEF r
  <2> QED BY Zenon DEF Answer
<1> DEFINE resp == [variant |-> KeyOf(v, r.field), good |-> good, store |-> store]
           kept == [resp EXCEPT !.store = Keeps(t, resp)]
           pc == IF ~kept.store THEN "end" ELSE IF v \/ r.vary THEN "setVary" ELSE "set"
           s == [r EXCEPT !.resp = kept, !.pc = pc]
<1>4. resp \in Response
  BY <1>2, KeyTypes DEF Response
<1>5. kept = [variant |-> KeyOf(v, r.field), good |-> good, store |-> Keeps(t, resp)]
  OBVIOUS
<1>6. Keeps(t, resp) \in BOOLEAN
  BY <1>4 DEF Keeps, Response
<1>7. kept \in Response /\ kept.variant \in {{}, {r.field}}
  <2> DEFINE keeps == Keeps(t, resp)
             k == KeyOf(v, r.field)
  <2>1. kept = [variant |-> k, good |-> good, store |-> keeps] /\ keeps \in BOOLEAN /\ k \in CacheKey
        /\ k \in {{}, {r.field}}
    BY <1>2, <1>5, <1>6, KeyTypes
  <2> HIDE DEF kept, keeps, k
  <2> QED BY <2>1 DEF Response
<1>8. Becomes(t, s)
  BY <1>3
<1>9. pc \in Pc /\ (pc \in {"setVary", "set"} => kept.store) /\ pc # "done"
  BY DEF Pc
<1> HIDE DEF kept, pc, r
<1>10. s \in CacheRecord
  BY <1>1, <1>7, <1>9, RecordSteps DEF AnyResponse
<1>11. s.pc = pc /\ s.field = r.field /\ s.resp = kept /\ s.served = r.served /\ s.old = r.old
  BY <1>1 DEF CacheRecord
<1>12. kept # NoResponse
  BY <1>7 DEF Response, NoResponse
<1> HIDE DEF s
<1>13. TaskSound(s)
  BY <1>1, <1>7, <1>9, <1>11, <1>12 DEF TaskSound
<1>14. task' \in [CacheTask -> CacheRecord] /\ \A u \in CacheTask : TaskSound(task'[u])
  BY <1>8, <1>10, <1>13, OneTask
<1> QED BY <1>14, FilesKept DEF Answer, CacheInv, CacheTypeOK

\* A task that writes: its answer may be stored, under the key of its variant.
LEMMA Writing ==
  ASSUME CacheInv, NEW t \in CacheTask, task[t].pc \in {"setVary", "set"}
  PROVE  /\ task[t].resp \in Response /\ task[t].resp.store
         /\ task[t].resp.variant \in CacheKey
         /\ \A pc \in {"set", "end"} :
              /\ [task[t] EXCEPT !.pc = pc] \in CacheRecord
              /\ TaskSound([task[t] EXCEPT !.pc = pc])
<1> DEFINE r == task[t]
<1>1. r \in CacheRecord /\ TaskSound(r)
  BY DEF CacheInv, CacheTypeOK
<1>2. r.resp \in AnyResponse /\ r.resp # NoResponse /\ r.resp.store
  BY <1>1, RecordFields DEF TaskSound
<1>3. r.resp \in Response
  BY <1>2 DEF AnyResponse
<1>4. r.resp.variant \in CacheKey
  BY <1>3 DEF Response
<1> HIDE DEF r
<1>5. ASSUME NEW pc \in {"set", "end"}
      PROVE  [r EXCEPT !.pc = pc] \in CacheRecord /\ TaskSound([r EXCEPT !.pc = pc])
  <2> DEFINE s == [r EXCEPT !.pc = pc]
  <2>1. s \in CacheRecord
    BY <1>1, RecordSteps DEF Pc
  <2>2. s.pc = pc /\ s.field = r.field /\ s.resp = r.resp /\ s.served = r.served /\ s.old = r.old
    BY <1>1 DEF CacheRecord
  <2>3. r.pc \in {"setVary", "set"}
    BY DEF r
  <2> HIDE DEF s
  <2>4. TaskSound(s)
    BY <1>1, <1>2, <2>2, <2>3 DEF TaskSound
  <2> QED BY <2>1, <2>4 DEF s
<1> QED BY <1>2, <1>3, <1>4, <1>5 DEF r

LEMMA SetVaryStep == ASSUME CacheInv, NEW t \in CacheTask, SetVary(t) PROVE CacheInv'
<1> DEFINE s == [task[t] EXCEPT !.pc = "set"]
<1>1. s \in CacheRecord /\ TaskSound(s) /\ Becomes(t, s)
  BY Writing DEF SetVary
<1> HIDE DEF s
<1>2. task' \in [CacheTask -> CacheRecord] /\ \A u \in CacheTask : TaskSound(task'[u])
  BY <1>1, OneTask
<1>3. varyFile' \in BOOLEAN
  BY DEF SetVary
<1> QED BY <1>2, <1>3 DEF SetVary, CacheInv, CacheTypeOK

LEMMA SetEntryStep == ASSUME CacheInv, NEW t \in CacheTask, SetEntry(t) PROVE CacheInv'
<1> DEFINE s == [task[t] EXCEPT !.pc = "end"]
           p == task[t].resp
           k == p.variant
           new == [resp |-> p, expires |-> cacheTime + Ttl]
<1>1. s \in CacheRecord /\ TaskSound(s) /\ Becomes(t, s)
  BY Writing DEF SetEntry
<1>2. p \in Response /\ p.store /\ k \in CacheKey
  BY Writing DEF SetEntry
<1>3. PICK e \in {new, NoFile} : stored' = [stored EXCEPT ![k] = e]
  BY DEF SetEntry
<1> HIDE DEF s
<1>4. task' \in [CacheTask -> CacheRecord] /\ \A u \in CacheTask : TaskSound(task'[u])
  BY <1>1, OneTask
<1>5. new \in CacheEntry /\ new.resp = p
  <2>1. cacheTime + Ttl \in 0..(MaxCacheTime + Ttl)
    BY CacheBounds DEF CacheInv, CacheTypeOK
  <2> HIDE DEF p
  <2> QED BY <1>2, <2>1 DEF CacheEntry
<1> HIDE DEF new, p
<1>6. stored' \in [CacheKey -> CacheEntry \cup {NoFile}]
  BY <1>2, <1>3, <1>5 DEF CacheInv, CacheTypeOK
<1>7. \A l \in CacheKey : Exists(stored'[l]) => stored'[l].resp.store /\ stored'[l].resp.variant = l
  <2> SUFFICES ASSUME NEW l \in CacheKey, Exists(stored'[l])
               PROVE  stored'[l].resp.store /\ stored'[l].resp.variant = l
    OBVIOUS
  <2>1. CASE l = k
    <3>1. stored'[l] = e
      BY <1>2, <1>3, <2>1 DEF CacheInv, CacheTypeOK
    <3>2. e = new
      BY <1>3, <3>1 DEF Exists
    <3> QED BY <1>2, <1>5, <2>1, <3>1, <3>2
  <2>2. CASE l # k
    <3>1. stored'[l] = stored[l]
      BY <1>2, <1>3, <2>2 DEF CacheInv, CacheTypeOK
    <3> QED BY <3>1 DEF CacheInv
  <2> QED BY <2>1, <2>2
<1> QED BY <1>4, <1>6, <1>7 DEF SetEntry, CacheInv, CacheTypeOK

LEMMA EndRequestStep == ASSUME CacheInv, NEW c \in Client, EndRequest(c) PROVE CacheInv'
<1> DEFINE t == Asked(c)
           p == task[t].resp
           g == Given(t, p)
<1>1. t \in CacheTask /\ task[t] \in CacheRecord /\ TaskSound(task[t])
  BY CacheTasks DEF CacheInv, CacheTypeOK
<1>2. p \in AnyResponse /\ (p # NoResponse => p.variant \in {{}, {task[t].field}})
  BY <1>1, RecordFields DEF TaskSound
<1>3. Becomes(t, Over(t, p, g)) /\ flights' \subseteq flights
  BY DEF EndRequest
<1> HIDE DEF t, p
<1>4. g \in AnyResponse /\ (g = p \/ Fits(g, task[t].field))
  BY <1>1, <1>2, GivenFits
<1> HIDE DEF g
<1>5. Over(t, p, g) \in CacheRecord /\ TaskSound(Over(t, p, g))
  BY <1>1, <1>2, <1>4, OverSound DEF CacheInv
<1>6. task' \in [CacheTask -> CacheRecord] /\ \A u \in CacheTask : TaskSound(task'[u])
  BY <1>1, <1>3, <1>5, OneTask
<1> QED BY <1>3, <1>6, FilesKept DEF EndRequest, CacheInv, CacheTypeOK

LEMMA EndRevalidationStep == ASSUME CacheInv, NEW c \in Client, EndRevalidation(c) PROVE CacheInv'
<1> DEFINE t == Behind(c)
           f == task[t].field
<1>1. t \in CacheTask /\ f \in Field
  BY CacheTasks, RecordFields DEF CacheInv, CacheTypeOK
<1>2. Becomes(t, Rest(f)) /\ refreshing' \subseteq refreshing
  BY DEF EndRevalidation
<1> HIDE DEF t, f
<1>3. Rest(f) \in CacheRecord /\ TaskSound(Rest(f))
  BY <1>1, RestSound
<1>4. task' \in [CacheTask -> CacheRecord] /\ \A u \in CacheTask : TaskSound(task'[u])
  BY <1>1, <1>2, <1>3, OneTask
<1> QED BY <1>2, <1>4, FilesKept DEF EndRevalidation, CacheInv, CacheTypeOK

LEMMA CrashStep == ASSUME CacheInv, NEW c \in Client, CrashInRevalidation(c) PROVE CacheInv'
<1>1. ASSUME NEW t \in CacheTask PROVE task'[t] \in CacheRecord /\ TaskSound(task'[t])
  <2>1. task[t] \in CacheRecord /\ TaskSound(task[t]) /\ task[t].field \in Field
    BY RecordFields DEF CacheInv, CacheTypeOK
  <2>2. task'[t] \in {task[t], Over(t, NoResponse, NoResponse), Rest(task[t].field)}
    BY DEF CrashInRevalidation
  <2>3. NoResponse \in AnyResponse
    BY DEF AnyResponse
  <2>4. Over(t, NoResponse, NoResponse) \in CacheRecord /\ TaskSound(Over(t, NoResponse, NoResponse))
    BY <2>3, OverSound DEF CacheInv
  <2>5. Rest(task[t].field) \in CacheRecord /\ TaskSound(Rest(task[t].field))
    BY <2>1, RestSound
  <2> QED BY <2>1, <2>2, <2>4, <2>5
<1>2. \E f : task' = [t \in CacheTask |-> f[t]]
  <2> DEFINE f == [t \in CacheTask |-> IF task[t].pc \in {"idle", "done"} THEN task[t]
                                       ELSE IF t[2] = "request" THEN Over(t, NoResponse, NoResponse)
                                       ELSE Rest(task[t].field)]
  <2>1. task' = f
    BY DEF CrashInRevalidation
  <2>2. f = [t \in CacheTask |-> f[t]]
    OBVIOUS
  <2> HIDE DEF f
  <2> QED BY <2>1, <2>2
<1>3. task' \in [CacheTask -> CacheRecord]
  BY <1>1, <1>2
<1> QED BY <1>1, <1>3, FilesKept DEF CrashInRevalidation

LEMMA PurgeEntryStep == ASSUME CacheInv, NEW k \in CacheKey, PurgeEntry(k) PROVE CacheInv'
<1>1. stored' = [stored EXCEPT ![k] = NoFile] /\ UNCHANGED <<task, varyFile, flights, refreshing, cacheTime, gen>>
  BY DEF PurgeEntry
<1>2. stored' \in [CacheKey -> CacheEntry \cup {NoFile}]
  BY <1>1 DEF CacheInv, CacheTypeOK
<1>3. \A l \in CacheKey : Exists(stored'[l]) => stored'[l] = stored[l]
  BY <1>1 DEF CacheInv, CacheTypeOK, Exists
<1>4. purged' \in 0..MaxUpset
  BY CacheBounds DEF PurgeEntry, CacheInv, CacheTypeOK
<1> QED BY <1>1, <1>2, <1>3, <1>4 DEF CacheInv, CacheTypeOK

LEMMA OtherCacheStep ==
  ASSUME CacheInv, PurgeVary \/ TickCache \/ NewHandlers \/ UNCHANGED cacheVars
  PROVE  CacheInv'
<1>1. task' = task /\ stored' = stored /\ flights' = flights /\ refreshing' = refreshing
  BY DEF PurgeVary, TickCache, NewHandlers, cacheVars
<1>2. varyFile' \in BOOLEAN
  BY DEF PurgeVary, TickCache, NewHandlers, cacheVars, CacheInv, CacheTypeOK
<1>3. cacheTime' \in 0..MaxCacheTime /\ gen' \in 0..MaxUpset /\ purged' \in 0..MaxUpset
  BY CacheBounds DEF PurgeVary, TickCache, NewHandlers, cacheVars, CacheInv, CacheTypeOK
<1> QED BY <1>1, <1>2, <1>3 DEF CacheInv, CacheTypeOK

LEMMA CacheInvInit == CacheInit => CacheInv
<1> SUFFICES ASSUME CacheInit PROVE CacheInv
  OBVIOUS
<1>1. task \in [CacheTask -> CacheRecord] /\ \A t \in CacheTask : TaskSound(task[t])
  <2>1. PICK field \in [Client -> Field] : task = [t \in CacheTask |-> Rest(field[t[1]])]
    BY DEF CacheInit
  <2>2. \A t \in CacheTask : field[t[1]] \in Field
    BY DEF CacheTask
  <2> QED BY <2>1, <2>2, RestSound
<1>2. ASSUME NEW k \in CacheKey
      PROVE  stored[k] \in CacheEntry \cup {NoFile}
             /\ (Exists(stored[k]) => stored[k].resp.store /\ stored[k].resp.variant = k)
  <2> DEFINE p == [variant |-> k, good |-> TRUE, store |-> TRUE]
  <2>1. stored[k] = NoFile \/ \E x \in {0, Ttl} : stored[k] = [resp |-> p, expires |-> x]
    BY DEF CacheInit, LeftBehind
  <2>2. p \in Response /\ p.store /\ p.variant = k
    BY DEF Response
  <2>3. \A x \in {0, Ttl} : x \in 0..(MaxCacheTime + Ttl)
    BY CacheBounds
  <2> HIDE DEF p
  <2>4. \A x \in {0, Ttl} : [resp |-> p, expires |-> x] \in CacheEntry
    BY <2>2, <2>3 DEF CacheEntry
  <2> QED BY <2>1, <2>2, <2>4 DEF Exists
<1>3. stored \in [CacheKey -> CacheEntry \cup {NoFile}]
  <2>1. stored \in [CacheKey -> UNION {LeftBehind(k) : k \in CacheKey}]
    BY DEF CacheInit
  <2> QED BY <1>2, <2>1
<1>4. /\ varyFile \in BOOLEAN /\ flights = {} /\ refreshing = {}
      /\ cacheTime \in 0..MaxCacheTime /\ gen \in 0..MaxUpset /\ purged \in 0..MaxUpset
  BY CacheBounds DEF CacheInit
<1> QED BY <1>1, <1>2, <1>3, <1>4 DEF CacheInv, CacheTypeOK

LEMMA CacheInvStep == CacheInv /\ [CacheNext]_cacheVars => CacheInv'
<1> SUFFICES ASSUME CacheInv, [CacheNext]_cacheVars PROVE CacheInv'
  OBVIOUS
<1>1. ASSUME NEW c \in Client, Come(c) \/ Leave(c) \/ StepOf(c) PROVE CacheInv'
  BY <1>1, CacheTasks, ComeStep, LeaveStep, LoadStep, EnterStep, WakeStep, EndRequestStep,
     AnswerStep, SetVaryStep, SetEntryStep DEF StepOf
<1>2. ASSUME NEW c \in Client, RevalidationOf(c) PROVE CacheInv'
  BY <1>2, CacheTasks, AnswerStep, SetVaryStep, SetEntryStep, EndRevalidationStep, CrashStep
     DEF RevalidationOf
<1>3. ASSUME NEW k \in CacheKey, PurgeEntry(k) PROVE CacheInv'
  BY <1>3, PurgeEntryStep
<1>4. CASE PurgeVary \/ TickCache \/ NewHandlers \/ UNCHANGED cacheVars
  BY <1>4, OtherCacheStep
<1> QED BY <1>1, <1>2, <1>3, <1>4 DEF CacheNext

\* Every file of the cache holds an answer that may be stored under the key of its own
\* variant, and every task of a request or a revalidation what fits it, whatever lists of
\* headers, purges, panics and changes of the configuration come in between.
THEOREM CacheInvariant == CacheSpec => []CacheInv
BY CacheInvInit, CacheInvStep, PTL DEF CacheSpec

\* Nobody is given an answer meant for another value of the header (lookup, coalesce,
\* fetchOrigin), for any clients, values, windows and bounds.
THEOREM VariantsKept == CacheSpec => []RightVariant
<1>1. CacheInv => RightVariant
  <2> SUFFICES ASSUME CacheInv, NEW c \in Client,
                      task[Asked(c)].served \notin {NoResponse, task[Asked(c)].resp}
               PROVE  /\ task[Asked(c)].served.store
                      /\ task[Asked(c)].served.variant \in {{}, {task[Asked(c)].field}}
    BY DEF RightVariant
  <2> QED BY CacheTasks DEF CacheInv, TaskSound, Fits
<1> QED BY <1>1, CacheInvariant, PTL

---------------------------------------------------------------------------
(* The files of the proxies and of the cache side by side *)

\* A behaviour that moves one of the two keeps the types of both, a proxy's change of host
\* included.
THEOREM FilesTypes == FilesSpec => []FilesTypeOK
<1>1. FilesInit => StoreOK /\ CacheInv
  BY StoreInit, CacheInvInit DEF FilesInit
<1>2. StoreOK /\ CacheInv /\ [FilesNext]_filesVars => StoreOK' /\ CacheInv'
  <2> SUFFICES ASSUME StoreOK, CacheInv, [FilesNext]_filesVars PROVE StoreOK' /\ CacheInv'
    OBVIOUS
  <2>1. [Next]_vars /\ [CacheNext]_cacheVars
    BY DEF FilesNext, filesVars
  <2> QED BY <2>1, StoreStep, CacheInvStep
<1>3. StoreOK /\ CacheInv => FilesTypeOK
  BY StoreParts DEF CacheInv, FilesTypeOK
<1> QED BY <1>1, <1>2, <1>3, PTL DEF FilesSpec

===================================================================================
