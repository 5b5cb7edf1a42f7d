------------------------------- MODULE DiskCache -------------------------------
(***************************************************************************)
(* The disk cache of a route (internal/edge/proxy/diskcache.go): the answers *)
(* to one URL, in a file for each variant, and the file that lists the      *)
(* request headers the variants depend on.  One such header stands for all: *)
(* an answer depends on it (its Vary names it) or not.                      *)
(*                                                                         *)
(* A change of the configuration makes a new DiskCache on the same          *)
(* directory (dispatch.go), with a mutex and flights of its own: requests   *)
(* of two generations share the files only.  So does a purge, which makes   *)
(* one for itself.                                                          *)
(*                                                                         *)
(* Requests that bypass the cache (method, cookies, headers) take no part.  *)
(***************************************************************************)
EXTENDS Naturals, FiniteSets

CONSTANTS
  Client,      \* requests, each with a revalidation it may start
  Field,       \* values of the header
  Ttl, Swr, Sie,  \* time to live, stale-while-revalidate, stale-if-error
  Coalesce,    \* FALSE: disable_coalescing
  MaxCacheTime, MaxUpset   \* bounds: clock, reconfigurations and files purged

ASSUME CacheAssumption ==
  {Ttl, Swr, Sie, MaxCacheTime, MaxUpset} \subseteq Nat /\ Coalesce \in BOOLEAN

VARIABLES
  task,        \* requests and revalidations
  stored,      \* entry of each key
  varyFile,    \* the header is listed in the file of the URL
  flights,     \* flights under way: generation, key and leader
  refreshing,  \* keys being revalidated, by generation
  cacheTime,
  gen,         \* configurations so far
  purged       \* files purged so far

cacheVars == <<task, stored, varyFile, flights, refreshing, cacheTime, gen, purged>>

---------------------------------------------------------------------------
(* Data *)

CacheTask == Client \X {"request", "revalidation"}
Asked(c) == <<c, "request">>
Behind(c) == <<c, "revalidation">>

\* variantKey: the URL alone, or with the value of the header.
CacheKey == {{}} \cup {{f} : f \in Field}
KeyOf(vary, f) == IF vary THEN {f} ELSE {}

\* variant: the key its own Vary makes with the request it answers; store: resolveTTL,
\* responseCacheable and parseVary let it be stored.
Response == [variant : CacheKey, good : BOOLEAN, store : BOOLEAN]
NoResponse == [store |-> FALSE, none |-> TRUE]

CacheEntry == [resp : Response, expires : 0..(MaxCacheTime + Ttl)]
NoFile == [resp |-> NoResponse, expires |-> 0]
Exists(e) == e # NoFile

\* now.Before(old.ErrorUntil) and the like: never for a file that is not there.
Within(e, now, window) == Exists(e) /\ now < e.expires + window

Rest(f) == [pc |-> "idle", gen |-> 0, field |-> f, vary |-> FALSE,
            now |-> 0, old |-> NoFile, lead |-> {}, resp |-> NoResponse, served |-> NoResponse]

\* Entries an earlier process left, some of them expired.
LeftBehind(k) ==
  {NoFile} \cup {[resp |-> [variant |-> k, good |-> TRUE, store |-> TRUE], expires |-> x] : x \in {0, Ttl}}

CacheInit ==
  /\ \E field \in [Client -> Field] : task = [t \in CacheTask |-> Rest(field[t[1]])]
  /\ stored \in [CacheKey -> UNION {LeftBehind(k) : k \in CacheKey}] /\ \A k \in CacheKey : stored[k] \in LeftBehind(k)
  /\ varyFile \in BOOLEAN
  /\ flights = {} /\ refreshing = {}
  /\ cacheTime = 0 /\ gen = 0 /\ purged = 0

LookupKey(t) == KeyOf(task[t].vary, task[t].field)

\* Another generation is writing: what it writes is read in part, or mixed with what is
\* written, and cannot be parsed.
Mixed(t, pc, k) == \E u \in CacheTask : /\ task[u].pc = pc /\ task[u].gen # task[t].gen
                                        /\ pc = "set" => task[u].resp.variant = k

Becomes(t, r) == task' = [task EXCEPT ![t] = r]

\* What a request that is over leaves: its answer.
Over(t, resp, served) ==
  [task[t] EXCEPT !.pc = "done", !.gen = 0, !.vary = FALSE, !.now = 0, !.old = NoFile, !.lead = {},
                  !.resp = resp, !.served = served]

---------------------------------------------------------------------------
(* Looking up *)

\* MiddlewareWithConfig: a request comes and reads the list of headers.
Come(c) ==
  LET t == Asked(c) IN
  /\ task[t].pc = "idle"
  /\ \E v \in {varyFile} \cup
             (IF \E u \in CacheTask : task[u].pc = "setVary" /\ task[u].gen # gen THEN {FALSE} ELSE {}) :
       Becomes(t, [task[t] EXCEPT !.pc = "load", !.gen = gen, !.vary = v])
  /\ UNCHANGED <<stored, varyFile, flights, refreshing, cacheTime, gen, purged>>

\* refreshAsync, once the old answer is given: one revalidation of a key at a time.
RefreshAsync(c, e) ==
  LET t == Asked(c)  key == [gen |-> task[t].gen, key |-> LookupKey(t)] IN
  /\ refreshing' = refreshing \cup {key}
  /\ task' = [task EXCEPT
       ![t] = Over(t, NoResponse, e.resp),
       ![Behind(c)] = IF key \in refreshing THEN task[Behind(c)]
                          ELSE [task[t] EXCEPT !.pc = "fetch", !.old = e]]

\* The entry is loaded: given while it lives, given and revalidated for a while after.
LoadEntry(c) ==
  LET t == Asked(c) IN
  /\ task[t].pc = "load"
  /\ \E e \in {stored[LookupKey(t)]} \cup (IF Mixed(t, "set", LookupKey(t)) THEN {NoFile} ELSE {}) :
       \/ /\ Within(e, cacheTime, 0)
          /\ Becomes(t, Over(t, NoResponse, e.resp))
          /\ UNCHANGED refreshing
       \/ /\ ~Within(e, cacheTime, 0) /\ Within(e, cacheTime, Swr)
          /\ RefreshAsync(c, e)
       \/ /\ ~Within(e, cacheTime, 0) /\ ~Within(e, cacheTime, Swr)
          /\ Becomes(t, [task[t] EXCEPT !.pc = "enter", !.old = e, !.now = cacheTime])
          /\ UNCHANGED refreshing
  /\ UNCHANGED <<stored, varyFile, flights, cacheTime, gen, purged>>

---------------------------------------------------------------------------
(* coalesce *)

FlightsOf(t) == {fl \in flights : fl.gen = task[t].gen /\ fl.key = LookupKey(t)}

\* The first request of a key leads, the others wait for it.
Enter(c) ==
  LET t == Asked(c)  mine == [gen |-> task[t].gen, key |-> LookupKey(t), lead |-> c] IN
  /\ task[t].pc = "enter"
  /\ \/ /\ ~Coalesce
        /\ Becomes(t, [task[t] EXCEPT !.pc = "fetch"])
        /\ UNCHANGED flights
     \/ /\ Coalesce /\ FlightsOf(t) = {}
        /\ flights' = flights \cup {mine}
        /\ Becomes(t, [task[t] EXCEPT !.pc = "fetch", !.lead = {c}])
     \/ /\ Coalesce
        /\ \E fl \in FlightsOf(t) : Becomes(t, [task[t] EXCEPT !.pc = "wait", !.lead = {fl.lead}])
        /\ UNCHANGED flights
  /\ UNCHANGED <<stored, varyFile, refreshing, cacheTime, gen, purged>>

\* What a request gives its client: the answer, or the expired entry instead of an error.
Given(t, resp) ==
  IF ~resp.good /\ Within(task[t].old, task[t].now, Sie) THEN task[t].old.resp ELSE resp

\* Fault: any answer of the leader is taken.
Shared_any(t, lead) == task[lead].resp # NoResponse

\* The leader's answer was stored, under the key this request would have stored it.
Shared(t, lead) ==
  /\ task[lead].resp.store
  /\ task[lead].resp.variant = KeyOf(task[lead].resp.variant # {}, task[t].field)

\* The flight is over: its answer is shared, or the request asks for itself.
Wake(c) ==
  LET t == Asked(c) IN
  /\ task[t].pc = "wait"
  /\ \E l \in task[t].lead :
       /\ \A fl \in flights : fl.lead # l
       /\ LET lead == Asked(l) IN
          \/ /\ Shared(t, lead)
             /\ Becomes(t, Over(t, NoResponse, Given(t, task[lead].resp)))
          \/ /\ ~Shared(t, lead)
             /\ Becomes(t, [task[t] EXCEPT !.pc = "fetch", !.lead = {}])
  /\ UNCHANGED <<stored, varyFile, flights, refreshing, cacheTime, gen, purged>>

\* The client leaves while it waits.
Leave(c) ==
  /\ task[Asked(c)].pc = "wait"
  /\ Becomes(Asked(c), Over(Asked(c), NoResponse, NoResponse))
  /\ UNCHANGED <<stored, varyFile, flights, refreshing, cacheTime, gen, purged>>

---------------------------------------------------------------------------
(* fetchOrigin *)

\* An error does not replace an entry that may still stand in for it.
Keeps(t, resp) == resp.store /\ (resp.good \/ ~Within(task[t].old, cacheTime, Sie))

\* The backend answers.  Only the parts of an answer that is stored matter.
Answer(t) ==
  /\ task[t].pc = "fetch"
  /\ \E v, good, store \in BOOLEAN :
       LET resp == [variant |-> KeyOf(v, task[t].field), good |-> good, store |-> store]
           kept == [resp EXCEPT !.store = Keeps(t, resp)] IN
       /\ ~store => ~v
       /\ Becomes(t, [task[t] EXCEPT !.resp = kept,
                        !.pc = IF ~kept.store THEN "end"
                               ELSE IF v \/ task[t].vary THEN "setVary" ELSE "set"])
  /\ UNCHANGED <<stored, varyFile, flights, refreshing, cacheTime, gen, purged>>

\* The list of headers is written, then the entry.
SetVary(t) ==
  /\ task[t].pc = "setVary"
  /\ varyFile' \in {task[t].resp.variant # {}} \cup (IF Mixed(t, "setVary", {}) THEN {FALSE} ELSE {})
  /\ Becomes(t, [task[t] EXCEPT !.pc = "set"])
  /\ UNCHANGED <<stored, flights, refreshing, cacheTime, gen, purged>>

SetEntry(t) ==
  /\ task[t].pc = "set"
  /\ \E e \in {[resp |-> task[t].resp, expires |-> cacheTime + Ttl]} \cup
             (IF Mixed(t, "set", task[t].resp.variant) THEN {NoFile} ELSE {}) :
       stored' = [stored EXCEPT ![task[t].resp.variant] = e]
  /\ Becomes(t, [task[t] EXCEPT !.pc = "end"])
  /\ UNCHANGED <<varyFile, flights, refreshing, cacheTime, gen, purged>>

\* A request has its answer; its flight, if it leads one, is over.
EndRequest(c) ==
  LET t == Asked(c) IN
  /\ task[t].pc = "end"
  /\ flights' = {fl \in flights : fl.lead # c}
  /\ Becomes(t, Over(t, task[t].resp, Given(t, task[t].resp)))
  /\ UNCHANGED <<stored, varyFile, refreshing, cacheTime, gen, purged>>

EndRevalidation(c) ==
  LET t == Behind(c) IN
  /\ task[t].pc = "end"
  /\ refreshing' = refreshing \ {[gen |-> task[t].gen, key |-> LookupKey(t)]}
  /\ Becomes(t, Rest(task[t].field))
  /\ UNCHANGED <<stored, varyFile, flights, cacheTime, gen, purged>>

\* Fault: the flight is not ended.
Abort_leak(c) ==
  /\ task[Asked(c)].pc = "fetch"
  /\ Becomes(Asked(c), Over(Asked(c), NoResponse, NoResponse))
  /\ UNCHANGED <<stored, varyFile, flights, refreshing, cacheTime, gen, purged>>

\* The backend breaks off its answer: the proxy panics, the deferred call ends the flight
\* and the server drops the request.
Abort(c) ==
  /\ task[Asked(c)].pc = "fetch"
  /\ flights' = {fl \in flights : fl.lead # c}
  /\ Becomes(Asked(c), Over(Asked(c), NoResponse, NoResponse))
  /\ UNCHANGED <<stored, varyFile, refreshing, cacheTime, gen, purged>>

\* The same in a revalidation: nothing recovers in its goroutine, the process ends and is
\* started again with its files.
CrashInRevalidation(c) ==
  /\ task[Behind(c)].pc = "fetch"
  /\ task' = [t \in CacheTask |-> IF task[t].pc \in {"idle", "done"} THEN task[t]
                                  ELSE IF t[2] = "request" THEN Over(t, NoResponse, NoResponse)
                                  ELSE Rest(task[t].field)]
  /\ flights' = {} /\ refreshing' = {}
  /\ UNCHANGED <<stored, varyFile, cacheTime, gen, purged>>

---------------------------------------------------------------------------
(* Purge, time, configuration *)

\* PurgeMatching goes through the directory file by file, while requests go on.  It removes
\* the entries that match, by tags and paths that are of no concern here ...
PurgeEntry(k) ==
  /\ gen + purged < MaxUpset /\ purged' = purged + 1
  /\ Exists(stored[k])
  /\ stored' = [stored EXCEPT ![k] = NoFile]
  /\ UNCHANGED <<task, varyFile, flights, refreshing, cacheTime, gen>>

\* ... and the list of headers, when it removes everything.
PurgeVary ==
  /\ gen + purged < MaxUpset /\ purged' = purged + 1
  /\ varyFile /\ varyFile' = FALSE
  /\ UNCHANGED <<task, stored, flights, refreshing, cacheTime, gen>>

TickCache ==
  /\ cacheTime < MaxCacheTime /\ cacheTime' = cacheTime + 1
  /\ UNCHANGED <<task, stored, varyFile, flights, refreshing, gen, purged>>

\* The configuration changes: requests to come have another DiskCache.
NewHandlers ==
  /\ gen + purged < MaxUpset /\ gen' = gen + 1
  /\ UNCHANGED <<task, stored, varyFile, flights, refreshing, cacheTime, purged>>

StepOf(c) ==
  \/ LoadEntry(c) \/ Enter(c) \/ Wake(c) \/ EndRequest(c) \/ Abort(c)
  \/ Answer(Asked(c)) \/ SetVary(Asked(c)) \/ SetEntry(Asked(c))
RevalidationOf(c) ==
  \/ Answer(Behind(c)) \/ SetVary(Behind(c)) \/ SetEntry(Behind(c)) \/ EndRevalidation(c)
  \/ CrashInRevalidation(c)

CacheNext ==
  \/ \E c \in Client : Come(c) \/ Leave(c) \/ StepOf(c) \/ RevalidationOf(c)
  \/ \E k \in CacheKey : PurgeEntry(k)
  \/ PurgeVary \/ TickCache \/ NewHandlers

\* A backend answers or its connection breaks in the end.
CacheFairness == \A c \in Client : WF_cacheVars(StepOf(c))

CacheSpec == CacheInit /\ [][CacheNext]_cacheVars /\ CacheFairness

---------------------------------------------------------------------------
(* Properties *)

CacheRecord ==
  [pc : {"idle", "load", "enter", "wait", "fetch", "setVary", "set", "end", "done"},
   gen : 0..MaxUpset, field : Field, vary : BOOLEAN, now : 0..MaxCacheTime,
   old : CacheEntry \cup {NoFile}, lead : SUBSET Client,
   resp : Response \cup {NoResponse}, served : Response \cup {NoResponse}]

CacheTypeOK ==
  /\ task \in [CacheTask -> CacheRecord]
  /\ stored \in [CacheKey -> CacheEntry \cup {NoFile}]
  /\ varyFile \in BOOLEAN
  /\ flights \subseteq [gen : 0..MaxUpset, key : CacheKey, lead : Client]
  /\ refreshing \subseteq [gen : 0..MaxUpset, key : CacheKey]
  /\ cacheTime \in 0..MaxCacheTime /\ gen \in 0..MaxUpset /\ purged \in 0..MaxUpset

\* A client is given what the backend answered to it, or what may be stored and was given
\* to a request that agrees with its own on the header the answer depends on: whatever
\* Vary says before and after, whoever led the flight and whatever was purged.
RightVariant ==
  \A c \in Client : LET r == task[Asked(c)] IN
    r.served \notin {NoResponse, r.resp} => r.served.store /\ r.served.variant \in {{}, {r.field}}

\* A stored answer, which may be given to a request with this value of the header.
Fits(resp, f) == resp.store /\ resp.variant \in {{}, {f}}

\* What a task holds fits it: the entry it loaded, its own answer, and what it gave once it
\* is over.
TaskSound(r) ==
  /\ Exists(r.old) => Fits(r.old.resp, r.field)
  /\ r.resp # NoResponse => r.resp.variant \in {{}, {r.field}}
  /\ r.pc \in {"setVary", "set"} => r.resp # NoResponse /\ r.resp.store
  /\ r.pc # "done" => r.served = NoResponse
  /\ r.served \notin {NoResponse, r.resp} => Fits(r.served, r.field)

\* Every file holds a stored answer under its own key, and every task what fits it.
CacheInv ==
  /\ CacheTypeOK
  /\ \A t \in CacheTask : TaskSound(task[t])
  /\ \A k \in CacheKey : Exists(stored[k]) => stored[k].resp.store /\ stored[k].resp.variant = k

\* Every request ends (there are finitely many): a flight whose leader failed does not keep
\* those that wait for it.
RequestsEnd == <>[](\A c \in Client : task[Asked(c)].pc \in {"idle", "done"})

\* Revalidations of one key, of any generation, do not overlap.
OneRevalidation ==
  \A c, d \in Client :
    /\ "idle" \notin {task[Behind(c)].pc, task[Behind(d)].pc}
    /\ LookupKey(Behind(c)) = LookupKey(Behind(d))
    => c = d

\* An error does not replace an entry while the entry may stand in for it.
ErrorKeepsEntry ==
  [][\A k \in CacheKey :
       Within(stored[k], cacheTime, Sie) /\ stored[k].resp.good /\ Exists(stored'[k])
         => stored'[k].resp.good]_cacheVars

\* A revalidation that fails takes no request with it.
RevalidationHarmless ==
  [][(\E c \in Client : task[Behind(c)].pc = "fetch" /\ task'[Behind(c)].pc = "idle")
       => \A c \in Client : task'[Asked(c)] = task[Asked(c)]]_cacheVars

================================================================================
