---------------------------- MODULE MemoryRuntime ----------------------------
(* The relationship memory of the characters: TencentDbRuntime                    *)
(* (memory/tencentdb-runtime.ts) and the memory core under it                     *)
(* (tdai-core/src/core/tdai-core.ts), whose stores are cached by directory        *)
(* (tdai-core/src/utils/pipeline-factory.ts), borrowing the shared embedding      *)
(* provider; the settings that change the provider, the resets they cause, and    *)
(* the shutdown of the host (character-runtime.ts, runtime.ts, composition.ts).   *)
(*                                                                                *)
(* A character has one directory, and an instance of the memory at a time:        *)
(* resetMemory() closes it and the next use makes another. A crash loses all but  *)
(* the settings and the directories.                                              *)
EXTENDS SharedEmbedding

CONSTANTS Characters,
          Uses,          \* recalls, searches and captures
          Ops,           \* requests: a change of the settings, a character's memory switch
          Host,
          MaxMemories,   \* bound: instances of a character's memory
          MaxChanges,    \* bound: changes of the settings
          MaxRestarts    \* bound: crashes of the process

Memories == Characters \X (1..MaxMemories)

ASSUME MemoryAssumption == /\ Callers = Memories \cup Uses
                           /\ Resetters = Ops \cup {Host} /\ Host \notin Ops
                           /\ Memories \cap Uses = {} /\ None \notin Characters
                           /\ {MaxMemories, MaxChanges, MaxRestarts} \subseteq Nat
                           /\ MaxProviders > MaxChanges + MaxFailures

VARIABLES runtime,   \* [Characters -> the instance in use, or None]
          memory,    \* [Memories -> how far its start or its close is, and its store]
          store,     \* [Memories -> the initialisation of a store it ran]
          cache,     \* [Characters -> whose initialisation the cache holds, or None]
          index,     \* [Characters -> of what the vectors are, and which are missing]
          use,       \* [Uses -> a use of a memory]
          op,        \* [Ops -> a request under way]
          visit,     \* [Ops -> [Characters -> its resetMemory]]
          changes,   \* changes of the settings so far
          host,      \* "runs", "memories", "shared", "failed" or "closed"
          restarts

stores == <<runtime, memory, store, cache>>
requests == <<op, visit, changes>>
life == <<host, restarts>>
own == <<stores, index, use, requests, life>>
vars == <<config, shared, own>>

NoMemory == [at |-> "none", closed |-> FALSE, store |-> None, resets |-> None]
NoStore == [state |-> "none", provider |-> None, reindex |-> FALSE]
NoUse == [at |-> "idle", of |-> None, writes |-> FALSE]
NoVisit == [at |-> "no", of |-> None]

Init == /\ SharedInit /\ config \in Configurations /\ failures = 0
        /\ runtime = [c \in Characters |-> None]
        /\ memory = [m \in Memories |-> NoMemory]
        /\ store = [m \in Memories |-> NoStore]
        /\ cache = [c \in Characters |-> None]
        /\ index = [c \in Characters |-> [config |-> None, missing |-> {}]]
        /\ use = [u \in Uses |-> NoUse]
        /\ op = [o \in Ops |-> "idle"]
        /\ visit = [o \in Ops |-> [c \in Characters |-> NoVisit]]
        /\ changes = 0 /\ host = "runs" /\ restarts = 0

Of(m) == m[1]
Starting(m) == memory[m].at \in {"opens", "joins", "indexes", "drops"}
Started(m) == memory[m].at = "ready" /\ ~memory[m].closed
StoreOf(m) == store[memory[m].store]
Provider(m) == IF memory[m].store = None THEN None ELSE StoreOf(m).provider
Open(m) == memory[m].store # None /\ StoreOf(m).state = "open"

-----------------------------------------------------------------------------
(* start(), and TdaiCore.initialize() under it *)

(* Seeded fault: an initialisation is found under another name of the directory. *)
CachedByItself(m) == cache[Of(m)] = m
Cached(m) == cache[Of(m)] # None

(* startMemory() of a use: the instance in use, or a new one, is started unless it *)
(* is started or starts already. Those whose start was over went on first.         *)
Waiting(m) == \E u \in Uses : use[u].at = "waits" /\ use[u].of = m
Asks(u, m) ==
    /\ use' = [use EXCEPT ![u] = [NoUse EXCEPT !.at = "waits", !.of = m]]
    /\ IF Started(m) \/ Starting(m)
       THEN UNCHANGED <<get, memory, store, cache>>
       ELSE /\ ~Waiting(m)
            /\ IF Cached(m)
               THEN /\ memory' = [memory EXCEPT ![m].at = "joins", ![m].store = cache[Of(m)]]
                    /\ UNCHANGED <<get, store, cache>>
               ELSE /\ memory' = [memory EXCEPT ![m].at = "opens", ![m].store = m]
                    /\ cache' = [cache EXCEPT ![Of(m)] = m]
                    /\ store' = [store EXCEPT ![m] = [NoStore EXCEPT !.state = "opening"]]
                    /\ get' = [get EXCEPT ![m] = Asked]

(* Memory is enabled as long as the settings name a provider. *)
UseAsks(u, c) ==
    /\ use[u].at = "idle" /\ host = "runs" /\ config # Off
    /\ IF runtime[c] # None
       THEN /\ ~memory[runtime[c]].closed
            /\ Asks(u, runtime[c])
            /\ UNCHANGED runtime
       ELSE \E i \in 1..MaxMemories :
               /\ memory[<<c, i>>].at = "none" /\ \A j \in 1..(i - 1) : memory[<<c, j>>].at # "none"
               /\ runtime' = [runtime EXCEPT ![c] = <<c, i>>]
               /\ Asks(u, <<c, i>>)
    /\ UNCHANGED <<config, provision, calls, reset, failures, index, requests, life>>

(* A start that is over leaves the instance ready, or as before. *)
StartEnds(m, at) == memory' = [memory EXCEPT ![m].at = at]

(* The vectors there are are of another provider, or of too few records. *)
NeedsReindex(c, p) == /\ p # None
                      /\ \/ index[c].config \notin {None, providers[p].config}
                         \/ index[c].missing # {}

(* Seeded fault: the index keeps the configuration it was made for. *)
ReindexingUnsaved(c, p) ==
    IF p = None \/ index[c].config # None THEN index[c]
    ELSE [config |-> providers[p].config, missing |-> IF NeedsReindex(c, p) THEN {None} ELSE {}]
Reindexing(c, p) == IF p = None THEN index[c]
                    ELSE [config |-> providers[p].config,
                          missing |-> IF NeedsReindex(c, p) THEN {None} ELSE {}]

StoreOpens(m) ==
    /\ memory[m].at = "opens" /\ get[m].phase = "got"
    /\ LET p == get[m].provider IN
         /\ store' = [store EXCEPT ![m] = [state |-> "open", provider |-> p,
                                           reindex |-> NeedsReindex(Of(m), p)]]
         /\ StartEnds(m, IF NeedsReindex(Of(m), p) THEN "indexes" ELSE "ready")
         /\ index' = [index EXCEPT ![Of(m)] = Reindexing(Of(m), p)]
    /\ get' = [get EXCEPT ![m] = NoGet]
    /\ UNCHANGED <<config, provision, calls, reset, failures, runtime, cache, use, requests,
                   life>>

StoresGone(n) == [memory[n] EXCEPT !.at = IF @ = "drops" THEN "idle" ELSE "gone",
                                   !.store = None, !.resets = None]

(* The provider or the store fails: whoever awaits the initialisation goes on. *)
StoreFails(m) ==
    /\ memory[m].at = "opens"
    /\ \/ get[m].phase = "failed" /\ UNCHANGED failures
       \/ get[m].phase = "got" /\ Fails
    /\ store' = [store EXCEPT ![m].state = "failed"]
    /\ cache' = [cache EXCEPT ![Of(m)] = IF @ = m THEN None ELSE @]
    /\ memory' = [n \in Memories |->
                    CASE memory[n].at \in {"opens", "joins"} /\ memory[n].store = m ->
                           [memory[n] EXCEPT !.at = "idle", !.store = None]
                      [] memory[n].at \in {"drops", "shuts"} /\ memory[n].resets = m ->
                           StoresGone(n)
                      [] OTHER -> memory[n]]
    /\ get' = [get EXCEPT ![m] = NoGet]
    /\ UNCHANGED <<config, provision, calls, reset, runtime, index, use, requests, life>>

(* An instance that found the initialisation in the cache. *)
StoreTaken(m) ==
    /\ memory[m].at = "joins" /\ StoreOf(m).state \in {"open", "closed"}
    /\ StartEnds(m, IF StoreOf(m).reindex THEN "indexes" ELSE "ready")
    /\ UNCHANGED <<config, shared, runtime, store, cache, index, use, requests, life>>

(* reindexAll(): the records are embedded one by one. *)
IndexCalls(m) ==
    /\ memory[m].at = "indexes" /\ calls[m] = None
    /\ CallBegins(m, Provider(m))
    /\ UNCHANGED <<config, provision, get, reset, failures, own>>

Indexed(m) ==
    /\ memory[m].at = "indexes" /\ Open(m) /\ CallEnds(m)
    /\ index' = [index EXCEPT ![Of(m)].missing = {}]
    /\ StartEnds(m, "ready")
    /\ UNCHANGED <<config, provision, get, reset, failures, runtime, store, cache, use,
                   requests, life>>

(* A call fails, or it is not the last and the next one is refused, or the store  *)
(* is closed: the stores of the directory are reset.                              *)
IndexFails(m) ==
    /\ memory[m].at = "indexes"
    /\ IF ~Usable(Provider(m)) \/ ~Open(m) THEN UNCHANGED failures ELSE Fails
    /\ calls' = [calls EXCEPT ![m] = None]
    /\ memory' = [memory EXCEPT ![m].at = "drops", ![m].resets = cache[Of(m)]]
    /\ UNCHANGED <<config, provision, get, reset, runtime, store, cache, index, use, requests,
                   life>>

StartStep(m) == \/ StoreOpens(m) \/ StoreFails(m) \/ StoreTaken(m)
                \/ IndexCalls(m) \/ Indexed(m) \/ IndexFails(m)

-----------------------------------------------------------------------------
(* close(): the start is awaited, then TdaiCore.destroy() resets the stores *)

(* Seeded fault: an instance whose start failed is not destroyed. *)
DestroysReady(m) == /\ memory[m].closed /\ memory[m].at = "ready"
                    /\ memory' = [memory EXCEPT ![m].at = "shuts", ![m].resets = cache[Of(m)]]
                    /\ UNCHANGED <<config, shared, runtime, store, cache, index, use, requests,
                                   life>>

Destroys(m) == /\ memory[m].closed /\ memory[m].at \in {"idle", "ready"}
               /\ memory' = [memory EXCEPT ![m].at = "shuts", ![m].resets = cache[Of(m)]]
               /\ UNCHANGED <<config, shared, runtime, store, cache, index, use, requests,
                              life>>

StoreClosed(s) == [n \in Memories |-> [store[n] EXCEPT
                     !.state = IF n = s /\ @ = "open" THEN "closed" ELSE @]]

(* resetStores(): the cached initialisation is awaited, its store closed, and the *)
(* entry removed if it is still there.                                            *)
StoresReset(m) ==
    /\ memory[m].at \in {"drops", "shuts"}
    /\ LET s == memory[m].resets IN
         /\ s # None => store[s].state # "opening"
         /\ store' = StoreClosed(s)
         /\ cache' = [cache EXCEPT ![Of(m)] = IF @ = s THEN None ELSE @]
    /\ memory' = [memory EXCEPT ![m] = StoresGone(m)]
    /\ UNCHANGED <<config, shared, runtime, index, use, requests, life>>

-----------------------------------------------------------------------------
(* Uses: a recall or a search embeds a query; a capture writes records, and then  *)
(* embeds them in the background                                                  *)

UseGoes(u) == /\ use[u].at = "waits" /\ ~Starting(use[u].of)
              /\ use' = [use EXCEPT ![u] = IF Started(use[u].of) THEN [@ EXCEPT !.at = "has"]
                                          ELSE NoUse]
              /\ UNCHANGED <<config, shared, stores, index, requests, life>>

Query(u) == /\ use[u].at = "has"
            /\ IF Usable(Provider(use[u].of))
               THEN /\ CallBegins(u, Provider(use[u].of))
                    /\ use' = [use EXCEPT ![u].at = "calls"]
               ELSE /\ use' = [use EXCEPT ![u] = NoUse]
                    /\ UNCHANGED calls
            /\ UNCHANGED <<config, provision, get, reset, failures, stores, index, requests,
                           life>>

(* The records are written at once. Without a provider they stay without vectors. *)
Capture(u) ==
    /\ use[u].at = "has" /\ Open(use[u].of)
    /\ LET c == Of(use[u].of) IN
         /\ index' = [index EXCEPT ![c].missing = @ \cup {u}]
         /\ IF Usable(Provider(use[u].of))
            THEN /\ CallBegins(u, Provider(use[u].of))
                 /\ use' = [use EXCEPT ![u].at = "background",
                                        ![u].writes = u \notin index[c].missing]
            ELSE /\ use' = [use EXCEPT ![u] = NoUse]
                 /\ UNCHANGED calls
    /\ UNCHANGED <<config, provision, get, reset, failures, stores, requests, life>>

(* The vectors are written, unless the store is closed by now.                    *)
UseEnds(u) ==
    /\ use[u].at \in {"calls", "background"} /\ CallEnds(u)
    /\ use' = [use EXCEPT ![u] = NoUse]
    /\ index' = IF use[u].writes /\ Open(use[u].of)
                THEN [index EXCEPT ![Of(use[u].of)].missing = @ \ {u}]
                ELSE index
    /\ UNCHANGED <<config, provision, get, reset, failures, stores, requests, life>>

UseFails(u) ==
    /\ use[u].at \in {"calls", "background"} /\ CallEnds(u) /\ Fails
    /\ use' = [use EXCEPT ![u] = NoUse]
    /\ UNCHANGED <<config, provision, get, reset, stores, index, requests, life>>

UseStep(u) == UseGoes(u) \/ Query(u) \/ Capture(u) \/ UseEnds(u) \/ UseFails(u)

-----------------------------------------------------------------------------
(* Requests. The settings are saved, and then every open character is visited.    *)

Visits(o, C) == visit' = [visit EXCEPT ![o] = [c \in Characters |->
                            [NoVisit EXCEPT !.at = IF c \in C THEN "begins" ELSE "no"]]]

Change(o, setting) ==
    /\ host = "runs" /\ op[o] = "idle" /\ setting # config
    /\ changes < MaxChanges /\ changes' = changes + 1
    /\ config' = setting
    /\ op' = [op EXCEPT ![o] = "changes"]
    /\ Visits(o, Characters)
    /\ UNCHANGED <<shared, stores, index, use, life>>

(* A character's memory is switched on or off: its runtime is released. *)
Release(o, c) ==
    /\ host = "runs" /\ op[o] = "idle"
    /\ op' = [op EXCEPT ![o] = "releases"]
    /\ Visits(o, {c})
    /\ UNCHANGED <<config, shared, stores, index, use, changes, life>>

(* resetMemory(): an instance that closes already is not awaited. *)
ResetMemory(o, c) ==
    /\ visit[o][c].at = "begins"
    /\ LET m == runtime[c] IN
         IF m = None \/ memory[m].closed
         THEN /\ runtime' = [runtime EXCEPT ![c] = None]
              /\ visit' = [visit EXCEPT ![o][c] = NoVisit]
              /\ UNCHANGED memory
         ELSE /\ memory' = [memory EXCEPT ![m].closed = TRUE]
              /\ visit' = [visit EXCEPT ![o][c] = [at |-> "closes", of |-> m]]
              /\ UNCHANGED runtime
    /\ UNCHANGED <<config, shared, store, cache, index, use, op, changes, life>>

ResetMemoryEnds(o, c) ==
    /\ visit[o][c].at = "closes" /\ memory[visit[o][c].of].at = "gone"
    /\ runtime' = [runtime EXCEPT ![c] = IF @ = visit[o][c].of THEN None ELSE @]
    /\ visit' = [visit EXCEPT ![o][c] = NoVisit]
    /\ UNCHANGED <<config, shared, memory, store, cache, index, use, op, changes, life>>

Visited(o) == \A c \in Characters : visit[o][c].at = "no"

ReleaseEnds(o) == /\ op[o] = "releases" /\ Visited(o)
                  /\ op' = [op EXCEPT ![o] = "idle"]
                  /\ UNCHANGED <<config, shared, stores, index, use, visit, changes, life>>

(* Then the provider is reset. *)
ChangeResets(o) ==
    /\ op[o] = "changes" /\ Visited(o)
    /\ op' = [op EXCEPT ![o] = "resets"]
    /\ ResetBegins(o)
    /\ UNCHANGED <<config, providers, service, opening, disposed, get, calls, failures, stores,
                   index, use, visit, changes, life>>

ChangeEnds(o) ==
    /\ op[o] = "resets" /\ reset[o].at \in {"done", "failed"}
    /\ op' = [op EXCEPT ![o] = "idle"]
    /\ reset' = [reset EXCEPT ![o] = NoReset]
    /\ UNCHANGED <<config, provision, get, calls, failures, stores, index, use, visit, changes,
                   life>>

OpStep(o) == \/ \E c \in Characters : ResetMemory(o, c) \/ ResetMemoryEnds(o, c)
             \/ ReleaseEnds(o) \/ ChangeResets(o) \/ ChangeEnds(o)

-----------------------------------------------------------------------------
(* The host closes: no use and no request begins, those under way are awaited, the *)
(* memories are closed, then the provider. A failure leaves it to be closed again.  *)

HostCloses == /\ host \in {"runs", "failed"}
              /\ host' = "memories"
              /\ UNCHANGED <<config, shared, stores, index, use, requests, restarts>>

Admitted(c) == \/ \E u \in Uses : use[u].at \in {"waits", "has", "calls"} /\ Of(use[u].of) = c
               \/ \E o \in Ops : visit[o][c].at # "no"

MemoryCloses(c) ==
    /\ host = "memories" /\ ~Admitted(c)
    /\ runtime[c] # None /\ ~memory[runtime[c]].closed
    /\ memory' = [memory EXCEPT ![runtime[c]].closed = TRUE]
    /\ UNCHANGED <<config, shared, runtime, store, cache, index, use, requests, life>>

(* Seeded fault: the provider is closed before the memories are. *)
HostSharesEarly ==
    /\ host = "memories"
    /\ \A o \in Ops : op[o] = "idle"
    /\ host' = "shared" /\ disposed' = TRUE
    /\ ResetBegins(Host)
    /\ UNCHANGED <<config, providers, service, opening, get, calls, failures, stores, index,
                   use, requests, restarts>>

HostShares ==
    /\ host = "memories"
    /\ \A o \in Ops : op[o] = "idle"
    /\ \A c \in Characters : /\ ~Admitted(c)
                             /\ runtime[c] # None => memory[runtime[c]].at = "gone"
    /\ host' = "shared" /\ disposed' = TRUE
    /\ ResetBegins(Host)
    /\ UNCHANGED <<config, providers, service, opening, get, calls, failures, stores, index,
                   use, requests, restarts>>

HostEnds == /\ host = "shared" /\ reset[Host].at \in {"done", "failed"}
            /\ host' = IF reset[Host].at = "done" THEN "closed" ELSE "failed"
            /\ reset' = [reset EXCEPT ![Host] = NoReset]
            /\ UNCHANGED <<config, provision, get, calls, failures, stores, index, use,
                           requests, restarts>>

HostStep == \/ \E c \in Characters : MemoryCloses(c)
            \/ HostShares \/ HostEnds

(* The process ends, by itself or at the end of a shutdown, and starts again. *)
Restart ==
    /\ restarts < MaxRestarts /\ restarts' = restarts + 1
    /\ providers' = [p \in Providers |-> NoProvider]
    /\ service' = None /\ opening' = None /\ resetting' = None /\ disposed' = FALSE
    /\ get' = [g \in Callers |-> NoGet] /\ calls' = [g \in Callers |-> None]
    /\ reset' = [o \in Resetters |-> NoReset]
    /\ runtime' = [c \in Characters |-> None]
    /\ memory' = [m \in Memories |-> NoMemory]
    /\ store' = [m \in Memories |-> NoStore]
    /\ cache' = [c \in Characters |-> None]
    /\ use' = [u \in Uses |-> NoUse]
    /\ op' = [o \in Ops |-> "idle"]
    /\ visit' = [o \in Ops |-> [c \in Characters |-> NoVisit]]
    /\ host' = "runs"
    /\ UNCHANGED <<config, failures, index, changes>>

MemoryStep(m) == StartStep(m) \/ Destroys(m) \/ StoresReset(m)

Next == \/ SharedStep /\ UNCHANGED <<config, own>>
        \/ \E m \in Memories : MemoryStep(m)
        \/ \E u \in Uses : UseStep(u) \/ \E c \in Characters : UseAsks(u, c)
        \/ \E o \in Ops : \/ OpStep(o)
                          \/ \E setting \in Configurations : Change(o, setting)
                          \/ \E c \in Characters : Release(o, c)
        \/ HostCloses \/ HostStep
        \/ Restart

Spec == Init /\ [][Next]_vars

FairSpec == /\ Spec
            /\ WF_vars(\E p \in Providers : ProviderCloses(p) /\ UNCHANGED <<config, own>>)
            /\ \A g \in Callers : WF_vars(GetStep(g) /\ UNCHANGED <<config, own>>)
            /\ \A o \in Resetters : WF_vars(ResetStep(o) /\ UNCHANGED <<config, own>>)
            /\ \A m \in Memories : WF_vars(MemoryStep(m))
            /\ \A u \in Uses : WF_vars(UseStep(u))
            /\ \A o \in Ops : WF_vars(OpStep(o))
            /\ WF_vars(HostStep)

-----------------------------------------------------------------------------
StartStates == {"none", "idle", "opens", "joins", "indexes", "ready", "drops", "shuts", "gone"}

(* Every variable holds a value the program can give it. *)
TypeOK ==
    /\ SharedTypeOK
    /\ runtime \in [Characters -> Memories \cup {None}]
    /\ memory \in [Memories -> [at : StartStates, closed : BOOLEAN, store : Memories \cup {None},
                                resets : Memories \cup {None}]]
    /\ store \in [Memories -> [state : {"none", "opening", "open", "closed", "failed"},
                               provider : Providers \cup {None}, reindex : BOOLEAN]]
    /\ cache \in [Characters -> Memories \cup {None}]
    /\ index \in [Characters -> [config : Configurations \cup {None},
                                 missing : SUBSET (Uses \cup {None})]]
    /\ use \in [Uses -> [at : {"idle", "waits", "has", "calls", "background"},
                         of : Memories \cup {None}, writes : BOOLEAN]]
    /\ op \in [Ops -> {"idle", "changes", "releases", "resets"}]
    /\ visit \in [Ops -> [Characters -> [at : {"no", "begins", "closes"},
                                         of : Memories \cup {None}]]]
    /\ changes \in 0..MaxChanges
    /\ host \in {"runs", "memories", "shared", "failed", "closed"} /\ restarts \in 0..MaxRestarts

(* A directory has one SQLite handle at a time (pipeline-factory.ts, resetStores). *)
OneHandle == \A m, n \in Memories :
    Of(m) = Of(n) /\ store[m].state = "open" /\ store[n].state = "open" => m = n

(* A memory that is started searches vectors of its own provider only, and none is *)
(* missing that was there before (tdai-core.ts, initStores).                       *)
StartedIsIndexed == \A m \in Memories :
    Started(m) /\ Provider(m) # None =>
        /\ index[Of(m)].config = providers[Provider(m)].config
        /\ None \notin index[Of(m)].missing

(* A host that has closed holds no store, no provider and no call. *)
AllReleased == host = "closed" =>
    /\ \A m \in Memories : store[m].state \notin {"opening", "open"}
    /\ \A p \in Providers : providers[p].life \in {"none", "closed"}
    /\ \A g \in Callers : calls[g] = None

(* Every use, every request and every shutdown returns. *)
AllReturn == /\ \A u \in Uses : use[u].at # "idle" ~> use[u].at = "idle"
             /\ \A o \in Ops : op[o] # "idle" ~> op[o] = "idle"
             /\ host \in {"memories", "shared"} ~> host \notin {"memories", "shared"}
==============================================================================
