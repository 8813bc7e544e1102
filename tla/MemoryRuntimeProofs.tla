------------------------ MODULE MemoryRuntimeProofs ------------------------
(***************************************************************************)
(* Theorems about the memories of the characters over the shared provider, *)
(* for any number of characters, memories, uses, requests, changes of the  *)
(* settings, restarts and failures. The provider's own invariant is that   *)
(* of SharedEmbeddingProofs; here it is joined by who owns which store,    *)
(* what the index of each directory is of, and who still has to close an   *)
(* instance.                                                               *)
(***************************************************************************)
EXTENDS MemoryRuntime, SharedEmbeddingProofs

\* The vectors of a directory are of the provider its store was opened with.
Fits(s) == store[s].provider # None =>
    /\ index[Of(s)].config = providers[store[s].provider].config
    /\ ~store[s].reindex => None \notin index[Of(s)].missing

\* The store an instance opens, and who has it.
StoreSound(m) ==
    /\ store[m].state \in {"opening", "open"} => cache[Of(m)] = m
    /\ memory[m].at = "opens" <=> store[m].state = "opening"
    /\ memory[m].at = "opens" => memory[m].store = m
    /\ store[m].state = "open" =>
         /\ memory[m].store = m
         /\ memory[m].at \in {"indexes", "ready", "drops", "shuts"}
         /\ memory[m].at \in {"drops", "shuts"} => memory[m].resets = m
         /\ Fits(m)
    /\ store[m].provider # None => providers[store[m].provider].life # "none"

CacheSound(c) ==
    /\ cache[c] # None => /\ Of(cache[c]) = c
                          /\ store[cache[c]].state \in {"opening", "open"}
    /\ runtime[c] # None => /\ Of(runtime[c]) = c
                            /\ memory[runtime[c]].at # "none"

\* An instance that is not closed is the one in use.
InstanceSound(m) ==
    /\ memory[m].at = "none" => memory[m] = NoMemory
    /\ memory[m].at # "none" /\ ~memory[m].closed => runtime[Of(m)] = m
    /\ memory[m].at \in {"shuts", "gone"} => memory[m].closed
    /\ memory[m].store # None => Of(memory[m].store) = Of(m)
    /\ memory[m].resets # None => Of(memory[m].resets) = Of(m)

\* The store of an instance that is not closed, and what the index is of.
HasStore(m) == memory[m].at \in {"joins", "indexes", "ready"} =>
    /\ memory[m].store # None
    /\ \/ StoreOf(m).state \in {"open", "closed"}
       \/ StoreOf(m).state = "opening" /\ memory[m].at = "joins"
Matches(m) ==
    memory[m].at \in {"joins", "indexes", "ready"} /\ StoreOf(m).state \in {"open", "closed"} =>
      /\ Fits(memory[m].store)
      /\ memory[m].at = "ready" /\ StoreOf(m).provider # None =>
            None \notin index[Of(m)].missing
Alone(m) == memory[m].at # "none" => \A n \in Memories :
    memory[n].at = "opens" /\ Of(n) = Of(m) /\ n # m =>
       memory[m].at = "joins" /\ memory[m].store = n
IndexSound(m) == ~memory[m].closed => HasStore(m) /\ Matches(m) /\ Alone(m)

StoresSound ==
    /\ \A m \in Memories : StoreSound(m) /\ InstanceSound(m) /\ IndexSound(m)
    /\ \A c \in Characters : CacheSound(c)

\* Somebody awaits the close of an instance.
Visited1(o, m) == visit[o][Of(m)].at = "closes" /\ visit[o][Of(m)].of = m
CloseSound(m) == memory[m].closed /\ memory[m].at # "gone" =>
    \/ \E o \in Ops : Visited1(o, m)
    \/ /\ host = "memories" /\ runtime[Of(m)] = m
       /\ \A o \in Ops : visit[o][Of(m)].at = "no"

OpSound(o) ==
    /\ op[o] \in {"idle", "resets"} => Visited(o)
    /\ op[o] # "resets" => reset[o].at = "idle"
    /\ \A c \in Characters : visit[o][c].at = "closes" =>
          visit[o][c].of \in Memories /\ Of(visit[o][c].of) = c

UseSound(u) == use[u].at # "idle" => use[u].of \in Memories

HostSound ==
    /\ host # "shared" => reset[Host].at = "idle"
    /\ host \in {"shared", "failed", "closed"} =>
         disposed /\ \A m \in Memories : memory[m].at \in {"none", "gone"}
    /\ reset[Host].at = "done" \/ host = "closed" => service = None

MemorySound ==
    /\ StoresSound
    /\ \A m \in Memories : CloseSound(m)
    /\ \A o \in Ops : OpSound(o)
    /\ \A u \in Uses : UseSound(u)
    /\ HostSound

IInv == TypeOK /\ SharedSound /\ MemorySound

-----------------------------------------------------------------------------
(* Types *)

MemoryStates == [at : StartStates, closed : BOOLEAN, store : Memories \cup {None},
                 resets : Memories \cup {None}]
StoreStates == [state : {"none", "opening", "open", "closed", "failed"},
                provider : Providers \cup {None}, reindex : BOOLEAN]
IndexStates == [config : Configurations \cup {None}, missing : SUBSET (Uses \cup {None})]
UseStates == [at : {"idle", "waits", "has", "calls", "background"},
              of : Memories \cup {None}, writes : BOOLEAN]
VisitStates == [at : {"no", "begins", "closes"}, of : Memories \cup {None}]

StoresTyped ==
    /\ runtime \in [Characters -> Memories \cup {None}]
    /\ memory \in [Memories -> MemoryStates]
    /\ store \in [Memories -> StoreStates]
    /\ cache \in [Characters -> Memories \cup {None}]
RequestsTyped ==
    /\ op \in [Ops -> {"idle", "changes", "releases", "resets"}]
    /\ visit \in [Ops -> [Characters -> VisitStates]]
    /\ changes \in 0..MaxChanges
    /\ host \in {"runs", "memories", "shared", "failed", "closed"} /\ restarts \in 0..MaxRestarts
UsesTyped ==
    /\ index \in [Characters -> IndexStates]
    /\ use \in [Uses -> UseStates]

LEMMA Types == TypeOK <=> SharedTypeOK /\ StoresTyped /\ RequestsTyped /\ UsesTyped
BY DEF TypeOK, StoresTyped, RequestsTyped, UsesTyped, MemoryStates, StoreStates, IndexStates,
   UseStates, VisitStates

LEMMA TypesNext == TypeOK' <=> SharedTypeOK' /\ StoresTyped' /\ RequestsTyped' /\ UsesTyped'
BY DEF TypeOK, StoresTyped, RequestsTyped, UsesTyped, MemoryStates, StoreStates, IndexStates,
   UseStates, VisitStates

LEMMA Names ==
    /\ None \notin Memories /\ None \notin Uses /\ None \notin Characters
    /\ \A m \in Memories : m \in Callers /\ Of(m) \in Characters
    /\ \A u \in Uses : u \in Callers
    /\ Host \in Resetters /\ Host \notin Ops
    /\ \A o \in Ops : o \in Resetters
    /\ \A c \in Characters, i \in 1..MaxMemories : <<c, i>> \in Memories /\ Of(<<c, i>>) = c
BY SharedAssumption, MemoryAssumption DEF Memories, Of

LEMMA ProviderTyped ==
    ASSUME TypeOK, NEW m \in Memories
    PROVE  Provider(m) \in Providers \cup {None}
BY Types DEF Provider, StoreOf, StoresTyped, StoreStates, MemoryStates

\* What the steps of an instance write.
LEMMA WritesTyped ==
    /\ NoMemory \in MemoryStates /\ NoStore \in StoreStates
    /\ NoUse \in UseStates /\ NoVisit \in VisitStates
    /\ \A x \in MemoryStates, s \in StartStates : [x EXCEPT !.at = s] \in MemoryStates
    /\ \A x \in MemoryStates, s \in StartStates, n \in Memories \cup {None} :
          /\ [x EXCEPT !.at = s, !.store = n] \in MemoryStates
          /\ [x EXCEPT !.at = s, !.resets = n] \in MemoryStates
    /\ \A x \in MemoryStates : [x EXCEPT !.closed = TRUE] \in MemoryStates
BY DEF NoMemory, NoStore, NoUse, NoVisit, MemoryStates, StoreStates, UseStates, VisitStates,
   StartStates

-----------------------------------------------------------------------------
(* The provider *)

\* What every step does with the provider leaves the invariant of the provider be.
LEMMA ProviderStays ==
    ASSUME TypeOK, SharedSound, \A o \in Ops : OpSound(o), HostSound, Next
    PROVE  SharedTypeOK' /\ SharedSound'
<1> USE Types
<1>1. CASE SharedStep /\ UNCHANGED <<config, own>>
  BY <1>1, SharedStepKeeps
<1>2. CASE \E m \in Memories : MemoryStep(m)
  <2> PICK m \in Memories : MemoryStep(m)
    BY <1>2
  <2>1. m \in Callers
    BY Names
  <2>2. /\ UNCHANGED <<provision, reset, config>>
        /\ Fails \/ UNCHANGED failures
        /\ UNCHANGED get \/ Asks1(m)
        /\ UNCHANGED calls \/ Calls1(m) \/ calls' = [calls EXCEPT ![m] = None]
    <3>1. CASE IndexCalls(m)
      BY <3>1, ProviderTyped DEF IndexCalls, Calls1, Asks1
    <3>2. CASE Indexed(m)
      BY <3>2 DEF Indexed, Calls1
    <3>3. CASE IndexFails(m)
      BY <3>3 DEF IndexFails
    <3>4. CASE StoreOpens(m) \/ StoreFails(m)
      BY <3>4 DEF StoreOpens, StoreFails, Asks1
    <3>5. CASE StoreTaken(m) \/ Destroys(m) \/ StoresReset(m)
      BY <3>5 DEF StoreTaken, Destroys, StoresReset, shared
    <3> QED BY <3>1, <3>2, <3>3, <3>4, <3>5 DEF MemoryStep, StartStep
  <2>3. config' \in Configurations
    BY <2>2, SharedTypes
  <2> QED BY <2>1, <2>2, <2>3, BorrowerStep
<1>3. CASE \E u \in Uses : UseStep(u)
  <2> PICK u \in Uses : UseStep(u)
    BY <1>3
  <2>1. u \in Callers
    BY Names
  <2>2. /\ UNCHANGED <<provision, reset, config, get>>
        /\ Fails \/ UNCHANGED failures
        /\ UNCHANGED calls \/ Calls1(u)
    <3>1. CASE UseGoes(u)
      BY <3>1 DEF UseGoes, shared
    <3>2. CASE UseEnds(u) \/ UseFails(u)
      BY <3>2 DEF UseEnds, UseFails, Calls1
    <3>3. CASE Query(u) \/ Capture(u)
      <4>1. /\ UNCHANGED <<provision, reset, config, get, failures>>
            /\ UNCHANGED calls \/ CallBegins(u, Provider(use[u].of))
        BY <3>3 DEF Query, Capture
      <4>2. CallBegins(u, Provider(use[u].of)) => Provider(use[u].of) \in Providers
        BY SharedTypes DEF CallBegins, Usable
      <4> QED BY <4>1, <4>2 DEF Calls1
    <3> QED BY <3>1, <3>2, <3>3 DEF UseStep
  <2>3. config' \in Configurations
    BY <2>2, SharedTypes
  <2> QED BY <2>1, <2>2, <2>3, BorrowerStep
<1>4. CASE \E u \in Uses, c \in Characters : UseAsks(u, c)
  <2> PICK u \in Uses, c \in Characters : UseAsks(u, c)
    BY <1>4
  <2>1. /\ UNCHANGED <<config, provision, calls, reset, failures>>
        /\ \E m \in Memories : Asks(u, m)
    <3>1. CASE runtime[c] # None
      BY <3>1 DEF UseAsks, StoresTyped
    <3>2. CASE runtime[c] = None
      BY <3>2, Names DEF UseAsks
    <3> QED BY <3>1, <3>2 DEF UseAsks
  <2>2. PICK m \in Memories : Asks(u, m)
    BY <2>1
  <2>3. UNCHANGED get \/ Asks1(m)
    BY <2>2 DEF Asks, Asks1
  <2>4. m \in Callers /\ config' \in Configurations
    BY <2>1, Names, SharedTypes
  <2> QED BY <2>1, <2>3, <2>4, BorrowerStep
<1>5. CASE \E o \in Ops : ChangeResets(o) \/ ChangeEnds(o)
  <2> PICK o \in Ops : ChangeResets(o) \/ ChangeEnds(o)
    BY <1>5
  <2>1. o \in Resetters /\ OpSound(o)
    BY Names
  <2>2. CASE ChangeResets(o)
    <3>1. /\ reset[o].at = "idle" /\ ResetBegins(o) /\ disposed' \in BOOLEAN
          /\ UNCHANGED <<config, providers, service, opening, get, calls, failures>>
      BY <2>1, <2>2, SharedTypes DEF ChangeResets, OpSound
    <3> QED BY <2>1, <3>1, ResetBeginsKeeps
  <2>3. CASE ChangeEnds(o)
    BY <2>1, <2>3, ResetLeaves DEF ChangeEnds
  <2> QED BY <2>2, <2>3
<1>6. CASE HostShares
  <2>1. /\ reset[Host].at = "idle" /\ ResetBegins(Host) /\ disposed' \in BOOLEAN
        /\ UNCHANGED <<config, providers, service, opening, get, calls, failures>>
    BY <1>6 DEF HostShares, HostSound
  <2> QED BY <2>1, Names, ResetBeginsKeeps
<1>7. CASE HostEnds
  BY <1>7, Names, ResetLeaves DEF HostEnds
<1>8. CASE Restart
  <2>1. SharedInit' /\ UNCHANGED <<config, failures>>
    BY <1>8 DEF Restart, SharedInit
  <2>2. Starts'
    BY <2>1, SharedTypes DEF Starts
  <2> QED BY <2>2, StartSoundNext
<1>9. ASSUME UNCHANGED shared, config' \in Configurations
      PROVE  SharedTypeOK' /\ SharedSound'
  <2>1. \A g \in Callers : GetChanges(g) /\ CallChanges(g)
    BY <1>9 DEF GetChanges, CallChanges, shared
  <2>2. SharedTypeOK'
    BY <1>9, SharedTypes, SharedTypesNext DEF shared, provision
  <2> QED BY <1>9, <2>1, <2>2, BorrowersKeep DEF shared
<1>10. CASE \E o \in Ops, setting \in Configurations : Change(o, setting)
  BY <1>9, <1>10 DEF Change
<1>11. CASE \/ \E o \in Ops, c \in Characters : \/ ResetMemory(o, c) \/ ResetMemoryEnds(o, c)
                                                \/ Release(o, c)
            \/ \E o \in Ops : ReleaseEnds(o)
            \/ HostCloses \/ \E c \in Characters : MemoryCloses(c)
  BY <1>9, <1>11, SharedTypes
     DEF ResetMemory, ResetMemoryEnds, Release, ReleaseEnds, HostCloses, MemoryCloses
<1> QED BY <1>1, <1>2, <1>3, <1>4, <1>5, <1>6, <1>7, <1>8, <1>10, <1>11
        DEF Next, OpStep, HostStep

-----------------------------------------------------------------------------
(* Type correctness *)

LEMMA StartTyped ==
    ASSUME TypeOK, NEW m \in Memories, MemoryStep(m)
    PROVE  StoresTyped' /\ RequestsTyped' /\ UsesTyped'
<1> USE Types
<1>1. UNCHANGED <<runtime, use, op, visit, changes, host, restarts>>
  BY DEF MemoryStep, StartStep, StoreOpens, StoreFails, StoreTaken, IndexCalls, Indexed,
     IndexFails, Destroys, StoresReset, own, stores, requests, life
<1>2. RequestsTyped'
  BY <1>1 DEF RequestsTyped
<1>3. Of(m) \in Characters /\ get[m] \in GetStates /\ cache[Of(m)] \in Memories \cup {None}
      /\ memory[m] \in MemoryStates
  BY Names, SharedTypes DEF StoresTyped
<1>4. ASSUME NEW s \in StartStates, NEW n \in Memories \cup {None}
      PROVE  /\ [memory EXCEPT ![m].at = s] \in [Memories -> MemoryStates]
             /\ [memory EXCEPT ![m].at = s, ![m].resets = n] \in [Memories -> MemoryStates]
  BY DEF StoresTyped, MemoryStates
<1>5. CASE StoreOpens(m)
  <2> DEFINE p == get[m].provider
             z == NeedsReindex(Of(m), p)
  <2>1. p \in Providers \cup {None} /\ z \in BOOLEAN
    BY <1>3 DEF GetStates, NeedsReindex
  <2>2. /\ store' = [store EXCEPT ![m] = [state |-> "open", provider |-> p, reindex |-> z]]
        /\ memory' = [memory EXCEPT ![m].at = IF z THEN "indexes" ELSE "ready"]
        /\ index' = [index EXCEPT ![Of(m)] = Reindexing(Of(m), p)]
        /\ UNCHANGED cache
    BY <1>5 DEF StoreOpens, StartEnds
  <2>3. Reindexing(Of(m), p) \in IndexStates
    <3>1. p \in Providers => providers[p].config \in Configurations \cup {None}
      BY SharedTypes DEF ProviderStates
    <3>2. index[Of(m)] \in IndexStates
      BY <1>3 DEF UsesTyped
    <3> QED BY <2>1, <3>1, <3>2 DEF Reindexing, IndexStates
  <2>4. [state |-> "open", provider |-> p, reindex |-> z] \in StoreStates
    BY <2>1 DEF StoreStates
  <2> HIDE DEF p, z
  <2>5. (IF z THEN "indexes" ELSE "ready") \in StartStates
    BY DEF StartStates
  <2>6. memory' \in [Memories -> MemoryStates]
    BY <1>4, <2>2, <2>5
  <2>7. store' \in [Memories -> StoreStates] /\ index' \in [Characters -> IndexStates]
    BY <2>2, <2>3, <2>4 DEF StoresTyped, UsesTyped
  <2> QED BY <1>1, <1>2, <2>2, <2>6, <2>7 DEF StoresTyped, UsesTyped
<1>6. CASE StoreFails(m)
  <2>1. /\ store' = [store EXCEPT ![m].state = "failed"]
        /\ cache' = [cache EXCEPT ![Of(m)] = IF @ = m THEN None ELSE @]
        /\ memory' = [n \in Memories |-> memory'[n]]
        /\ \A n \in Memories :
              \/ memory'[n] = [memory[n] EXCEPT !.at = "idle", !.store = None]
              \/ memory'[n] = StoresGone(n)
              \/ memory'[n] = memory[n]
        /\ UNCHANGED index
    <3>1. /\ store' = [store EXCEPT ![m].state = "failed"]
          /\ cache' = [cache EXCEPT ![Of(m)] = IF @ = m THEN None ELSE @]
          /\ UNCHANGED index
      BY <1>6 DEF StoreFails
    <3>2. memory' = [n \in Memories |->
                       CASE memory[n].at \in {"opens", "joins"} /\ memory[n].store = m ->
                              [memory[n] EXCEPT !.at = "idle", !.store = None]
                         [] memory[n].at \in {"drops", "shuts"} /\ memory[n].resets = m ->
                              StoresGone(n)
                         [] OTHER -> memory[n]]
      BY <1>6 DEF StoreFails
    <3>3. memory' = [n \in Memories |-> memory'[n]]
      BY <3>2
    <3>4. ASSUME NEW n \in Memories
          PROVE  \/ memory'[n] = [memory[n] EXCEPT !.at = "idle", !.store = None]
                 \/ memory'[n] = StoresGone(n)
                 \/ memory'[n] = memory[n]
      <4> DEFINE A == memory[n].at \in {"opens", "joins"} /\ memory[n].store = m
                 B == memory[n].at \in {"drops", "shuts"} /\ memory[n].resets = m
      <4>1. memory'[n] = CASE A -> [memory[n] EXCEPT !.at = "idle", !.store = None]
                           [] B -> StoresGone(n)
                           [] OTHER -> memory[n]
        BY <3>2
      <4>2. ~(A /\ B)
        OBVIOUS
      <4> HIDE DEF A, B
      <4> QED BY <4>1, <4>2
    <3> QED BY <3>1, <3>3, <3>4
  <2>2. \A n \in Memories : memory'[n] \in MemoryStates
    <3> SUFFICES ASSUME NEW n \in Memories PROVE memory'[n] \in MemoryStates
      OBVIOUS
    <3>1. memory[n] \in MemoryStates
      BY DEF StoresTyped
    <3>2. StoresGone(n) \in MemoryStates
      BY <3>1 DEF StoresGone, MemoryStates, StartStates
    <3>3. [memory[n] EXCEPT !.at = "idle", !.store = None] \in MemoryStates
      BY <3>1 DEF MemoryStates, StartStates
    <3> QED BY <2>1, <3>1, <3>2, <3>3
  <2>3. memory' \in [Memories -> MemoryStates]
    BY <2>1, <2>2
  <2>4. /\ store' \in [Memories -> StoreStates]
        /\ cache' \in [Characters -> Memories \cup {None}]
    BY <2>1 DEF StoresTyped, StoreStates
  <2> QED BY <1>1, <1>2, <2>1, <2>3, <2>4 DEF StoresTyped, UsesTyped
<1>7. CASE StoreTaken(m)
  <2>1. (IF StoreOf(m).reindex THEN "indexes" ELSE "ready") \in StartStates
    BY DEF StartStates
  <2>2. memory' \in [Memories -> MemoryStates]
    BY <1>4, <1>7, <2>1 DEF StoreTaken, StartEnds
  <2> QED BY <1>1, <1>2, <1>7, <2>2 DEF StoreTaken, StoresTyped, UsesTyped
<1>8. CASE IndexCalls(m)
  BY <1>1, <1>2, <1>8 DEF IndexCalls, own, stores, StoresTyped, UsesTyped
<1>9. CASE Indexed(m)
  <2>1. memory' \in [Memories -> MemoryStates]
    BY <1>4, <1>9 DEF Indexed, StartEnds, StartStates
  <2>2. index' \in [Characters -> IndexStates]
    BY <1>9 DEF Indexed, UsesTyped, IndexStates
  <2> QED BY <1>1, <1>2, <1>9, <2>1, <2>2 DEF Indexed, StoresTyped, UsesTyped
<1>10. CASE IndexFails(m)
  <2>1. memory' \in [Memories -> MemoryStates]
    BY <1>3, <1>4, <1>10 DEF IndexFails, StartStates
  <2> QED BY <1>1, <1>2, <1>10, <2>1 DEF IndexFails, StoresTyped, UsesTyped
<1>11. CASE Destroys(m)
  <2>1. memory' \in [Memories -> MemoryStates]
    BY <1>3, <1>4, <1>11 DEF Destroys, StartStates
  <2> QED BY <1>1, <1>2, <1>11, <2>1 DEF Destroys, StoresTyped, UsesTyped
<1>12. CASE StoresReset(m)
  <2>1. /\ store' = StoreClosed(memory[m].resets)
        /\ cache' = [cache EXCEPT ![Of(m)] = IF @ = memory[m].resets THEN None ELSE @]
        /\ memory' = [memory EXCEPT ![m] = StoresGone(m)]
        /\ UNCHANGED index
    BY <1>12 DEF StoresReset
  <2>2. StoresGone(m) \in MemoryStates
    BY <1>3 DEF StoresGone, MemoryStates, StartStates
  <2>3. store' \in [Memories -> StoreStates]
    BY <2>1 DEF StoreClosed, StoresTyped, StoreStates
  <2> QED BY <1>1, <1>2, <2>1, <2>2, <2>3 DEF StoresTyped, UsesTyped
<1> QED BY <1>5, <1>6, <1>7, <1>8, <1>9, <1>10, <1>11, <1>12 DEF MemoryStep, StartStep

LEMMA UseTyped ==
    ASSUME TypeOK, NEW u \in Uses, UseStep(u)
    PROVE  StoresTyped' /\ RequestsTyped' /\ UsesTyped'
<1> USE Types
<1>1. UNCHANGED <<runtime, memory, store, cache, op, visit, changes, host, restarts>>
  BY DEF UseStep, UseGoes, Query, Capture, UseEnds, UseFails, stores, requests, life
<1>2. StoresTyped' /\ RequestsTyped'
  BY <1>1 DEF StoresTyped, RequestsTyped
<1>3. use' \in [Uses -> UseStates]
  <2>1. \/ use' = [use EXCEPT ![u] = NoUse]
        \/ use' = [use EXCEPT ![u].at = "has"] \/ use' = [use EXCEPT ![u].at = "calls"]
        \/ \E w \in BOOLEAN : use' = [use EXCEPT ![u].at = "background", ![u].writes = w]
    <3>1. CASE UseGoes(u)
      <4>1. CASE Started(use[u].of)
        BY <3>1, <4>1 DEF UseGoes
      <4>2. CASE ~Started(use[u].of)
        BY <3>1, <4>2 DEF UseGoes
      <4> QED BY <4>1, <4>2
    <3>2. CASE Query(u) \/ UseEnds(u) \/ UseFails(u)
      BY <3>2 DEF Query, UseEnds, UseFails
    <3>3. CASE Capture(u)
      BY <3>3 DEF Capture
    <3> QED BY <3>1, <3>2, <3>3 DEF UseStep
  <2>2. CASE use' = [use EXCEPT ![u] = NoUse]
    BY <2>2, WritesTyped DEF UsesTyped
  <2>3. CASE use' = [use EXCEPT ![u].at = "has"] \/ use' = [use EXCEPT ![u].at = "calls"]
    BY <2>3 DEF UsesTyped, UseStates
  <2>4. CASE \E w \in BOOLEAN : use' = [use EXCEPT ![u].at = "background", ![u].writes = w]
    BY <2>4 DEF UsesTyped, UseStates
  <2> QED BY <2>1, <2>2, <2>3, <2>4
<1>4. index' \in [Characters -> IndexStates]
  <2>1. CASE Capture(u)
    BY <2>1 DEF Capture, UsesTyped, IndexStates
  <2>2. CASE UseEnds(u)
    BY <2>2 DEF UseEnds, UsesTyped, IndexStates
  <2>3. CASE UNCHANGED index
    BY <2>3 DEF UsesTyped
  <2> QED BY <2>1, <2>2, <2>3 DEF UseStep, UseGoes, Query, UseFails
<1> QED BY <1>2, <1>3, <1>4 DEF UsesTyped

LEMMA AskTyped ==
    ASSUME TypeOK, NEW u \in Uses, NEW c \in Characters, UseAsks(u, c)
    PROVE  StoresTyped' /\ RequestsTyped' /\ UsesTyped'
<1> USE Types
<1>1. UNCHANGED <<op, visit, changes, host, restarts, index>>
  BY DEF UseAsks, requests, life
<1>2. RequestsTyped'
  BY <1>1 DEF RequestsTyped
<1>3. PICK m \in Memories : Asks(u, m) /\ runtime' \in [Characters -> Memories \cup {None}]
  <2>1. CASE runtime[c] # None
    <3>1. runtime[c] \in Memories
      BY <2>1 DEF StoresTyped
    <3> QED BY <2>1, <3>1 DEF UseAsks, StoresTyped
  <2>2. CASE runtime[c] = None
    <3>1. PICK i \in 1..MaxMemories : /\ runtime' = [runtime EXCEPT ![c] = <<c, i>>]
                                      /\ Asks(u, <<c, i>>)
      BY <2>2 DEF UseAsks
    <3>2. <<c, i>> \in Memories
      BY Names
    <3> QED BY <3>1, <3>2 DEF StoresTyped
  <2> QED BY <2>1, <2>2
<1>4. use' \in [Uses -> UseStates]
  <2>1. [NoUse EXCEPT !.at = "waits", !.of = m] \in UseStates
    BY DEF NoUse, UseStates
  <2> QED BY <1>3, <2>1 DEF Asks, UsesTyped
<1>5. /\ memory' \in [Memories -> MemoryStates] /\ store' \in [Memories -> StoreStates]
      /\ cache' \in [Characters -> Memories \cup {None}]
  <2>1. CASE UNCHANGED <<memory, store, cache>>
    BY <2>1 DEF StoresTyped
  <2>2. CASE /\ memory' = [memory EXCEPT ![m].at = "joins", ![m].store = cache[Of(m)]]
             /\ UNCHANGED <<store, cache>>
    <3>1. cache[Of(m)] \in Memories \cup {None}
      BY Names DEF StoresTyped
    <3> QED BY <2>2, <3>1 DEF StoresTyped, MemoryStates, StartStates
  <2>3. CASE /\ memory' = [memory EXCEPT ![m].at = "opens", ![m].store = m]
             /\ cache' = [cache EXCEPT ![Of(m)] = m]
             /\ store' = [store EXCEPT ![m] = [NoStore EXCEPT !.state = "opening"]]
    <3>1. [NoStore EXCEPT !.state = "opening"] \in StoreStates
      BY DEF NoStore, StoreStates
    <3> QED BY <2>3, <3>1 DEF StoresTyped, MemoryStates, StartStates
  <2> QED BY <1>3, <2>1, <2>2, <2>3 DEF Asks
<1> QED BY <1>1, <1>2, <1>3, <1>4, <1>5 DEF StoresTyped, UsesTyped

LEMMA RequestTyped ==
    ASSUME TypeOK, NEW o \in Ops,
           OpStep(o) \/ (\E setting \in Configurations : Change(o, setting))
             \/ (\E c \in Characters : Release(o, c))
    PROVE  StoresTyped' /\ RequestsTyped' /\ UsesTyped'
<1> USE Types, MemoryAssumption
<1>1. ASSUME NEW C, Visits(o, C) PROVE visit' \in [Ops -> [Characters -> VisitStates]]
  <2>1. [c \in Characters |-> [NoVisit EXCEPT !.at = IF c \in C THEN "begins" ELSE "no"]]
          \in [Characters -> VisitStates]
    BY DEF NoVisit, VisitStates
  <2> QED BY <1>1, <2>1 DEF Visits, RequestsTyped
<1>2. CASE \E setting \in Configurations : Change(o, setting)
  <2>1. /\ UNCHANGED <<stores, index, use, life>> /\ Visits(o, Characters)
        /\ op' = [op EXCEPT ![o] = "changes"] /\ changes < MaxChanges /\ changes' = changes + 1
    BY <1>2 DEF Change
  <2>2. visit' \in [Ops -> [Characters -> VisitStates]]
    BY <1>1, <2>1
  <2>3. op' \in [Ops -> {"idle", "changes", "releases", "resets"}]
    BY <2>1 DEF RequestsTyped
  <2>4. changes' \in 0..MaxChanges
    BY <2>1 DEF RequestsTyped
  <2> QED BY <2>1, <2>2, <2>3, <2>4 DEF StoresTyped, UsesTyped, RequestsTyped, stores, life
<1>3. CASE \E c \in Characters : Release(o, c)
  <2>1. PICK c \in Characters : /\ UNCHANGED <<stores, index, use, changes, life>>
                                /\ Visits(o, {c}) /\ op' = [op EXCEPT ![o] = "releases"]
    BY <1>3 DEF Release
  <2>2. visit' \in [Ops -> [Characters -> VisitStates]]
    BY <1>1, <2>1
  <2> QED BY <2>1, <2>2 DEF StoresTyped, UsesTyped, RequestsTyped, stores, life
<1>4. CASE \E c \in Characters : ResetMemory(o, c)
  <2> PICK c \in Characters : ResetMemory(o, c)
    BY <1>4
  <2>1. UNCHANGED <<store, cache, index, use, op, changes, life>>
    BY DEF ResetMemory
  <2>2. CASE runtime[c] = None \/ memory[runtime[c]].closed
    <3>1. /\ runtime' = [runtime EXCEPT ![c] = None] /\ UNCHANGED memory
          /\ visit' = [visit EXCEPT ![o][c] = NoVisit]
      BY <2>2 DEF ResetMemory
    <3>2. visit' \in [Ops -> [Characters -> VisitStates]]
      BY <3>1, WritesTyped DEF RequestsTyped
    <3> QED BY <2>1, <3>1, <3>2 DEF StoresTyped, UsesTyped, RequestsTyped, life
  <2>3. CASE ~(runtime[c] = None \/ memory[runtime[c]].closed)
    <3>1. /\ memory' = [memory EXCEPT ![runtime[c]].closed = TRUE] /\ UNCHANGED runtime
          /\ visit' = [visit EXCEPT ![o][c] = [at |-> "closes", of |-> runtime[c]]]
      BY <2>3 DEF ResetMemory
    <3>2. [at |-> "closes", of |-> runtime[c]] \in VisitStates
      BY DEF VisitStates, StoresTyped
    <3>3. visit' \in [Ops -> [Characters -> VisitStates]]
      BY <3>1, <3>2 DEF RequestsTyped
    <3>4. memory' \in [Memories -> MemoryStates]
      BY <3>1 DEF StoresTyped, MemoryStates
    <3> QED BY <2>1, <3>1, <3>3, <3>4 DEF StoresTyped, UsesTyped, RequestsTyped, life
  <2> QED BY <2>2, <2>3
<1>5. CASE \E c \in Characters : ResetMemoryEnds(o, c)
  <2> PICK c \in Characters : ResetMemoryEnds(o, c)
    BY <1>5
  <2>1. /\ UNCHANGED <<memory, store, cache, index, use, op, changes, life>>
        /\ visit' = [visit EXCEPT ![o][c] = NoVisit]
        /\ runtime' = [runtime EXCEPT ![c] = IF @ = visit[o][c].of THEN None ELSE @]
    BY DEF ResetMemoryEnds
  <2>2. visit' \in [Ops -> [Characters -> VisitStates]]
    BY <2>1, WritesTyped DEF RequestsTyped
  <2> QED BY <2>1, <2>2 DEF StoresTyped, UsesTyped, RequestsTyped, life
<1>6. CASE ReleaseEnds(o) \/ ChangeResets(o) \/ ChangeEnds(o)
  <2>1. /\ UNCHANGED <<stores, index, use, visit, changes, life>>
        /\ op' = [op EXCEPT ![o] = "idle"] \/ op' = [op EXCEPT ![o] = "resets"]
    BY <1>6 DEF ReleaseEnds, ChangeResets, ChangeEnds
  <2> QED BY <2>1 DEF StoresTyped, UsesTyped, RequestsTyped, stores, life
<1> QED BY <1>2, <1>3, <1>4, <1>5, <1>6 DEF OpStep

LEMMA HostTyped ==
    ASSUME TypeOK, HostCloses \/ HostStep \/ Restart
    PROVE  StoresTyped' /\ RequestsTyped' /\ UsesTyped'
<1> USE Types, MemoryAssumption
<1>1. CASE HostCloses \/ HostShares \/ HostEnds
  <2>1. /\ UNCHANGED <<stores, index, use, requests, restarts>>
        /\ host' \in {"memories", "shared", "closed", "failed"}
    BY <1>1 DEF HostCloses, HostShares, HostEnds
  <2> QED BY <2>1 DEF StoresTyped, UsesTyped, RequestsTyped, stores, requests
<1>2. CASE \E c \in Characters : MemoryCloses(c)
  <2>1. PICK c \in Characters :
          /\ memory' = [memory EXCEPT ![runtime[c]].closed = TRUE]
          /\ UNCHANGED <<runtime, store, cache, index, use, requests, life>>
    BY <1>2 DEF MemoryCloses
  <2>2. memory' \in [Memories -> MemoryStates]
    BY <2>1 DEF StoresTyped, MemoryStates
  <2> QED BY <2>1, <2>2 DEF StoresTyped, UsesTyped, RequestsTyped, requests, life
<1>3. CASE Restart
  <2>1. StoresTyped'
    BY <1>3, WritesTyped DEF Restart, StoresTyped
  <2>2. visit' \in [Ops -> [Characters -> VisitStates]]
    BY <1>3, WritesTyped DEF Restart
  <2>3. /\ op' \in [Ops -> {"idle", "changes", "releases", "resets"}]
        /\ host' = "runs" /\ changes' = changes
    BY <1>3 DEF Restart
  <2>4. restarts' \in 0..MaxRestarts
    BY <1>3 DEF Restart, RequestsTyped
  <2>5. UsesTyped'
    BY <1>3, WritesTyped DEF Restart, UsesTyped
  <2> QED BY <2>1, <2>2, <2>3, <2>4, <2>5 DEF RequestsTyped
<1> QED BY <1>1, <1>2, <1>3 DEF HostStep

LEMMA StepTyped ==
    ASSUME TypeOK, SharedSound, \A o \in Ops : OpSound(o), HostSound, Next
    PROVE  TypeOK'
<1>1. SharedTypeOK'
  BY ProviderStays
<1>2. CASE SharedStep /\ UNCHANGED <<config, own>>
  BY <1>1, <1>2, Types, TypesNext
     DEF own, stores, requests, life, StoresTyped, UsesTyped, RequestsTyped
<1>3. CASE ~(SharedStep /\ UNCHANGED <<config, own>>)
  <2>1. StoresTyped' /\ RequestsTyped' /\ UsesTyped'
    BY <1>3, StartTyped, UseTyped, AskTyped, RequestTyped, HostTyped DEF Next
  <2> QED BY <1>1, <2>1, TypesNext
<1> QED BY <1>2, <1>3

-----------------------------------------------------------------------------
(* Stores and instances *)

ConfigsStay == \A p \in Providers : providers[p].life # "none" =>
    providers'[p].life # "none" /\ providers'[p].config = providers[p].config
IndexStays == \A c \in Characters :
    /\ index'[c].config = index[c].config
    /\ None \notin index[c].missing => None \notin index'[c].missing

\* What holds of an instance and of a store, as the proofs use it.
LEMMA Instances ==
    ASSUME TypeOK, NEW m \in Memories
    PROVE  /\ memory[m] \in MemoryStates /\ store[m] \in StoreStates
           /\ Of(m) \in Characters
           /\ cache[Of(m)] \in Memories \cup {None} /\ runtime[Of(m)] \in Memories \cup {None}
           /\ index[Of(m)] \in IndexStates
           /\ memory[m].store \in Memories \cup {None}
           /\ memory[m].resets \in Memories \cup {None}
           /\ store[m].provider \in Providers \cup {None}
BY Types, Names DEF StoresTyped, UsesTyped, MemoryStates, StoreStates

LEMMA FitsStays ==
    ASSUME TypeOK, NEW s \in Memories, Fits(s), ConfigsStay, IndexStays,
           store[s].provider # None => providers[store[s].provider].life # "none",
           store'[s].provider = store[s].provider, store'[s].reindex = store[s].reindex
    PROVE  /\ Fits(s)'
           /\ store'[s].provider # None => providers'[store'[s].provider].life # "none"
BY Instances DEF Fits, ConfigsStay, IndexStays, Of

\* An instance goes on by itself: what is said of it is all there is to show.
LEMMA InstanceGoesOn ==
    ASSUME TypeOK, StoresSound, ConfigsStay, IndexStays,
           NEW m \in Memories, NEW x \in MemoryStates, memory' = [memory EXCEPT ![m] = x],
           UNCHANGED <<runtime, store, cache>>,
           x.at \notin {"none", "opens"}, memory[m].at \notin {"none", "opens"},
           StoreSound(m)', InstanceSound(m)', IndexSound(m)'
    PROVE  StoresSound'
<1>1. \A n \in Memories : n # m => memory'[n] = memory[n]
  BY Types DEF StoresTyped
<1>2. memory'[m] = x
  BY Types DEF StoresTyped
<1>3. ASSUME NEW n \in Memories, n # m
      PROVE  StoreSound(n)' /\ InstanceSound(n)' /\ IndexSound(n)'
  <2>1. StoreSound(n) /\ InstanceSound(n) /\ IndexSound(n) /\ memory'[n] = memory[n]
    BY <1>1, <1>3 DEF StoresSound
  <2>2. StoreSound(n)'
    <3>1. store[n].state = "open" => Fits(n)'
      BY <2>1, FitsStays DEF StoreSound
    <3>2. store[n].provider # None => providers'[store[n].provider].life # "none"
      BY <2>1, Instances DEF StoreSound, ConfigsStay
    <3> QED BY <2>1, <3>1, <3>2 DEF StoreSound, Of
  <2>3. InstanceSound(n)'
    BY <2>1 DEF InstanceSound, Of, NoMemory
  <2>4. ASSUME ~memory[n].closed PROVE HasStore(n)' /\ Matches(n)' /\ Alone(n)'
    <3>1. HasStore(n) /\ Matches(n) /\ Alone(n)
      BY <2>1, <2>4 DEF IndexSound
    <3>2. HasStore(n)'
      BY <2>1, <3>1 DEF HasStore, StoreOf
    <3>3. Matches(n)'
      <4> SUFFICES ASSUME memory[n].at \in {"joins", "indexes", "ready"},
                          StoreOf(n).state \in {"open", "closed"}
                   PROVE  /\ Fits(memory[n].store)'
                          /\ memory[n].at = "ready" /\ StoreOf(n).provider # None =>
                                None \notin index'[Of(n)].missing
        BY <2>1 DEF Matches, StoreOf, Of, Fits
      <4>1. memory[n].store \in Memories /\ StoreSound(memory[n].store)
        BY <3>1, Instances DEF HasStore, StoresSound
      <4>2. Fits(memory[n].store)
        BY <3>1 DEF Matches
      <4>3. ASSUME NEW s \in Memories, StoreSound(s), Fits(s) PROVE Fits(s)'
        BY <4>3, FitsStays DEF StoreSound
      <4>4. memory[n].at = "ready" /\ StoreOf(n).provider # None =>
               None \notin index'[Of(n)].missing
        BY <3>1, Instances DEF Matches, IndexStays
      <4> QED BY <2>1, <4>1, <4>2, <4>3, <4>4
    <3>4. Alone(n)'
      BY <1>1, <1>2, <2>1, <3>1 DEF Alone, Of
    <3> QED BY <3>2, <3>3, <3>4
  <2> QED BY <2>1, <2>2, <2>3, <2>4 DEF IndexSound
<1>4. ASSUME NEW c \in Characters PROVE CacheSound(c)'
  <2>1. CacheSound(c)
    BY DEF StoresSound
  <2>2. runtime[c] # None => memory'[runtime[c]].at # "none"
    BY <1>1, <1>2, <2>1, Types DEF CacheSound, StoresTyped
  <2> QED BY <2>1, <2>2 DEF CacheSound, Of
<1>5. \A n \in Memories : StoreSound(n)' /\ InstanceSound(n)' /\ IndexSound(n)'
  BY <1>3
<1> QED BY <1>4, <1>5 DEF StoresSound

LEMMA InstancesStay ==
    ASSUME TypeOK, StoresSound, ConfigsStay, IndexStays, UNCHANGED stores
    PROVE  StoresSound'
<1>1. UNCHANGED <<runtime, memory, store, cache>>
  BY DEF stores
<1>2. ASSUME NEW n \in Memories
      PROVE  StoreSound(n)' /\ InstanceSound(n)' /\ IndexSound(n)'
  <2>1. StoreSound(n) /\ InstanceSound(n) /\ IndexSound(n) /\ memory'[n] = memory[n]
    BY <1>1 DEF StoresSound
  <2>2. StoreSound(n)'
    <3>1. store[n].state = "open" => Fits(n)'
      BY <1>1, <2>1, FitsStays DEF StoreSound
    <3>2. store[n].provider # None => providers'[store[n].provider].life # "none"
      BY <2>1, Instances DEF StoreSound, ConfigsStay
    <3> QED BY <1>1, <2>1, <3>1, <3>2 DEF StoreSound, Of
  <2>3. InstanceSound(n)'
    BY <1>1, <2>1 DEF InstanceSound, Of, NoMemory
  <2>4. ASSUME ~memory[n].closed PROVE HasStore(n)' /\ Matches(n)' /\ Alone(n)'
    <3>1. HasStore(n) /\ Matches(n) /\ Alone(n)
      BY <2>1, <2>4 DEF IndexSound
    <3>2. HasStore(n)' /\ Alone(n)'
      BY <1>1, <3>1 DEF HasStore, StoreOf, Alone, Of
    <3>3. Matches(n)'
      <4> SUFFICES ASSUME memory[n].at \in {"joins", "indexes", "ready"},
                          StoreOf(n).state \in {"open", "closed"}
                   PROVE  /\ Fits(memory[n].store)'
                          /\ memory[n].at = "ready" /\ StoreOf(n).provider # None =>
                                None \notin index'[Of(n)].missing
        BY <1>1, <2>1 DEF Matches, StoreOf, Of, Fits
      <4>1. memory[n].store \in Memories /\ StoreSound(memory[n].store)
        BY <3>1, Instances DEF HasStore, StoresSound
      <4>2. Fits(memory[n].store)
        BY <3>1 DEF Matches
      <4>3. Fits(memory[n].store)'
        BY <1>1, <4>1, <4>2, FitsStays DEF StoreSound
      <4>4. memory[n].at = "ready" /\ StoreOf(n).provider # None =>
               None \notin index'[Of(n)].missing
        BY <3>1, Instances DEF Matches, IndexStays
      <4> QED BY <4>3, <4>4
    <3> QED BY <3>2, <3>3
  <2> QED BY <1>1, <2>1, <2>2, <2>3, <2>4 DEF IndexSound
<1>3. \A c \in Characters : CacheSound(c)'
  BY <1>1 DEF StoresSound, CacheSound, Of
<1> QED BY <1>2, <1>3 DEF StoresSound

LEMMA StoreTakenKeeps ==
    ASSUME TypeOK, StoresSound, NEW m \in Memories, StoreTaken(m)
    PROVE  StoresSound'
<1> DEFINE x == [memory[m] EXCEPT !.at = IF StoreOf(m).reindex THEN "indexes" ELSE "ready"]
<1>1. memory' = [memory EXCEPT ![m] = x] /\ UNCHANGED <<shared, runtime, store, cache, index>>
  BY DEF StoreTaken, StartEnds
<1>2. /\ memory[m].at = "joins" /\ StoreOf(m).state \in {"open", "closed"}
      /\ StoreSound(m) /\ InstanceSound(m) /\ IndexSound(m)
  BY DEF StoreTaken, StoresSound
<1>3. /\ x \in MemoryStates /\ x.at \in {"indexes", "ready"}
      /\ x.at = "ready" => ~StoreOf(m).reindex
      /\ x.closed = memory[m].closed /\ x.store = memory[m].store
      /\ x.resets = memory[m].resets
  <2>1. memory[m] \in MemoryStates /\ cache[Of(m)] \in Memories \cup {None}
    BY Instances
  <2> QED BY <2>1 DEF MemoryStates, StartStates
<1> HIDE DEF x
<1>4. memory'[m] = x
  BY <1>1, Types DEF StoresTyped
<1>5. ConfigsStay /\ IndexStays
  BY <1>1 DEF shared, provision, ConfigsStay, IndexStays
<1>6. StoreSound(m)'
  BY <1>1, <1>2, <1>3, <1>4 DEF StoreSound, Fits, Of, shared, provision
<1>7. InstanceSound(m)'
  BY <1>1, <1>2, <1>3, <1>4 DEF InstanceSound, Of
<1>8. ASSUME ~memory[m].closed PROVE HasStore(m)' /\ Matches(m)' /\ Alone(m)'
  <2>1. HasStore(m) /\ Matches(m) /\ Alone(m)
    BY <1>2, <1>8 DEF IndexSound
  <2>2. StoreOf(m)' = StoreOf(m)
    BY <1>1, <1>3, <1>4 DEF StoreOf
  <2>3. HasStore(m)'
    BY <1>2, <1>3, <1>4, <2>1, <2>2 DEF HasStore
  <2>4. Matches(m)'
    <3>1. Fits(memory[m].store)
      BY <1>2, <2>1 DEF Matches
    <3>2. memory[m].store \in Memories /\ InstanceSound(m)
      BY <1>2, <2>1, Instances DEF HasStore
    <3>3. Of(memory[m].store) = Of(m)
      BY <3>2, Names DEF InstanceSound
    <3>4. x.at = "ready" /\ StoreOf(m).provider # None => None \notin index[Of(m)].missing
      BY <1>3, <3>1, <3>3 DEF Fits, StoreOf
    <3>5. Fits(memory[m].store)'
      BY <1>1, <1>3, <1>4, <3>1 DEF Fits, Of, shared, provision
    <3> QED BY <1>1, <1>2, <1>3, <1>4, <2>2, <3>4, <3>5 DEF Matches, Of
  <2>5. Alone(m)'
    <3> SUFFICES ASSUME NEW n \in Memories, memory'[n].at = "opens", Of(n) = Of(m), n # m
                 PROVE  FALSE
      BY DEF Alone, Of
    <3>1. memory[n].at = "opens"
      BY <1>1, Types DEF StoresTyped
    <3>2. memory[m].store = n /\ StoreSound(n)
      BY <1>2, <2>1, <3>1 DEF Alone, StoresSound
    <3> QED BY <1>2, <3>1, <3>2 DEF StoreSound, StoreOf
  <2> QED BY <2>3, <2>4, <2>5
<1>9. IndexSound(m)'
  BY <1>3, <1>4, <1>8 DEF IndexSound
<1> QED BY <1>1, <1>2, <1>3, <1>5, <1>6, <1>7, <1>9, InstanceGoesOn

LEMMA IndexedKeeps ==
    ASSUME TypeOK, StoresSound, NEW m \in Memories, Indexed(m)
    PROVE  StoresSound'
<1> DEFINE x == [memory[m] EXCEPT !.at = "ready"]
<1>1. /\ memory' = [memory EXCEPT ![m] = x]
      /\ UNCHANGED <<provision, runtime, store, cache>>
      /\ index' = [index EXCEPT ![Of(m)].missing = {}]
  BY DEF Indexed, StartEnds
<1>2. /\ memory[m].at = "indexes" /\ Open(m)
      /\ StoreSound(m) /\ InstanceSound(m) /\ IndexSound(m)
  BY DEF Indexed, StoresSound
<1>3. /\ x \in MemoryStates /\ x.at = "ready"
      /\ x.closed = memory[m].closed /\ x.store = memory[m].store
      /\ x.resets = memory[m].resets
  <2>1. memory[m] \in MemoryStates /\ cache[Of(m)] \in Memories \cup {None}
    BY Instances
  <2> QED BY <2>1 DEF MemoryStates, StartStates
<1> HIDE DEF x
<1>4. memory'[m] = x
  BY <1>1, Types DEF StoresTyped
<1>5. index'[Of(m)].missing = {} /\ ConfigsStay /\ IndexStays
  <2>1. ASSUME NEW c \in Characters
        PROVE  /\ index'[c].config = index[c].config
               /\ index'[c].missing = IF c = Of(m) THEN {} ELSE index[c].missing
    BY <1>1, Types DEF UsesTyped, IndexStates
  <2> QED BY <1>1, <2>1, Names DEF provision, ConfigsStay, IndexStays
<1>6. StoreSound(m)'
  <2>1. Fits(m) => Fits(m)'
    BY <1>1, <1>2, <1>5, FitsStays DEF StoreSound
  <2> QED BY <1>1, <1>2, <1>3, <1>4, <2>1 DEF StoreSound, Of, provision
<1>7. InstanceSound(m)'
  BY <1>1, <1>2, <1>3, <1>4 DEF InstanceSound, Of
<1>8. ASSUME ~memory[m].closed PROVE HasStore(m)' /\ Matches(m)' /\ Alone(m)'
  <2>1. HasStore(m) /\ Matches(m) /\ Alone(m)
    BY <1>2, <1>8 DEF IndexSound
  <2>2. StoreOf(m)' = StoreOf(m) /\ StoreOf(m).state = "open"
    BY <1>1, <1>2, <1>3, <1>4 DEF StoreOf, Open
  <2>3. HasStore(m)'
    BY <1>2, <1>3, <1>4, <2>1, <2>2 DEF HasStore
  <2>4. Matches(m)'
    <3>1. Fits(memory[m].store)
      BY <1>2, <2>1, <2>2 DEF Matches
    <3>2. memory[m].store \in Memories
      BY <1>2, <2>1, Instances DEF HasStore
    <3>3. ASSUME NEW s \in Memories, Fits(s) PROVE Fits(s)'
      <4>1. StoreSound(s)
        BY DEF StoresSound
      <4> QED BY <1>1, <1>5, <3>3, <4>1, FitsStays DEF StoreSound
    <3>4. Fits(memory[m].store)'
      BY <1>3, <1>4, <3>1, <3>2, <3>3
    <3> QED BY <1>3, <1>4, <1>5, <3>4 DEF Matches, Of
  <2>5. Alone(m)'
    <3> SUFFICES ASSUME NEW n \in Memories, memory'[n].at = "opens", Of(n) = Of(m), n # m
                 PROVE  FALSE
      BY DEF Alone, Of
    <3>1. memory[n].at = "opens"
      BY <1>1, Types DEF StoresTyped
    <3> QED BY <1>2, <2>1, <3>1 DEF Alone
  <2> QED BY <2>3, <2>4, <2>5
<1>9. IndexSound(m)'
  BY <1>3, <1>4, <1>8 DEF IndexSound
<1> QED BY <1>1, <1>2, <1>3, <1>5, <1>6, <1>7, <1>9, InstanceGoesOn

\* The instance is through with its store, and resets the stores of its directory.
LEMMA ResettingKeeps ==
    ASSUME TypeOK, StoresSound, NEW m \in Memories, NEW at \in {"drops", "shuts"},
           memory' = [memory EXCEPT ![m].at = at, ![m].resets = cache[Of(m)]],
           UNCHANGED <<provision, runtime, store, cache, index>>,
           at = "drops" => memory[m].at = "indexes",
           at = "shuts" => memory[m].closed /\ memory[m].at \in {"idle", "ready"}
    PROVE  StoresSound'
<1> DEFINE x == [memory[m] EXCEPT !.at = at, !.resets = cache[Of(m)]]
<1>1. memory' = [memory EXCEPT ![m] = x]
  OBVIOUS
<1>2. /\ memory[m].at \in {"indexes", "idle", "ready"}
      /\ StoreSound(m) /\ InstanceSound(m) /\ IndexSound(m) /\ CacheSound(Of(m))
  BY Instances DEF StoresSound
<1>3. /\ x \in MemoryStates /\ x.at = at
      /\ x.closed = memory[m].closed /\ x.store = memory[m].store
      /\ x.resets = cache[Of(m)]
  <2>1. memory[m] \in MemoryStates /\ cache[Of(m)] \in Memories \cup {None}
    BY Instances
  <2> QED BY <2>1 DEF MemoryStates, StartStates
<1> HIDE DEF x
<1>4. memory'[m] = x
  BY <1>1, Types DEF StoresTyped
<1>5. ConfigsStay /\ IndexStays
  BY DEF provision, ConfigsStay, IndexStays
<1>6. StoreSound(m)'
  BY <1>2, <1>3, <1>4 DEF StoreSound, Fits, Of, provision
<1>7. InstanceSound(m)'
  BY <1>2, <1>3, <1>4 DEF InstanceSound, CacheSound, Of
<1>8. ASSUME ~memory[m].closed PROVE HasStore(m)' /\ Matches(m)' /\ Alone(m)'
  <2>1. Alone(m)
    BY <1>2, <1>8 DEF IndexSound
  <2>2. HasStore(m)' /\ Matches(m)'
    BY <1>3, <1>4 DEF HasStore, Matches
  <2>3. Alone(m)'
    <3> SUFFICES ASSUME NEW n \in Memories, memory'[n].at = "opens", Of(n) = Of(m), n # m
                 PROVE  FALSE
      BY DEF Alone, Of
    <3>1. memory[n].at = "opens"
      BY <1>1, Types DEF StoresTyped
    <3> QED BY <1>2, <2>1, <3>1 DEF Alone
  <2> QED BY <2>2, <2>3
<1>9. IndexSound(m)'
  BY <1>3, <1>4, <1>8 DEF IndexSound
<1> QED BY <1>1, <1>2, <1>3, <1>5, <1>6, <1>7, <1>9, InstanceGoesOn

\* close() of an instance begins.
LEMMA ClosingKeeps ==
    ASSUME TypeOK, StoresSound, NEW m \in Memories, memory[m].at # "none",
           memory' = [memory EXCEPT ![m].closed = TRUE],
           UNCHANGED <<provision, runtime, store, cache, index>>
    PROVE  StoresSound'
<1>1. \A n \in Memories :
         /\ memory'[n].at = memory[n].at /\ memory'[n].store = memory[n].store
         /\ memory'[n].resets = memory[n].resets
         /\ n # m => memory'[n] = memory[n]
  BY Types DEF StoresTyped, MemoryStates
<1>2. memory'[m].closed
  BY Types DEF StoresTyped, MemoryStates
<1>3. ASSUME NEW n \in Memories
      PROVE  StoreSound(n)' /\ InstanceSound(n)' /\ IndexSound(n)'
  <2>1. StoreSound(n) /\ InstanceSound(n) /\ IndexSound(n)
    BY DEF StoresSound
  <2>2. StoreSound(n)'
    BY <1>1, <2>1 DEF StoreSound, Fits, Of, provision
  <2>3. InstanceSound(n)'
    BY <1>1, <1>2, <2>1 DEF InstanceSound, Of, NoMemory
  <2>4. IndexSound(n)'
    <3>1. CASE n = m
      BY <1>2, <3>1 DEF IndexSound
    <3>2. CASE n # m
      <4>1. StoreOf(n)' = StoreOf(n)
        BY <1>1, <3>2 DEF StoreOf
      <4>2. Alone(n) => Alone(n)'
        BY <1>1, <3>2 DEF Alone, Of
      <4> QED BY <1>1, <2>1, <3>2, <4>1, <4>2
              DEF IndexSound, HasStore, Matches, Fits, Of, provision
    <3> QED BY <3>1, <3>2
  <2> QED BY <2>2, <2>3, <2>4
<1>4. ASSUME NEW c \in Characters PROVE CacheSound(c)'
  <2>1. CacheSound(c)
    BY DEF StoresSound
  <2>2. runtime[c] # None => memory'[runtime[c]].at # "none"
    BY <1>1, <2>1, Types DEF CacheSound, StoresTyped
  <2> QED BY <2>1, <2>2 DEF CacheSound, Of
<1> QED BY <1>3, <1>4 DEF StoresSound

LEMMA StoreOpensKeeps ==
    ASSUME TypeOK, SharedSound, StoresSound, NEW m \in Memories, StoreOpens(m)
    PROVE  StoresSound'
<1> DEFINE p == get[m].provider
           z == NeedsReindex(Of(m), p)
<1>1. /\ memory[m].at = "opens" /\ get[m].phase = "got"
      /\ store' = [store EXCEPT ![m] = [state |-> "open", provider |-> p, reindex |-> z]]
      /\ memory' = [memory EXCEPT ![m].at = IF z THEN "indexes" ELSE "ready"]
      /\ index' = [index EXCEPT ![Of(m)] = Reindexing(Of(m), p)]
      /\ UNCHANGED <<provision, runtime, cache>>
  BY DEF StoreOpens, StartEnds
<1>2. p \in Providers \cup {None} /\ z \in BOOLEAN
  <2>1. get[m] \in GetStates
    BY Names, Types, SharedTypes
  <2> QED BY <2>1 DEF GetStates, NeedsReindex
<1>3. p # None => providers[p].life # "none"
  <2>1. m \in Callers
    BY Names
  <2>2. Got(m) /\ OpeningSound
    BY <2>1 DEF SharedSound, GetSound
  <2> QED BY <1>1, <1>2, <2>2, NamesDiffer DEF Got, OpeningSound
<1>4. /\ index'[Of(m)] = Reindexing(Of(m), p)
      /\ \A c \in Characters : c # Of(m) => index'[c] = index[c]
  BY <1>1, Names, Types DEF UsesTyped
<1>5. p # None => /\ index'[Of(m)].config = providers[p].config
                  /\ ~z => None \notin index'[Of(m)].missing
  BY <1>4 DEF Reindexing
<1> HIDE DEF p, z
<1>6. /\ store'[m].state = "open" /\ store'[m].provider = p /\ store'[m].reindex = z
      /\ \A n \in Memories : n # m => store'[n] = store[n]
  BY <1>1, Types DEF StoresTyped
<1>7. /\ memory'[m].at = IF z THEN "indexes" ELSE "ready"
      /\ \A n \in Memories : n # m => memory'[n] = memory[n]
      /\ memory'[m].closed = memory[m].closed /\ memory'[m].store = memory[m].store
      /\ memory'[m].resets = memory[m].resets
  BY <1>1, Types DEF StoresTyped, MemoryStates
<1>8. /\ StoreSound(m) /\ InstanceSound(m) /\ IndexSound(m)
      /\ store[m].state = "opening" /\ memory[m].store = m /\ cache[Of(m)] = m
  BY <1>1 DEF StoresSound, StoreSound
<1>9. providers' = providers /\ runtime' = runtime /\ cache' = cache
  BY <1>1 DEF provision
<1>10. Fits(m)'
  BY <1>5, <1>6, <1>9 DEF Fits, Of
<1>11. ASSUME NEW n \in Memories PROVE StoreSound(n)'
  <2>1. CASE n = m
    BY <1>2, <1>3, <1>6, <1>7, <1>8, <1>9, <1>10, <2>1 DEF StoreSound, Of
  <2>2. CASE n # m
    <3>1. StoreSound(n) /\ store'[n] = store[n] /\ memory'[n] = memory[n]
      BY <1>6, <1>7, <2>2 DEF StoresSound
    <3>2. store[n].state = "open" => Of(n) # Of(m)
      BY <1>8, <2>2, <3>1 DEF StoreSound
    <3>3. store[n].state = "open" => Fits(n)'
      BY <1>4, <1>9, <3>1, <3>2, Names DEF StoreSound, Fits, Of
    <3> QED BY <1>9, <3>1, <3>3 DEF StoreSound, Of
  <2> QED BY <2>1, <2>2
<1>12. ASSUME NEW n \in Memories PROVE InstanceSound(n)'
  <2>1. CASE n = m
    BY <1>1, <1>7, <1>8, <1>9, <2>1 DEF InstanceSound, Of
  <2>2. CASE n # m
    <3>1. InstanceSound(n) /\ memory'[n] = memory[n]
      BY <1>7, <2>2 DEF StoresSound
    <3> QED BY <1>9, <3>1 DEF InstanceSound, Of, NoMemory
  <2> QED BY <2>1, <2>2
<1>13. ASSUME NEW n \in Memories, ~memory'[n].closed, memory'[n].at # "none"
       PROVE  HasStore(n)' /\ Matches(n)' /\ Alone(n)'
  <2>1. ~memory[n].closed /\ memory[n].at # "none" /\ memory'[n].store = memory[n].store
    BY <1>1, <1>7, <1>13
  <2>2. HasStore(n) /\ Matches(n) /\ Alone(n) /\ InstanceSound(n)
    BY <2>1 DEF StoresSound, IndexSound
  <2>3. Alone(n)'
    <3> SUFFICES ASSUME NEW k \in Memories, memory'[k].at = "opens", Of(k) = Of(n), k # n
                 PROVE  memory'[n].at = "joins" /\ memory'[n].store = k
      BY DEF Alone, Of
    <3>1. k # m /\ memory[k].at = "opens"
      BY <1>7
    <3>2. memory[n].at = "joins" /\ memory[n].store = k
      BY <2>1, <2>2, <3>1 DEF Alone
    <3>3. n # m
      BY <1>1, <3>2
    <3> QED BY <1>7, <3>2, <3>3
  <2>4. CASE Of(n) = Of(m)
    <3>1. memory'[n].store = m /\ memory'[n].at \in {"joins", "indexes", "ready"}
      BY <1>1, <1>7, <1>8, <2>1, <2>2, <2>4 DEF Alone
    <3>2. memory'[n].at = "ready" /\ p # None => None \notin index'[Of(n)].missing
      <4>1. CASE n = m
        BY <1>5, <1>7, <4>1
      <4>2. CASE n # m
        BY <1>1, <1>7, <2>1, <2>2, <2>4, <4>2 DEF Alone
      <4> QED BY <4>1, <4>2
    <3>3. HasStore(n)'
      BY <1>6, <3>1, Names DEF HasStore, StoreOf
    <3>4. Matches(n)'
      BY <1>6, <1>10, <3>1, <3>2 DEF Matches, StoreOf, Of, Fits
    <3> QED BY <2>3, <3>3, <3>4
  <2>5. CASE Of(n) # Of(m)
    <3>1. memory'[n] = memory[n]
      BY <1>7, <2>5
    <3>2. memory[n].store # None =>
             /\ memory[n].store \in Memories /\ memory[n].store # m
             /\ Of(memory[n].store) = Of(n)
      BY <2>2, <2>5, Instances DEF InstanceSound
    <3>3. memory[n].store # None => store'[memory[n].store] = store[memory[n].store]
      BY <1>6, <3>2
    <3>4. index'[Of(n)] = index[Of(n)]
      BY <1>4, <2>5, Names
    <3>5. HasStore(n)'
      BY <2>2, <3>1, <3>3 DEF HasStore, StoreOf
    <3>6. Matches(n)'
      <4> SUFFICES ASSUME memory[n].at \in {"joins", "indexes", "ready"},
                          StoreOf(n)'.state \in {"open", "closed"}
                   PROVE  /\ Fits(memory[n].store)'
                          /\ memory[n].at = "ready" /\ StoreOf(n)'.provider # None =>
                                None \notin index'[Of(n)].missing
        BY <3>1 DEF Matches, Of, Fits
      <4>1. memory[n].store # None /\ StoreOf(n)' = StoreOf(n)
        BY <2>2, <3>1, <3>3 DEF HasStore, StoreOf
      <4>2. /\ Fits(memory[n].store)
            /\ memory[n].at = "ready" /\ StoreOf(n).provider # None =>
                  None \notin index[Of(n)].missing
        BY <2>2, <4>1 DEF Matches
      <4>3. Fits(memory[n].store)'
        BY <1>9, <3>1, <3>2, <3>3, <3>4, <4>1, <4>2 DEF Fits, Of
      <4> QED BY <3>4, <4>1, <4>2, <4>3
    <3> QED BY <2>3, <3>5, <3>6
  <2> QED BY <2>4, <2>5
<1>14. ASSUME NEW n \in Memories PROVE IndexSound(n)'
  <2>1. memory'[n].at = "none" => HasStore(n)' /\ Matches(n)' /\ Alone(n)'
    BY DEF HasStore, Matches, Alone
  <2> QED BY <1>13, <2>1 DEF IndexSound
<1>15. ASSUME NEW c \in Characters PROVE CacheSound(c)'
  <2>1. CacheSound(c)
    BY DEF StoresSound
  <2>2. runtime[c] # None => memory'[runtime[c]].at # "none"
    BY <1>7, <2>1, Types DEF CacheSound, StoresTyped
  <2>3. cache[c] # None => store'[cache[c]].state \in {"opening", "open"}
    BY <1>6, <2>1, Types DEF CacheSound, StoresTyped
  <2> QED BY <1>9, <2>1, <2>2, <2>3 DEF CacheSound, Of
<1> QED BY <1>11, <1>12, <1>14, <1>15 DEF StoresSound

\* What StoreFails writes, instance by instance.
LEMMA FailedInstances ==
    ASSUME TypeOK, NEW m \in Memories, StoreFails(m), NEW n \in Memories
    PROVE  \/ /\ memory[n].at \in {"opens", "joins"} /\ memory[n].store = m
              /\ memory'[n] = [memory[n] EXCEPT !.at = "idle", !.store = None]
           \/ /\ memory[n].at \in {"drops", "shuts"} /\ memory[n].resets = m
              /\ memory'[n] = StoresGone(n)
           \/ /\ ~(memory[n].at \in {"opens", "joins"} /\ memory[n].store = m)
              /\ ~(memory[n].at \in {"drops", "shuts"} /\ memory[n].resets = m)
              /\ memory'[n] = memory[n]
<1> DEFINE A == memory[n].at \in {"opens", "joins"} /\ memory[n].store = m
           B == memory[n].at \in {"drops", "shuts"} /\ memory[n].resets = m
<1>1. memory' = [k \in Memories |->
                   CASE memory[k].at \in {"opens", "joins"} /\ memory[k].store = m ->
                          [memory[k] EXCEPT !.at = "idle", !.store = None]
                     [] memory[k].at \in {"drops", "shuts"} /\ memory[k].resets = m ->
                          StoresGone(k)
                     [] OTHER -> memory[k]]
  BY DEF StoreFails
<1>2. memory'[n] = CASE A -> [memory[n] EXCEPT !.at = "idle", !.store = None]
                     [] B -> StoresGone(n)
                     [] OTHER -> memory[n]
  BY <1>1
<1>3. ~(A /\ B)
  OBVIOUS
<1>4. (A /\ memory'[n] = [memory[n] EXCEPT !.at = "idle", !.store = None])
        \/ (B /\ memory'[n] = StoresGone(n)) \/ (~A /\ ~B /\ memory'[n] = memory[n])
  <2> HIDE DEF A, B
  <2> QED BY <1>2, <1>3
<1> QED BY <1>4

LEMMA GoneFields ==
    ASSUME TypeOK, NEW n \in Memories
    PROVE  /\ StoresGone(n).at = IF memory[n].at = "drops" THEN "idle" ELSE "gone"
           /\ StoresGone(n).store = None /\ StoresGone(n).resets = None
           /\ StoresGone(n).closed = memory[n].closed
BY Instances DEF StoresGone, MemoryStates

LEMMA StoreFailsKeeps ==
    ASSUME TypeOK, StoresSound, NEW m \in Memories, StoreFails(m)
    PROVE  StoresSound'
<1>1. /\ memory[m].at = "opens"
      /\ store' = [store EXCEPT ![m].state = "failed"]
      /\ cache' = [cache EXCEPT ![Of(m)] = IF @ = m THEN None ELSE @]
      /\ UNCHANGED <<provision, runtime, index>>
  BY DEF StoreFails
<1>2. /\ store'[m].state = "failed" /\ store'[m].provider = store[m].provider
      /\ \A n \in Memories : n # m => store'[n] = store[n]
  BY <1>1, Types DEF StoresTyped, StoreStates
<1>3. /\ StoreSound(m) /\ InstanceSound(m) /\ IndexSound(m)
      /\ store[m].state = "opening" /\ memory[m].store = m /\ cache[Of(m)] = m
  BY <1>1 DEF StoresSound, StoreSound
<1>4. /\ cache'[Of(m)] = None
      /\ \A c \in Characters : c # Of(m) => cache'[c] = cache[c]
  BY <1>1, <1>3, Names, Types DEF StoresTyped
<1>5. providers' = providers /\ runtime' = runtime /\ index' = index
  BY <1>1 DEF provision
<1>6. \A n \in Memories :
         /\ memory[n] \in MemoryStates /\ memory'[n].closed = memory[n].closed
         /\ memory'[n] = memory[n] \/ memory'[n].at \in {"idle", "gone"}
         /\ memory[n].at \in {"joins", "opens"} /\ memory[n].store # m => memory'[n] = memory[n]
         /\ memory[n].at \in {"indexes", "ready"} => memory'[n] = memory[n]
         /\ memory[n].at \in {"drops", "shuts"} /\ memory[n].resets # m =>
               memory'[n] = memory[n]
         /\ memory'[n].at = "gone" => memory[n].at \in {"gone", "shuts"}
         /\ memory[n].at = "none" => memory'[n] = memory[n]
         /\ memory'[n].store \in {memory[n].store, None}
         /\ memory'[n].resets \in {memory[n].resets, None}
         /\ memory[n].at \in {"joins", "opens"} /\ memory[n].store = m =>
               memory'[n].at = "idle"
  <2> SUFFICES ASSUME NEW n \in Memories
               PROVE  /\ memory[n] \in MemoryStates /\ memory'[n].closed = memory[n].closed
                      /\ memory'[n] = memory[n] \/ memory'[n].at \in {"idle", "gone"}
                      /\ memory[n].at \in {"joins", "opens"} /\ memory[n].store # m =>
                            memory'[n] = memory[n]
                      /\ memory[n].at \in {"indexes", "ready"} => memory'[n] = memory[n]
                      /\ memory[n].at \in {"drops", "shuts"} /\ memory[n].resets # m =>
                            memory'[n] = memory[n]
                      /\ memory'[n].at = "gone" => memory[n].at \in {"gone", "shuts"}
                      /\ memory[n].at = "none" => memory'[n] = memory[n]
                      /\ memory'[n].store \in {memory[n].store, None}
                      /\ memory'[n].resets \in {memory[n].resets, None}
                      /\ memory[n].at \in {"joins", "opens"} /\ memory[n].store = m =>
                            memory'[n].at = "idle"
    OBVIOUS
  <2>1. memory[n] \in MemoryStates
    BY Instances
  <2>2. /\ [memory[n] EXCEPT !.at = "idle", !.store = None].at = "idle"
        /\ [memory[n] EXCEPT !.at = "idle", !.store = None].store = None
        /\ [memory[n] EXCEPT !.at = "idle", !.store = None].closed = memory[n].closed
        /\ [memory[n] EXCEPT !.at = "idle", !.store = None].resets = memory[n].resets
    BY <2>1 DEF MemoryStates
  <2> QED BY <2>1, <2>2, FailedInstances, GoneFields
<1>7. ASSUME NEW n \in Memories PROVE StoreSound(n)'
  <2>1. StoreSound(n)
    BY DEF StoresSound
  <2>2. CASE n = m
    BY <1>2, <1>3, <1>5, <1>6, <2>1, <2>2 DEF StoreSound
  <2>3. CASE n # m
    <3>1. store'[n] = store[n]
      BY <1>2, <2>3
    <3>2. store[n].state \in {"opening", "open"} => cache'[Of(n)] = n
      BY <1>3, <1>4, <2>1, <2>3, Names DEF StoreSound
    <3>3. memory'[n].at = "opens" <=> memory[n].at = "opens"
      BY <1>6, <2>1, <2>3 DEF StoreSound
    <3>4. memory[n].at = "opens" \/ store[n].state = "open" => memory'[n] = memory[n]
      BY <1>6, <2>1, <2>3 DEF StoreSound
    <3>5. Fits(n) => Fits(n)'
      BY <1>5, <3>1 DEF Fits, Of
    <3> QED BY <1>5, <2>1, <3>1, <3>2, <3>3, <3>4, <3>5 DEF StoreSound, Of
  <2> QED BY <2>2, <2>3
<1>8. ASSUME NEW n \in Memories PROVE InstanceSound(n)'
  <2>1. InstanceSound(n)
    BY DEF StoresSound
  <2>2. memory'[n].at = "none" => memory'[n] = NoMemory
    BY <1>6, <2>1 DEF InstanceSound
  <2>3. memory'[n].at # "none" /\ ~memory'[n].closed => runtime[Of(n)] = n
    BY <1>6, <2>1 DEF InstanceSound
  <2>4. memory'[n].at \in {"shuts", "gone"} => memory'[n].closed
    BY <1>6, <2>1 DEF InstanceSound
  <2> QED BY <1>5, <1>6, <2>1, <2>2, <2>3, <2>4 DEF InstanceSound, Of, NoMemory
<1>9. ASSUME NEW n \in Memories, ~memory'[n].closed PROVE HasStore(n)' /\ Matches(n)' /\ Alone(n)'
  <2>1. ~memory[n].closed /\ HasStore(n) /\ Matches(n) /\ Alone(n)
    BY <1>6, <1>9 DEF StoresSound, IndexSound
  <2>2. CASE memory'[n].at \in {"joins", "indexes", "ready"}
    <3>1. memory'[n] = memory[n]
      BY <1>6, <2>2
    <3>2. memory[n].store \in Memories /\ memory[n].store # m
      BY <1>3, <1>6, <2>1, <2>2, <3>1, Instances DEF HasStore, StoreOf
    <3>3. store'[memory[n].store] = store[memory[n].store]
      BY <1>2, <3>2
    <3>4. HasStore(n)'
      BY <2>1, <3>1, <3>3 DEF HasStore, StoreOf
    <3>5. Matches(n)'
      BY <1>5, <2>1, <3>1, <3>3 DEF Matches, StoreOf, Fits, Of
    <3> QED BY <2>1, <3>4, <3>5, <1>6, <3>1 DEF Alone, Of
  <2>3. CASE memory'[n].at \notin {"joins", "indexes", "ready"}
    <3>1. HasStore(n)' /\ Matches(n)'
      BY <2>3 DEF HasStore, Matches
    <3>2. Alone(n)'
      <4> SUFFICES ASSUME NEW k \in Memories, memory'[n].at # "none", memory'[k].at = "opens",
                          Of(k) = Of(n), k # n
                   PROVE  FALSE
        BY DEF Alone, Of
      <4>1. memory[k].at = "opens" /\ memory[k].store # m /\ memory[n].at # "none"
        BY <1>6
      <4>2. memory[n].at = "joins" /\ memory[n].store = k /\ k # m
        BY <2>1, <4>1, <1>3 DEF Alone, StoresSound, StoreSound
      <4> QED BY <1>6, <2>3, <4>2
    <3> QED BY <3>1, <3>2
  <2> QED BY <2>2, <2>3
<1>10. \A n \in Memories : IndexSound(n)'
  BY <1>9 DEF IndexSound
<1>11. ASSUME NEW c \in Characters PROVE CacheSound(c)'
  <2>1. CacheSound(c)
    BY DEF StoresSound
  <2>2. runtime[c] # None => memory'[runtime[c]].at # "none"
    BY <1>6, <2>1, Types DEF CacheSound, StoresTyped
  <2>3. cache'[c] # None => cache[c] # None /\ cache[c] # m /\ cache'[c] = cache[c]
    BY <1>4, <2>1 DEF CacheSound
  <2>4. cache[c] # None /\ cache[c] # m => store'[cache[c]] = store[cache[c]]
    BY <1>2, Types DEF StoresTyped
  <2> QED BY <1>5, <2>1, <2>2, <2>3, <2>4 DEF CacheSound, Of
<1> QED BY <1>7, <1>8, <1>10, <1>11 DEF StoresSound

LEMMA StoresResetKeeps ==
    ASSUME TypeOK, StoresSound, NEW m \in Memories, StoresReset(m)
    PROVE  StoresSound'
<1> DEFINE s == memory[m].resets
<1>1. /\ memory[m].at \in {"drops", "shuts"}
      /\ s # None => store[s].state # "opening"
      /\ store' = StoreClosed(s)
      /\ cache' = [cache EXCEPT ![Of(m)] = IF @ = s THEN None ELSE @]
      /\ memory' = [memory EXCEPT ![m] = StoresGone(m)]
      /\ UNCHANGED <<provision, runtime, index>>
  BY DEF StoresReset, shared
<1>2. StoreSound(m) /\ InstanceSound(m) /\ IndexSound(m) /\ s \in Memories \cup {None}
  BY Instances DEF StoresSound
<1>3. s # None => Of(s) = Of(m)
  BY <1>2 DEF InstanceSound
<1> HIDE DEF s
<1>4. \A n \in Memories :
         /\ store'[n].provider = store[n].provider /\ store'[n].reindex = store[n].reindex
         /\ store'[n].state = IF n = s /\ store[n].state = "open" THEN "closed"
                              ELSE store[n].state
         /\ n # s => store'[n] = store[n]
  <2> SUFFICES ASSUME NEW n \in Memories
               PROVE  /\ store'[n].provider = store[n].provider
                      /\ store'[n].reindex = store[n].reindex
                      /\ store'[n].state = IF n = s /\ store[n].state = "open" THEN "closed"
                                           ELSE store[n].state
                      /\ n # s => store'[n] = store[n]
    OBVIOUS
  <2>1. store[n] \in StoreStates
    BY Instances
  <2>2. store'[n] = [store[n] EXCEPT !.state = IF n = s /\ store[n].state = "open"
                                               THEN "closed" ELSE store[n].state]
    BY <1>1 DEF StoreClosed
  <2>3. store[n] = [state |-> store[n].state, provider |-> store[n].provider,
                    reindex |-> store[n].reindex]
    BY <2>1 DEF StoreStates
  <2> QED BY <2>1, <2>2, <2>3 DEF StoreStates
<1>5. /\ memory'[m].at \in {"idle", "gone"} /\ memory'[m].closed = memory[m].closed
      /\ memory'[m].store = None /\ memory'[m].resets = None
      /\ memory'[m].at = "gone" => memory[m].at = "shuts"
      /\ \A n \in Memories : n # m => memory'[n] = memory[n]
  BY <1>1, GoneFields, Types DEF StoresTyped
<1>6. /\ cache'[Of(m)] = IF cache[Of(m)] = s THEN None ELSE cache[Of(m)]
      /\ \A c \in Characters : c # Of(m) => cache'[c] = cache[c]
  BY <1>1, Names, Types DEF StoresTyped
<1>7. providers' = providers /\ runtime' = runtime /\ index' = index
  BY <1>1 DEF provision
<1>8. ASSUME NEW n \in Memories PROVE StoreSound(n)'
  <2>1. StoreSound(n)
    BY DEF StoresSound
  <2>2. store'[n].state \in {"opening", "open"} =>
           /\ store[n].state = store'[n].state /\ n # s /\ cache'[Of(n)] = n
    BY <1>1, <1>4, <1>6, <2>1, Names DEF StoreSound
  <2>3. memory'[n].at = "opens" <=> memory[n].at = "opens"
    BY <1>1, <1>5
  <2>4. store[n].state = "opening" <=> store'[n].state = "opening"
    BY <1>1, <1>4
  <2>5. memory[n].at = "opens" => memory'[n] = memory[n]
    BY <1>1, <1>5
  <2>6. store'[n].state = "open" => n # m /\ memory'[n] = memory[n]
    <3>1. CASE n = m
      BY <1>1, <2>1, <2>2, <3>1 DEF StoreSound, s
    <3> QED BY <1>5, <3>1
  <2>7. Fits(n) => Fits(n)'
    BY <1>4, <1>7 DEF Fits, Of
  <2> QED BY <1>4, <1>7, <2>1, <2>2, <2>3, <2>4, <2>5, <2>6, <2>7 DEF StoreSound, Of
<1>9. ASSUME NEW n \in Memories PROVE InstanceSound(n)'
  <2>1. InstanceSound(n)
    BY DEF StoresSound
  <2>2. CASE n = m
    BY <1>1, <1>5, <1>7, <2>1, <2>2 DEF InstanceSound, Of
  <2>3. CASE n # m
    BY <1>5, <1>7, <2>1, <2>3 DEF InstanceSound, Of, NoMemory
  <2> QED BY <2>2, <2>3
<1>10. ASSUME NEW n \in Memories, ~memory'[n].closed
       PROVE  HasStore(n)' /\ Matches(n)' /\ Alone(n)'
  <2>1. ~memory[n].closed /\ HasStore(n) /\ Matches(n) /\ Alone(n)
    BY <1>5, <1>10 DEF StoresSound, IndexSound
  <2>2. CASE n = m
    <3>1. Alone(n)'
      BY <1>1, <1>5, <2>1, <2>2 DEF Alone, Of
    <3> QED BY <1>5, <2>2, <3>1 DEF HasStore, Matches
  <2>3. CASE n # m
    <3>1. memory'[n] = memory[n]
      BY <1>5, <2>3
    <3>2. Alone(n)'
      BY <1>5, <2>1, <3>1 DEF Alone, Of
    <3>3. ASSUME memory[n].at \in {"joins", "indexes", "ready"}
          PROVE  HasStore(n)' /\ Matches(n)'
      <4>1. memory[n].store \in Memories
        BY <2>1, <3>3, Instances DEF HasStore
      <4>2. HasStore(n)'
        BY <1>4, <2>1, <3>1, <3>3, <4>1 DEF HasStore, StoreOf
      <4>3. StoreOf(n).state \in {"open", "closed"} \/ StoreOf(n)'.state = "opening"
        BY <1>4, <2>1, <3>1, <3>3, <4>1 DEF HasStore, StoreOf
      <4>4. Fits(memory[n].store) => Fits(memory[n].store)'
        BY <1>4, <1>7, <3>1, <4>1 DEF Fits, Of
      <4>5. StoreOf(n)'.provider = StoreOf(n).provider
        BY <1>4, <3>1, <4>1 DEF StoreOf
      <4>6. Matches(n)'
        <5> SUFFICES ASSUME StoreOf(n)'.state \in {"open", "closed"}
                     PROVE  /\ Fits(memory[n].store)'
                            /\ memory[n].at = "ready" /\ StoreOf(n)'.provider # None =>
                                  None \notin index'[Of(n)].missing
          BY <3>1 DEF Matches, Of, Fits
        <5>1. StoreOf(n).state \in {"open", "closed"}
          BY <4>3
        <5> QED BY <1>7, <2>1, <3>3, <4>4, <4>5, <5>1 DEF Matches
      <4> QED BY <4>2, <4>6
    <3>4. CASE memory[n].at \notin {"joins", "indexes", "ready"}
      BY <3>1, <3>2, <3>4 DEF HasStore, Matches
    <3> QED BY <3>2, <3>3, <3>4
  <2> QED BY <2>2, <2>3
<1>11. \A n \in Memories : IndexSound(n)'
  BY <1>10 DEF IndexSound
<1>12. ASSUME NEW c \in Characters PROVE CacheSound(c)'
  <2>1. CacheSound(c)
    BY DEF StoresSound
  <2>2. runtime[c] # None => memory'[runtime[c]].at # "none"
    BY <1>5, <2>1, Types DEF CacheSound, StoresTyped
  <2>3. cache'[c] # None => cache[c] \in Memories /\ cache[c] # s /\ cache'[c] = cache[c]
    <3>1. cache[c] \in Memories \cup {None}
      BY Types DEF StoresTyped
    <3>2. CASE c = Of(m)
      BY <1>6, <3>1, <3>2
    <3>3. CASE c # Of(m)
      BY <1>3, <1>6, <2>1, <3>1, <3>3, Names DEF CacheSound
    <3> QED BY <3>2, <3>3
  <2> QED BY <1>4, <1>7, <2>1, <2>2, <2>3 DEF CacheSound, Of
<1> QED BY <1>8, <1>9, <1>11, <1>12 DEF StoresSound

\* An instance that is started: the one in use, or a new one.
Startable(m, c) ==
    /\ Of(m) = c /\ c \in Characters /\ ~memory[m].closed
    /\ \/ runtime[c] = m /\ runtime' = runtime
       \/ runtime[c] = None /\ memory[m].at = "none" /\ runtime' = [runtime EXCEPT ![c] = m]

LEMMA AskedInstance ==
    ASSUME TypeOK, StoresSound, NEW u \in Uses, NEW c \in Characters, UseAsks(u, c)
    PROVE  \E m \in Memories : Startable(m, c) /\ Asks(u, m)
<1>1. CASE runtime[c] # None
  <2>1. runtime[c] \in Memories /\ Of(runtime[c]) = c
    BY <1>1, Types DEF StoresTyped, StoresSound, CacheSound
  <2> QED BY <1>1, <2>1 DEF UseAsks, Startable
<1>2. CASE runtime[c] = None
  <2>1. PICK i \in 1..MaxMemories :
          /\ memory[<<c, i>>].at = "none"
          /\ runtime' = [runtime EXCEPT ![c] = <<c, i>>] /\ Asks(u, <<c, i>>)
    BY <1>2 DEF UseAsks
  <2>2. <<c, i>> \in Memories /\ Of(<<c, i>>) = c
    BY Names
  <2>3. ~memory[<<c, i>>].closed
    BY <2>1, <2>2 DEF StoresSound, InstanceSound, NoMemory
  <2> QED BY <1>2, <2>1, <2>2, <2>3 DEF Startable
<1> QED BY <1>1, <1>2

LEMMA AsksKeeps ==
    ASSUME TypeOK, StoresSound, NEW u \in Uses, NEW c \in Characters, UseAsks(u, c)
    PROVE  StoresSound'
<1>1. UNCHANGED <<config, provision, index>>
  BY DEF UseAsks
<1>2. PICK m \in Memories : Startable(m, c) /\ Asks(u, m)
  BY AskedInstance
<1>3. /\ StoreSound(m) /\ InstanceSound(m) /\ IndexSound(m) /\ CacheSound(c)
      /\ memory[m] \in MemoryStates /\ store[m] \in StoreStates
      /\ cache[c] \in Memories \cup {None}
  BY <1>2, Instances DEF StoresSound, Startable
<1>4. providers' = providers /\ index' = index
  BY <1>1 DEF provision
<1>5. CASE Started(m) \/ Starting(m)
  <2>1. UNCHANGED <<memory, store, cache>>
    BY <1>2, <1>5 DEF Asks
  <2>2. runtime' = runtime
    BY <1>2, <1>5 DEF Startable, Started, Starting
  <2>3. ConfigsStay /\ IndexStays
    BY <1>4 DEF ConfigsStay, IndexStays
  <2> QED BY <2>1, <2>2, <2>3, InstancesStay DEF stores
<1>6. CASE ~(Started(m) \/ Starting(m))
  <2>1. memory[m].at \in {"none", "idle"} /\ ~memory[m].closed
    BY <1>2, <1>3, <1>6 DEF Startable, Started, Starting, InstanceSound, MemoryStates, StartStates
  <2>2. /\ runtime'[c] = m
        /\ \A d \in Characters : d # c => runtime'[d] = runtime[d]
    BY <1>2, Types DEF Startable, StoresTyped
  <2>3. \A n \in Memories : Of(n) = c /\ n # m /\ memory[n].at # "none" => memory[n].closed
    BY <1>2, Names DEF StoresSound, InstanceSound, Startable
  <2>4. Of(m) = c
    BY <1>2 DEF Startable
  <2>5. CASE Cached(m)
    <3>1. /\ memory' = [memory EXCEPT ![m].at = "joins", ![m].store = cache[c]]
          /\ UNCHANGED <<store, cache>>
      BY <1>2, <1>6, <2>4, <2>5 DEF Asks
    <3>2. /\ memory'[m].at = "joins" /\ memory'[m].store = cache[c]
          /\ memory'[m].closed = memory[m].closed /\ memory'[m].resets = memory[m].resets
          /\ \A n \in Memories : n # m => memory'[n] = memory[n]
      BY <3>1, Types DEF StoresTyped, MemoryStates
    <3>3. /\ cache[c] \in Memories /\ Of(cache[c]) = c
          /\ store[cache[c]].state \in {"opening", "open"} /\ StoreSound(cache[c])
      BY <1>3, <2>4, <2>5 DEF Cached, CacheSound, StoresSound
    <3>4. ASSUME NEW n \in Memories PROVE StoreSound(n)'
      <4>1. StoreSound(n)
        BY DEF StoresSound
      <4>2. CASE n = m
        BY <1>4, <2>1, <3>1, <3>2, <4>1, <4>2 DEF StoreSound, Fits, Of
      <4>3. CASE n # m
        BY <1>4, <3>1, <3>2, <4>1, <4>3 DEF StoreSound, Fits, Of
      <4> QED BY <4>2, <4>3
    <3>5. ASSUME NEW n \in Memories PROVE InstanceSound(n)'
      <4>1. InstanceSound(n)
        BY DEF StoresSound
      <4>2. CASE n = m
        BY <2>1, <2>2, <2>4, <3>2, <3>3, <4>1, <4>2 DEF InstanceSound, Of
      <4>3. CASE n # m
        <5>1. Of(n) = c /\ memory[n].at # "none" => memory[n].closed
          BY <2>3, <4>3
        <5>2. Of(n) # c => runtime'[Of(n)] = runtime[Of(n)]
          BY <2>2, Names
        <5> QED BY <3>2, <4>1, <4>3, <5>1, <5>2 DEF InstanceSound, Of, NoMemory
      <4> QED BY <4>2, <4>3
    <3>6. ASSUME NEW n \in Memories PROVE IndexSound(n)'
      <4>1. IndexSound(n)
        BY DEF StoresSound
      <4>2. CASE n = m
        <5>1. HasStore(m)'
          BY <1>3, <3>1, <3>2, <3>3, Names DEF HasStore, StoreOf
        <5>2. Matches(m)'
          <6>1. store[cache[c]].state # "closed"
            BY <3>3
          <6>2. store[cache[c]].state = "open" => Fits(cache[c])'
            BY <1>4, <3>1, <3>3 DEF StoreSound, Fits, Of
          <6> QED BY <3>1, <3>2, <6>1, <6>2 DEF Matches, StoreOf, Fits, Of
        <5>3. Alone(m)'
          <6> SUFFICES ASSUME NEW k \in Memories, memory'[k].at = "opens", Of(k) = Of(m), k # m
                       PROVE  memory'[m].at = "joins" /\ memory'[m].store = k
            BY DEF Alone, Of
          <6>1. memory[k].at = "opens" /\ StoreSound(k)
            BY <3>2 DEF StoresSound
          <6>2. cache[c] = k
            BY <2>4, <6>1 DEF StoreSound
          <6> QED BY <3>2, <6>2
        <5> QED BY <4>2, <5>1, <5>2, <5>3 DEF IndexSound
      <4>3. CASE n # m
        <5>1. memory'[n] = memory[n]
          BY <3>2, <4>3
        <5>2. \A k \in Memories : memory'[k].at = "opens" => memory[k].at = "opens"
          BY <3>2
        <5>3. Alone(n) => Alone(n)'
          BY <5>1, <5>2 DEF Alone, Of
        <5> QED BY <1>4, <3>1, <4>1, <5>1, <5>3
                DEF IndexSound, HasStore, Matches, StoreOf, Fits, Of
      <4> QED BY <4>2, <4>3
    <3>7. ASSUME NEW d \in Characters PROVE CacheSound(d)'
      <4>1. CacheSound(d)
        BY DEF StoresSound
      <4>2. CASE d = c
        BY <2>2, <2>4, <3>1, <3>2, <4>1, <4>2 DEF CacheSound, Of
      <4>3. CASE d # c
        <5>1. runtime'[d] = runtime[d]
          BY <2>2, <4>3
        <5>2. runtime[d] # None => memory'[runtime[d]].at # "none"
          BY <3>2, <4>1, Types DEF CacheSound, StoresTyped
        <5> QED BY <3>1, <4>1, <5>1, <5>2 DEF CacheSound, Of
      <4> QED BY <4>2, <4>3
    <3> QED BY <3>4, <3>5, <3>6, <3>7 DEF StoresSound
  <2>6. CASE ~Cached(m)
    <3>1. /\ memory' = [memory EXCEPT ![m].at = "opens", ![m].store = m]
          /\ cache' = [cache EXCEPT ![c] = m]
          /\ store' = [store EXCEPT ![m] = [NoStore EXCEPT !.state = "opening"]]
          /\ cache[c] = None
      BY <1>2, <1>6, <2>4, <2>6 DEF Asks, Cached
    <3>2. /\ memory'[m].at = "opens" /\ memory'[m].store = m
          /\ memory'[m].closed = memory[m].closed /\ memory'[m].resets = memory[m].resets
          /\ \A n \in Memories : n # m => memory'[n] = memory[n]
      BY <3>1, Types DEF StoresTyped, MemoryStates
    <3>3. /\ cache'[c] = m
          /\ \A d \in Characters : d # c => cache'[d] = cache[d]
      BY <1>2, <3>1, Types DEF StoresTyped, Startable
    <3>4. /\ store'[m].state = "opening" /\ store'[m].provider = None
          /\ \A n \in Memories : n # m => store'[n] = store[n]
      BY <3>1, Types DEF StoresTyped, NoStore
    <3>5. \A n \in Memories : Of(n) = c => store[n].state \notin {"opening", "open"}
      BY <3>1, Names DEF StoresSound, StoreSound
    <3>6. \A n \in Memories : Of(n) = c => memory[n].at # "opens"
      BY <3>5 DEF StoresSound, StoreSound
    <3>7. ASSUME NEW n \in Memories PROVE StoreSound(n)'
      <4>1. StoreSound(n)
        BY DEF StoresSound
      <4>2. CASE n = m
        BY <2>4, <3>2, <3>3, <3>4, <4>2 DEF StoreSound, Of
      <4>3. CASE n # m
        <5>1. store[n].state \in {"opening", "open"} => cache'[Of(n)] = n
          BY <3>3, <3>5, <4>1, Names DEF StoreSound
        <5> QED BY <1>4, <3>2, <3>4, <4>1, <4>3, <5>1 DEF StoreSound, Fits, Of
      <4> QED BY <4>2, <4>3
    <3>8. ASSUME NEW n \in Memories PROVE InstanceSound(n)'
      <4>1. InstanceSound(n)
        BY DEF StoresSound
      <4>2. CASE n = m
        BY <2>1, <2>2, <2>4, <3>2, <4>1, <4>2 DEF InstanceSound, Of
      <4>3. CASE n # m
        <5>1. Of(n) = c /\ memory[n].at # "none" => memory[n].closed
          BY <2>3, <4>3
        <5>2. Of(n) # c => runtime'[Of(n)] = runtime[Of(n)]
          BY <2>2, Names
        <5> QED BY <3>2, <4>1, <4>3, <5>1, <5>2 DEF InstanceSound, Of, NoMemory
      <4> QED BY <4>2, <4>3
    <3>9. ASSUME NEW n \in Memories PROVE IndexSound(n)'
      <4>1. IndexSound(n) /\ InstanceSound(n)
        BY DEF StoresSound
      <4>2. CASE n = m
        <5>1. HasStore(m)' /\ Matches(m)'
          BY <3>2 DEF HasStore, Matches
        <5>2. Alone(m)'
          <6> SUFFICES ASSUME NEW k \in Memories, memory'[k].at = "opens", Of(k) = Of(m), k # m
                       PROVE  FALSE
            BY DEF Alone, Of
          <6> QED BY <2>4, <3>2, <3>6
        <5> QED BY <4>2, <5>1, <5>2 DEF IndexSound
      <4>3. CASE n # m /\ Of(n) = c
        <5>1. memory'[n] = memory[n] /\ (memory[n].at = "none" \/ memory[n].closed)
          BY <2>3, <3>2, <4>3
        <5> QED BY <5>1 DEF IndexSound, HasStore, Matches, Alone
      <4>4. CASE Of(n) # c
        <5>1. n # m /\ memory'[n] = memory[n]
          BY <2>4, <3>2, <4>4
        <5>2. memory[n].store # None => store'[memory[n].store] = store[memory[n].store]
          BY <2>4, <3>4, <4>1, <4>4, Instances DEF InstanceSound
        <5>3. Alone(n) => Alone(n)'
          <6> SUFFICES ASSUME Alone(n), NEW k \in Memories, memory'[n].at # "none",
                              memory'[k].at = "opens", Of(k) = Of(n), k # n
                       PROVE  memory'[n].at = "joins" /\ memory'[n].store = k
            BY DEF Alone, Of
          <6>1. k # m
            BY <2>4, <4>4
          <6> QED BY <3>2, <5>1, <6>1 DEF Alone
        <5>4. HasStore(n) => HasStore(n)'
          BY <5>1, <5>2 DEF HasStore, StoreOf
        <5>5. HasStore(n) /\ Matches(n) => Matches(n)'
          BY <1>4, <5>1, <5>2 DEF HasStore, Matches, StoreOf, Fits, Of
        <5> QED BY <4>1, <5>1, <5>3, <5>4, <5>5 DEF IndexSound
      <4> QED BY <4>2, <4>3, <4>4
    <3>10. ASSUME NEW d \in Characters PROVE CacheSound(d)'
      <4>1. CacheSound(d)
        BY DEF StoresSound
      <4>2. CASE d = c
        BY <2>2, <2>4, <3>2, <3>3, <3>4, <4>2 DEF CacheSound, Of
      <4>3. CASE d # c
        <5>1. runtime'[d] = runtime[d] /\ cache'[d] = cache[d]
          BY <2>2, <3>3, <4>3
        <5>2. runtime[d] # None => memory'[runtime[d]].at # "none"
          BY <3>2, <4>1, Types DEF CacheSound, StoresTyped
        <5>3. cache[d] # None => store'[cache[d]].state \in {"opening", "open"}
          BY <2>4, <3>4, <4>1, <4>3, Types DEF CacheSound, StoresTyped
        <5> QED BY <4>1, <5>1, <5>2, <5>3 DEF CacheSound, Of
      <4> QED BY <4>2, <4>3
    <3> QED BY <3>7, <3>8, <3>9, <3>10 DEF StoresSound
  <2> QED BY <2>5, <2>6
<1> QED BY <1>5, <1>6

\* The registry forgets an instance that is closed.
LEMMA ForgettingKeeps ==
    ASSUME TypeOK, StoresSound, NEW c \in Characters,
           UNCHANGED <<provision, memory, store, cache, index>>,
           runtime' = [runtime EXCEPT ![c] = None],
           runtime[c] # None => memory[runtime[c]].closed
    PROVE  StoresSound'
<1>1. /\ runtime'[c] = None
      /\ \A d \in Characters : d # c => runtime'[d] = runtime[d]
  BY Types DEF StoresTyped
<1>2. ASSUME NEW n \in Memories PROVE StoreSound(n)' /\ InstanceSound(n)' /\ IndexSound(n)'
  <2>1. StoreSound(n) /\ InstanceSound(n) /\ IndexSound(n)
    BY DEF StoresSound
  <2>2. StoreSound(n)' /\ IndexSound(n)'
    BY <2>1 DEF StoreSound, IndexSound, HasStore, Matches, Alone, Fits, StoreOf, Of, provision
  <2>3. memory[n].at # "none" /\ ~memory[n].closed => runtime'[Of(n)] = n
    BY <1>1, <2>1, Names DEF InstanceSound
  <2> QED BY <2>1, <2>2, <2>3 DEF InstanceSound, Of, NoMemory
<1>3. ASSUME NEW d \in Characters PROVE CacheSound(d)'
  <2>1. CacheSound(d)
    BY DEF StoresSound
  <2> QED BY <1>1, <2>1 DEF CacheSound, Of
<1> QED BY <1>2, <1>3 DEF StoresSound

\* Nothing is started, as in a new process.
Empty == /\ runtime = [c \in Characters |-> None] /\ memory = [m \in Memories |-> NoMemory]
         /\ store = [m \in Memories |-> NoStore] /\ cache = [c \in Characters |-> None]

LEMMA EmptyIsSound == Empty => StoresSound
<1> SUFFICES ASSUME Empty PROVE StoresSound
  OBVIOUS
<1>1. ASSUME NEW m \in Memories PROVE StoreSound(m) /\ InstanceSound(m) /\ IndexSound(m)
  <2>1. memory[m] = NoMemory /\ store[m] = NoStore /\ \A n \in Memories : memory[n] = NoMemory
    BY DEF Empty
  <2> QED BY <2>1 DEF NoMemory, NoStore, StoreSound, InstanceSound, IndexSound, HasStore,
             Matches, Alone
<1>2. \A c \in Characters : CacheSound(c)
  BY DEF Empty, CacheSound
<1> QED BY <1>1, <1>2 DEF StoresSound

LEMMA EmptyIsSoundNext == Empty' => StoresSound'
<1>1. Empty => StoresSound
  BY EmptyIsSound
<1> QED BY <1>1, PTL

LEMMA StoresGoOn ==
    ASSUME TypeOK, SharedSound, StoresSound, Next
    PROVE  StoresSound'
<1> USE Types
<1>1. CASE SharedStep /\ UNCHANGED <<config, own>>
  <2>1. ConfigsStay
    BY <1>1, ConfigurationsStay DEF ConfigsStay
  <2>2. IndexStays /\ UNCHANGED stores
    BY <1>1 DEF own, IndexStays
  <2> QED BY <2>1, <2>2, InstancesStay
<1>2. ASSUME UNCHANGED <<stores, index, providers>> PROVE StoresSound'
  BY <1>2, InstancesStay DEF ConfigsStay, IndexStays
<1>3. CASE \E m \in Memories : MemoryStep(m)
  <2> PICK m \in Memories : MemoryStep(m)
    BY <1>3
  <2>1. CASE StoreOpens(m) \/ StoreFails(m) \/ StoreTaken(m) \/ Indexed(m) \/ StoresReset(m)
    BY <2>1, StoreOpensKeeps, StoreFailsKeeps, StoreTakenKeeps, IndexedKeeps, StoresResetKeeps
  <2>2. CASE IndexCalls(m)
    BY <1>2, <2>2 DEF IndexCalls, own, provision
  <2>3. CASE IndexFails(m)
    <3>1. /\ memory' = [memory EXCEPT ![m].at = "drops", ![m].resets = cache[Of(m)]]
          /\ UNCHANGED <<provision, runtime, store, cache, index>>
          /\ memory[m].at = "indexes"
      BY <2>3 DEF IndexFails
    <3> QED BY <3>1, ResettingKeeps
  <2>4. CASE Destroys(m)
    <3>1. /\ memory' = [memory EXCEPT ![m].at = "shuts", ![m].resets = cache[Of(m)]]
          /\ UNCHANGED <<provision, runtime, store, cache, index>>
          /\ memory[m].closed /\ memory[m].at \in {"idle", "ready"}
      BY <2>4 DEF Destroys, shared
    <3> QED BY <3>1, ResettingKeeps
  <2> QED BY <2>1, <2>2, <2>3, <2>4 DEF MemoryStep, StartStep
<1>4. CASE \E u \in Uses, c \in Characters : UseAsks(u, c)
  BY <1>4, AsksKeeps
<1>5. CASE \E u \in Uses : UseStep(u)
  <2> PICK u \in Uses : UseStep(u)
    BY <1>5
  <2>1. UNCHANGED <<stores, providers>>
    BY DEF UseStep, UseGoes, Query, Capture, UseEnds, UseFails, shared, provision
  <2>2. IndexStays
    <3>1. CASE UNCHANGED index
      BY <3>1 DEF IndexStays
    <3>2. CASE \E c \in Characters : \/ index' = [index EXCEPT ![c].missing = @ \cup {u}]
                                     \/ index' = [index EXCEPT ![c].missing = @ \ {u}]
      BY <3>2, Names DEF IndexStays, UsesTyped, IndexStates
    <3>3. CASE Capture(u)
      <4>1. Of(use[u].of) \in Characters \/ UNCHANGED index
        BY <3>3 DEF Capture, UsesTyped
      <4> QED BY <3>1, <3>2, <3>3, <4>1 DEF Capture
    <3>4. CASE UseEnds(u)
      <4>1. Of(use[u].of) \in Characters \/ UNCHANGED index
        BY <3>4 DEF UseEnds, UsesTyped
      <4> QED BY <3>1, <3>2, <3>4, <4>1 DEF UseEnds
    <3> QED BY <3>1, <3>3, <3>4 DEF UseStep, UseGoes, Query, UseFails
  <2>3. ConfigsStay
    BY <2>1 DEF ConfigsStay
  <2> QED BY <2>1, <2>2, <2>3, InstancesStay
<1>6. CASE \E o \in Ops, c \in Characters : ResetMemory(o, c) \/ ResetMemoryEnds(o, c)
  <2> PICK o \in Ops, c \in Characters : ResetMemory(o, c) \/ ResetMemoryEnds(o, c)
    BY <1>6
  <2>1. CASE ResetMemory(o, c) /\ (runtime[c] = None \/ memory[runtime[c]].closed)
    <3>1. /\ runtime' = [runtime EXCEPT ![c] = None]
          /\ UNCHANGED <<provision, memory, store, cache, index>>
          /\ runtime[c] # None => memory[runtime[c]].closed
      BY <2>1 DEF ResetMemory, shared
    <3> QED BY <3>1, ForgettingKeeps
  <2>2. CASE ResetMemory(o, c) /\ ~(runtime[c] = None \/ memory[runtime[c]].closed)
    <3>1. /\ memory' = [memory EXCEPT ![runtime[c]].closed = TRUE]
          /\ UNCHANGED <<provision, runtime, store, cache, index>>
          /\ runtime[c] # None
      BY <2>2 DEF ResetMemory, shared
    <3>2. runtime[c] \in Memories /\ memory[runtime[c]].at # "none"
      BY <3>1 DEF StoresTyped, StoresSound, CacheSound
    <3> QED BY <3>1, <3>2, ClosingKeeps
  <2>3. CASE ResetMemoryEnds(o, c)
    <3>1. /\ runtime' = [runtime EXCEPT ![c] = IF @ = visit[o][c].of THEN None ELSE @]
          /\ memory[visit[o][c].of].at = "gone"
          /\ UNCHANGED <<provision, memory, store, cache, index>>
      BY <2>3 DEF ResetMemoryEnds, shared
    <3>2. CASE runtime[c] = visit[o][c].of
      <4>1. runtime' = [runtime EXCEPT ![c] = None]
        BY <3>1, <3>2 DEF StoresTyped
      <4>2. runtime[c] # None => memory[runtime[c]].closed
        BY <3>1, <3>2 DEF StoresTyped, StoresSound, InstanceSound
      <4> QED BY <3>1, <4>1, <4>2, ForgettingKeeps
    <3>3. CASE runtime[c] # visit[o][c].of
      <4>1. UNCHANGED runtime
        BY <3>1, <3>3 DEF StoresTyped
      <4> QED BY <1>2, <3>1, <4>1 DEF provision, stores
    <3> QED BY <3>2, <3>3
  <2> QED BY <2>1, <2>2, <2>3
<1>7. CASE \/ \E o \in Ops : ReleaseEnds(o) \/ ChangeResets(o) \/ ChangeEnds(o)
           \/ \E o \in Ops, c \in Characters : Release(o, c)
           \/ \E o \in Ops, setting \in Configurations : Change(o, setting)
           \/ HostCloses \/ HostShares \/ HostEnds
  <2>1. UNCHANGED <<stores, index, providers>>
    BY <1>7 DEF ReleaseEnds, ChangeResets, ChangeEnds, Release, Change, HostCloses, HostShares,
       HostEnds, shared, provision
  <2> QED BY <1>2, <2>1
<1>8. CASE \E c \in Characters : MemoryCloses(c)
  <2> PICK c \in Characters : MemoryCloses(c)
    BY <1>8
  <2>1. /\ memory' = [memory EXCEPT ![runtime[c]].closed = TRUE]
        /\ UNCHANGED <<provision, runtime, store, cache, index>>
        /\ runtime[c] # None
    BY DEF MemoryCloses, shared
  <2>2. runtime[c] \in Memories /\ memory[runtime[c]].at # "none"
    BY <2>1 DEF StoresTyped, StoresSound, CacheSound
  <2> QED BY <2>1, <2>2, ClosingKeeps
<1>9. CASE Restart
  BY <1>9, EmptyIsSoundNext DEF Restart, Empty
<1> QED BY <1>1, <1>3, <1>4, <1>5, <1>6, <1>7, <1>8, <1>9 DEF Next, OpStep, HostStep

-----------------------------------------------------------------------------
(* Closing *)

LEMMA CloseStays ==
    ASSUME \A m \in Memories : CloseSound(m), UNCHANGED visit,
           host = "memories" => host' = "memories",
           \A m \in Memories : /\ memory'[m].closed = memory[m].closed
                               /\ memory[m].at = "gone" => memory'[m].at = "gone"
                               /\ host = "memories" /\ runtime[Of(m)] = m => runtime'[Of(m)] = m
    PROVE  \A m \in Memories : CloseSound(m)'
BY DEF CloseSound, Visited1, Of

LEMMA GoneStays ==
    ASSUME TypeOK, NEW m \in Memories, MemoryStep(m), NEW n \in Memories
    PROVE  /\ memory'[n].closed = memory[n].closed
           /\ memory[n].at = "gone" => memory'[n].at = "gone"
           /\ memory[n].at = "none" => memory'[n].at = "none"
<1> USE Types
<1>1. memory[n] \in MemoryStates
  BY Instances
<1>2. CASE StoreFails(m)
  <2>1. [memory[n] EXCEPT !.at = "idle", !.store = None].closed = memory[n].closed
    BY <1>1 DEF MemoryStates
  <2> QED BY <1>2, <2>1, FailedInstances, GoneFields
<1>3. CASE StoreOpens(m) \/ StoreTaken(m) \/ Indexed(m)
  <2>1. \E s : /\ memory' = [memory EXCEPT ![m].at = s]
               /\ memory[m].at \in {"opens", "joins", "indexes"}
    BY <1>3 DEF StoreOpens, StoreTaken, Indexed, StartEnds
  <2> QED BY <1>1, <2>1 DEF StoresTyped, MemoryStates
<1>4. CASE IndexCalls(m)
  BY <1>4 DEF IndexCalls, own, stores
<1>5. CASE IndexFails(m) \/ Destroys(m)
  <2>1. \E s, r : /\ memory' = [memory EXCEPT ![m].at = s, ![m].resets = r]
                  /\ memory[m].at \in {"indexes", "idle", "ready"}
    BY <1>5 DEF IndexFails, Destroys
  <2> QED BY <1>1, <2>1 DEF StoresTyped, MemoryStates
<1>6. CASE StoresReset(m)
  <2>1. memory' = [memory EXCEPT ![m] = StoresGone(m)] /\ memory[m].at \in {"drops", "shuts"}
    BY <1>6 DEF StoresReset
  <2> QED BY <2>1, GoneFields DEF StoresTyped
<1> QED BY <1>2, <1>3, <1>4, <1>5, <1>6 DEF MemoryStep, StartStep

LEMMA AskedStays ==
    ASSUME TypeOK, StoresSound, NEW u \in Uses, NEW c \in Characters, UseAsks(u, c),
           NEW n \in Memories
    PROVE  /\ memory'[n].closed = memory[n].closed
           /\ memory[n].at = "gone" => memory'[n].at = "gone"
<1>1. PICK m \in Memories : Startable(m, c) /\ Asks(u, m)
  BY AskedInstance
<1>2. InstanceSound(m) /\ memory[n] \in MemoryStates
  BY Instances DEF StoresSound
<1>3. memory[m].at # "gone"
  BY <1>1, <1>2 DEF Startable, InstanceSound
<1>4. \/ memory' = memory
      \/ \E s : memory' = [memory EXCEPT ![m].at = "joins", ![m].store = s]
      \/ \E s : memory' = [memory EXCEPT ![m].at = "opens", ![m].store = s]
  BY <1>1 DEF Asks
<1> QED BY <1>2, <1>3, <1>4, Types DEF StoresTyped, MemoryStates

\* What a request writes when it begins to visit, or to close, or is done.
LEMMA VisitTyped ==
    ASSUME TypeOK, NEW o \in Ops
    PROVE  /\ \A v, c : visit' = [visit EXCEPT ![o][c] = v] =>
                 \A p \in Ops, d \in Characters :
                    visit'[p][d] = IF p = o /\ d = c THEN v ELSE visit[p][d]
           /\ \A C : Visits(o, C) =>
                 \A p \in Ops, d \in Characters :
                    /\ p # o => visit'[p] = visit[p]
                    /\ visit'[o][d].at = IF d \in C THEN "begins" ELSE "no"
<1>1. visit \in [Ops -> [Characters -> VisitStates]]
  BY Types DEF RequestsTyped
<1> QED BY <1>1 DEF Visits, NoVisit

LEMMA ClosesGoOn ==
    ASSUME TypeOK, StoresSound, \A m \in Memories : CloseSound(m),
           \A o \in Ops : OpSound(o), Next
    PROVE  \A m \in Memories : CloseSound(m)'
<1> USE Types
<1>1. ASSUME UNCHANGED <<runtime, memory, visit>>, host = "memories" => host' = "memories"
      PROVE  \A m \in Memories : CloseSound(m)'
  BY <1>1, CloseStays
<1>2. CASE SharedStep /\ UNCHANGED <<config, own>>
  BY <1>1, <1>2 DEF own, stores, requests, life
<1>3. CASE \E m \in Memories : MemoryStep(m)
  <2> PICK m \in Memories : MemoryStep(m)
    BY <1>3
  <2>1. UNCHANGED <<runtime, visit, host>>
    BY DEF MemoryStep, StartStep, StoreOpens, StoreFails, StoreTaken, IndexCalls, Indexed,
       IndexFails, Destroys, StoresReset, own, stores, requests, life
  <2> QED BY <2>1, GoneStays, CloseStays
<1>4. CASE \E u \in Uses, c \in Characters : UseAsks(u, c)
  <2> PICK u \in Uses, c \in Characters : UseAsks(u, c)
    BY <1>4
  <2>1. host = "runs" /\ UNCHANGED <<visit, host>>
    BY DEF UseAsks, requests, life
  <2> QED BY <2>1, AskedStays, CloseStays
<1>5. CASE \E u \in Uses : UseStep(u)
  BY <1>1, <1>5 DEF UseStep, UseGoes, Query, Capture, UseEnds, UseFails, stores, requests, life
<1>6. CASE \E o \in Ops : \/ \E setting \in Configurations : Change(o, setting)
                          \/ \E c \in Characters : Release(o, c)
  <2> PICK o \in Ops, C \in SUBSET Characters :
         host = "runs" /\ op[o] = "idle" /\ Visits(o, C) /\ UNCHANGED <<stores, life>>
    BY <1>6 DEF Change, Release
  <2>1. \A c \in Characters : visit[o][c].at = "no"
    BY DEF OpSound, Visited
  <2>2. ASSUME NEW m \in Memories PROVE CloseSound(m)'
    <3> SUFFICES ASSUME memory[m].closed, memory[m].at # "gone"
                 PROVE  \E p \in Ops : Visited1(p, m)'
      BY DEF CloseSound, stores
    <3>1. PICK p \in Ops : Visited1(p, m)
      BY DEF CloseSound
    <3>2. p # o
      BY <2>1, <3>1, Names DEF Visited1
    <3>3. visit'[p] = visit[p]
      BY <3>2, VisitTyped, Names
    <3> QED BY <3>1, <3>3 DEF Visited1, Of
  <2> QED BY <2>2
<1>7. CASE \E o \in Ops, c \in Characters : ResetMemory(o, c)
  <2> PICK o \in Ops, c \in Characters : ResetMemory(o, c)
    BY <1>7
  <2>1. visit[o][c].at = "begins" /\ UNCHANGED host
    BY DEF ResetMemory, life
  <2>2. CASE runtime[c] = None \/ memory[runtime[c]].closed
    <3>1. /\ runtime' = [runtime EXCEPT ![c] = None] /\ UNCHANGED memory
          /\ visit' = [visit EXCEPT ![o][c] = NoVisit]
      BY <2>2 DEF ResetMemory
    <3>2. ASSUME NEW m \in Memories PROVE CloseSound(m)'
      <4> SUFFICES ASSUME memory[m].closed, memory[m].at # "gone" PROVE CloseSound(m)'
        BY <3>1 DEF CloseSound
      <4>1. CASE \E p \in Ops : Visited1(p, m)
        <5>1. PICK p \in Ops : Visited1(p, m)
          BY <4>1
        <5>2. visit'[p][Of(m)] = visit[p][Of(m)]
          BY <2>1, <3>1, <5>1, VisitTyped, Names DEF Visited1
        <5> QED BY <5>1, <5>2 DEF CloseSound, Visited1, Of
      <4>2. CASE /\ host = "memories" /\ runtime[Of(m)] = m
                 /\ \A p \in Ops : visit[p][Of(m)].at = "no"
        <5>1. Of(m) # c
          BY <2>1, <4>2
        <5>2. \A p \in Ops : visit'[p][Of(m)] = visit[p][Of(m)]
          BY <3>1, <5>1, VisitTyped, Names
        <5>3. runtime'[Of(m)] = m
          BY <3>1, <4>2, <5>1, Names DEF StoresTyped
        <5> QED BY <2>1, <4>2, <5>2, <5>3 DEF CloseSound, Of
      <4> QED BY <4>1, <4>2 DEF CloseSound
    <3> QED BY <3>2
  <2>3. CASE ~(runtime[c] = None \/ memory[runtime[c]].closed)
    <3>1. /\ memory' = [memory EXCEPT ![runtime[c]].closed = TRUE] /\ UNCHANGED runtime
          /\ visit' = [visit EXCEPT ![o][c] = [at |-> "closes", of |-> runtime[c]]]
          /\ runtime[c] \in Memories /\ Of(runtime[c]) = c
      BY <2>3 DEF ResetMemory, StoresSound, CacheSound, StoresTyped
    <3>2. ASSUME NEW m \in Memories
          PROVE  /\ memory'[m].at = memory[m].at
                 /\ m # runtime[c] => memory'[m] = memory[m]
      BY <3>1 DEF StoresTyped, MemoryStates
    <3>3. ASSUME NEW m \in Memories PROVE CloseSound(m)'
      <4>1. CASE m = runtime[c]
        <5>1. visit'[o][c] = [at |-> "closes", of |-> m]
          BY <3>1, <4>1 DEF RequestsTyped
        <5> QED BY <3>1, <4>1, <5>1 DEF CloseSound, Visited1, Of
      <4>2. CASE m # runtime[c]
        <5> SUFFICES ASSUME memory[m].closed, memory[m].at # "gone" PROVE CloseSound(m)'
          BY <3>2, <4>2 DEF CloseSound
        <5>1. CASE \E p \in Ops : Visited1(p, m)
          <6>1. PICK p \in Ops : Visited1(p, m)
            BY <5>1
          <6>2. visit'[p][Of(m)] = visit[p][Of(m)]
            BY <2>1, <3>1, <6>1, VisitTyped, Names DEF Visited1
          <6> QED BY <6>1, <6>2 DEF CloseSound, Visited1, Of
        <5>2. CASE /\ host = "memories" /\ runtime[Of(m)] = m
                   /\ \A p \in Ops : visit[p][Of(m)].at = "no"
          <6>1. Of(m) # c
            BY <2>1, <5>2
          <6>2. \A p \in Ops : visit'[p][Of(m)] = visit[p][Of(m)]
            BY <3>1, <6>1, VisitTyped, Names
          <6> QED BY <2>1, <3>1, <5>2, <6>2 DEF CloseSound, Of
        <5> QED BY <5>1, <5>2 DEF CloseSound
      <4> QED BY <4>1, <4>2
    <3> QED BY <3>3
  <2> QED BY <2>2, <2>3
<1>8. CASE \E o \in Ops, c \in Characters : ResetMemoryEnds(o, c)
  <2> PICK o \in Ops, c \in Characters : ResetMemoryEnds(o, c)
    BY <1>8
  <2>1. /\ visit[o][c].at = "closes" /\ memory[visit[o][c].of].at = "gone"
        /\ runtime' = [runtime EXCEPT ![c] = IF @ = visit[o][c].of THEN None ELSE @]
        /\ visit' = [visit EXCEPT ![o][c] = NoVisit]
        /\ UNCHANGED <<memory, host>>
    BY DEF ResetMemoryEnds, life
  <2>2. ASSUME NEW m \in Memories PROVE CloseSound(m)'
    <3> SUFFICES ASSUME memory[m].closed, memory[m].at # "gone" PROVE CloseSound(m)'
      BY <2>1 DEF CloseSound
    <3>1. CASE \E p \in Ops : Visited1(p, m)
      <4>1. PICK p \in Ops : Visited1(p, m)
        BY <3>1
      <4>2. visit'[p][Of(m)] = visit[p][Of(m)]
        BY <2>1, <4>1, VisitTyped, Names DEF Visited1
      <4> QED BY <4>1, <4>2 DEF CloseSound, Visited1, Of
    <3>2. CASE /\ host = "memories" /\ runtime[Of(m)] = m
               /\ \A p \in Ops : visit[p][Of(m)].at = "no"
      <4>1. Of(m) # c
        BY <2>1, <3>2
      <4>2. \A p \in Ops : visit'[p][Of(m)] = visit[p][Of(m)]
        BY <2>1, <4>1, VisitTyped, Names
      <4>3. runtime'[Of(m)] = m
        BY <2>1, <3>2, <4>1, Names DEF StoresTyped
      <4> QED BY <2>1, <3>2, <4>2, <4>3 DEF CloseSound, Of
    <3> QED BY <3>1, <3>2 DEF CloseSound
  <2> QED BY <2>2
<1>9. CASE \E o \in Ops : ReleaseEnds(o) \/ ChangeResets(o) \/ ChangeEnds(o)
  BY <1>1, <1>9 DEF ReleaseEnds, ChangeResets, ChangeEnds, stores, life
<1>10. CASE HostCloses
  BY <1>1, <1>10 DEF HostCloses, stores, requests
<1>11. CASE HostEnds
  BY <1>1, <1>11 DEF HostEnds, stores, requests
<1>12. CASE HostShares
  <2>1. /\ \A c \in Characters : /\ ~Admitted(c)
                                 /\ runtime[c] # None => memory[runtime[c]].at = "gone"
        /\ UNCHANGED <<runtime, memory, visit>>
    BY <1>12 DEF HostShares, stores, requests
  <2>2. ASSUME NEW m \in Memories, memory[m].closed, memory[m].at # "gone" PROVE FALSE
    <3>1. ~Admitted(Of(m)) /\ (runtime[Of(m)] # None => memory[runtime[Of(m)]].at = "gone")
      BY <2>1, Names
    <3> QED BY <2>2, <3>1, Names DEF CloseSound, Visited1, Admitted
  <2> QED BY <2>1, <2>2 DEF CloseSound
<1>13. CASE \E c \in Characters : MemoryCloses(c)
  <2> PICK c \in Characters : MemoryCloses(c)
    BY <1>13
  <2>1. /\ host = "memories" /\ ~Admitted(c) /\ runtime[c] # None
        /\ memory' = [memory EXCEPT ![runtime[c]].closed = TRUE]
        /\ UNCHANGED <<runtime, visit, host>>
    BY DEF MemoryCloses, requests, life
  <2>2. runtime[c] \in Memories /\ Of(runtime[c]) = c
    BY <2>1 DEF StoresTyped, StoresSound, CacheSound
  <2>3. ASSUME NEW m \in Memories PROVE CloseSound(m)'
    <3>1. /\ memory'[m].at = memory[m].at
          /\ m # runtime[c] => memory'[m] = memory[m]
      BY <2>1, <2>2 DEF StoresTyped, MemoryStates
    <3>2. CASE m = runtime[c]
      <4>1. \A o \in Ops : visit[o][c].at = "no"
        BY <2>1 DEF Admitted
      <4> QED BY <2>1, <2>2, <3>2, <4>1 DEF CloseSound, Of
    <3>3. CASE m # runtime[c]
      BY <2>1, <3>1, <3>3 DEF CloseSound, Visited1, Of
    <3> QED BY <3>2, <3>3
  <2> QED BY <2>3
<1>14. CASE Restart
  <2>1. \A m \in Memories : memory'[m] = NoMemory
    BY <1>14 DEF Restart
  <2> QED BY <2>1 DEF CloseSound, NoMemory
<1> QED BY <1>2, <1>3, <1>4, <1>5, <1>6, <1>7, <1>8, <1>9, <1>10, <1>11, <1>12, <1>13, <1>14
        DEF Next, OpStep, HostStep

-----------------------------------------------------------------------------
(* Requests, uses and the host *)

LEMMA UsesGoOn ==
    ASSUME TypeOK, \A u \in Uses : UseSound(u), StoresSound, Next
    PROVE  \A u \in Uses : UseSound(u)'
<1> USE Types
<1>1. ASSUME UNCHANGED use PROVE \A u \in Uses : UseSound(u)'
  BY <1>1 DEF UseSound
<1>2. CASE \E u \in Uses : UseStep(u)
  <2> PICK u \in Uses : UseStep(u)
    BY <1>2
  <2>1. /\ use[u].at # "idle"
        /\ \/ use' = [use EXCEPT ![u] = NoUse]
           \/ use' = [use EXCEPT ![u].at = "has"] \/ use' = [use EXCEPT ![u].at = "calls"]
           \/ \E w : use' = [use EXCEPT ![u].at = "background", ![u].writes = w]
    <3>1. CASE UseGoes(u)
      <4>1. CASE Started(use[u].of)
        BY <3>1, <4>1 DEF UseGoes
      <4>2. CASE ~Started(use[u].of)
        BY <3>1, <4>2 DEF UseGoes
      <4> QED BY <4>1, <4>2
    <3>2. CASE Query(u) \/ UseEnds(u) \/ UseFails(u)
      BY <3>2 DEF Query, UseEnds, UseFails
    <3>3. CASE Capture(u)
      BY <3>3 DEF Capture
    <3> QED BY <3>1, <3>2, <3>3 DEF UseStep
  <2>2. \A v \in Uses : use[v] \in UseStates /\ (v # u => use'[v] = use[v])
    BY <2>1 DEF UsesTyped
  <2>3. use'[u].at # "idle" => use'[u].of = use[u].of
    BY <2>1 DEF UsesTyped, UseStates, NoUse
  <2> QED BY <2>1, <2>2, <2>3 DEF UseSound
<1>3. CASE \E u \in Uses, c \in Characters : UseAsks(u, c)
  <2> PICK u \in Uses, c \in Characters : UseAsks(u, c)
    BY <1>3
  <2>1. PICK m \in Memories : Asks(u, m)
    BY AskedInstance
  <2>2. use'[u].of = m /\ \A v \in Uses : v # u => use'[v] = use[v]
    BY <2>1 DEF Asks, UsesTyped, NoUse
  <2> QED BY <2>2 DEF UseSound
<1>4. CASE Restart
  BY <1>4 DEF Restart, UseSound, NoUse
<1>5. CASE \/ SharedStep /\ UNCHANGED <<config, own>>
           \/ \E m \in Memories : MemoryStep(m)
  BY <1>1, <1>5 DEF MemoryStep, StartStep, StoreOpens, StoreFails, StoreTaken, IndexCalls, Indexed,
     IndexFails, Destroys, StoresReset, own
<1>6. CASE \/ \E o \in Ops : \/ OpStep(o)
                             \/ \E setting \in Configurations : Change(o, setting)
                             \/ \E c \in Characters : Release(o, c)
           \/ HostCloses \/ HostStep
  BY <1>1, <1>6 DEF OpStep, ResetMemory, ResetMemoryEnds, ReleaseEnds, ChangeResets, ChangeEnds,
     Change, Release, HostCloses, HostStep, MemoryCloses, HostShares, HostEnds
<1> QED BY <1>2, <1>3, <1>4, <1>5, <1>6 DEF Next

\* A reset that begins is the reset of one.
LEMMA BeginningIsOnes ==
    ASSUME SharedTypeOK, NEW o \in Resetters,
           ResetBegins(o) \/ reset' = [reset EXCEPT ![o] = NoReset]
    PROVE  \A r \in Resetters : r # o => reset'[r] = reset[r]
BY SharedTypes DEF ResetBegins

LEMMA OpStays ==
    ASSUME NEW o \in Ops, OpSound(o), op'[o] = op[o], visit'[o] = visit[o],
           reset[o].at = "idle" => reset'[o].at = "idle"
    PROVE  OpSound(o)'
BY DEF OpSound, Visited, Of

LEMMA OpsGoOn ==
    ASSUME TypeOK, SharedSound, StoresSound, \A o \in Ops : OpSound(o), Next
    PROVE  \A o \in Ops : OpSound(o)'
<1> USE Types
<1>1. ASSUME UNCHANGED <<op, visit, reset>> PROVE \A o \in Ops : OpSound(o)'
  BY <1>1, OpStays
<1>2. CASE SharedStep /\ UNCHANGED <<config, own>>
  BY <1>2, OpStays, ResetsGoOn, Names DEF own, requests
<1>3. CASE \/ \E m \in Memories : MemoryStep(m)
           \/ \E u \in Uses : UseStep(u) \/ \E c \in Characters : UseAsks(u, c)
  BY <1>1, <1>3 DEF MemoryStep, StartStep, StoreOpens, StoreFails, StoreTaken, IndexCalls, Indexed,
     IndexFails, Destroys, StoresReset, UseStep, UseAsks, UseGoes, Query, Capture, UseEnds,
     UseFails, own, shared, requests
<1>4. CASE HostCloses \/ \E c \in Characters : MemoryCloses(c)
  BY <1>1, <1>4 DEF HostCloses, MemoryCloses, shared, requests
<1>5. CASE HostShares \/ HostEnds
  <2>1. UNCHANGED <<op, visit>> /\ \A o \in Ops : reset'[o] = reset[o]
    BY <1>5, Names, BeginningIsOnes DEF HostShares, HostEnds, requests
  <2> QED BY <2>1, OpStays
<1>6. CASE Restart
  BY <1>6, Names DEF Restart, OpSound, Visited, NoVisit, NoReset
<1>7. CASE \E o \in Ops : \/ \E setting \in Configurations : Change(o, setting)
                          \/ \E c \in Characters : Release(o, c)
  <2> PICK o \in Ops, C \in SUBSET Characters :
         /\ op[o] = "idle" /\ Visits(o, C) /\ UNCHANGED reset
         /\ op' = [op EXCEPT ![o] = "changes"] \/ op' = [op EXCEPT ![o] = "releases"]
    BY <1>7 DEF Change, Release, shared
  <2>1. ASSUME NEW p \in Ops, p # o PROVE OpSound(p)'
    <3>1. op'[p] = op[p]
      BY <2>1 DEF RequestsTyped
    <3>2. visit'[p] = visit[p]
      BY <2>1 DEF Visits, RequestsTyped
    <3> QED BY <3>1, <3>2, OpStays
  <2>2. op'[o] \in {"changes", "releases"}
    BY DEF RequestsTyped
  <2>3. \A c \in Characters : visit'[o][c].at # "closes"
    BY VisitTyped
  <2>4. OpSound(o)'
    BY <2>2, <2>3 DEF OpSound
  <2> QED BY <2>1, <2>4
<1>8. CASE \E o \in Ops, c \in Characters : ResetMemory(o, c) \/ ResetMemoryEnds(o, c)
  <2> PICK o \in Ops, c \in Characters : ResetMemory(o, c) \/ ResetMemoryEnds(o, c)
    BY <1>8
  <2>1. /\ visit[o][c].at # "no" /\ UNCHANGED <<op, reset>>
        /\ \/ visit' = [visit EXCEPT ![o][c] = NoVisit]
           \/ /\ visit' = [visit EXCEPT ![o][c] = [at |-> "closes", of |-> runtime[c]]]
              /\ runtime[c] # None
    BY DEF ResetMemory, ResetMemoryEnds, shared
  <2>2. runtime[c] # None => runtime[c] \in Memories /\ Of(runtime[c]) = c
    BY DEF StoresTyped, StoresSound, CacheSound
  <2>3. ASSUME NEW p \in Ops, p # o PROVE OpSound(p)'
    <3>1. visit'[p] = visit[p]
      BY <2>1, <2>3 DEF RequestsTyped
    <3> QED BY <2>1, <3>1, OpStays
  <2>4. OpSound(o)'
    <3>1. op[o] \notin {"idle", "resets"}
      BY <2>1 DEF OpSound, Visited
    <3>2. \A d \in Characters :
             \/ visit'[o][d] = visit[o][d] \/ visit'[o][d].at = "no"
             \/ d = c /\ visit'[o][d].of = runtime[c] /\ runtime[c] # None
      BY <2>1 DEF RequestsTyped, NoVisit
    <3> QED BY <2>1, <2>2, <3>1, <3>2 DEF OpSound, Of
  <2> QED BY <2>3, <2>4
<1>9. CASE \E o \in Ops : ReleaseEnds(o) \/ ChangeResets(o) \/ ChangeEnds(o)
  <2> PICK o \in Ops : ReleaseEnds(o) \/ ChangeResets(o) \/ ChangeEnds(o)
    BY <1>9
  <2>1. UNCHANGED visit /\ \A p \in Ops : p # o => op'[p] = op[p] /\ reset'[p] = reset[p]
    BY Names, BeginningIsOnes DEF ReleaseEnds, ChangeResets, ChangeEnds, shared, RequestsTyped
  <2>2. Visited(o)
    BY DEF ReleaseEnds, ChangeResets, ChangeEnds, OpSound
  <2>3. op'[o] = "resets" \/ reset'[o].at = "idle"
    <3>1. CASE ReleaseEnds(o)
      BY <3>1 DEF ReleaseEnds, OpSound, shared
    <3>2. CASE ChangeResets(o)
      BY <3>2 DEF ChangeResets, RequestsTyped
    <3>3. CASE ChangeEnds(o)
      BY <3>3, SharedTypes, Names DEF ChangeEnds, NoReset
    <3> QED BY <3>1, <3>2, <3>3
  <2>4. OpSound(o)'
    BY <2>1, <2>2, <2>3 DEF OpSound, Visited, Of
  <2>5. \A p \in Ops : p # o => OpSound(p)'
    BY <2>1, OpStays
  <2> QED BY <2>4, <2>5
<1> QED BY <1>2, <1>3, <1>4, <1>5, <1>6, <1>7, <1>8, <1>9 DEF Next, OpStep, HostStep

LEMMA HostGoesOn ==
    ASSUME TypeOK, SharedSound, StoresSound, \A m \in Memories : CloseSound(m), HostSound, Next
    PROVE  HostSound'
<1> USE Types
<1>1. ASSUME UNCHANGED <<disposed, service, host>>, reset'[Host] = reset[Host],
             \A m \in Memories : memory[m].at \in {"none", "gone"} => memory'[m].at = memory[m].at
      PROVE  HostSound'
  BY <1>1 DEF HostSound
<1>2. CASE SharedStep /\ UNCHANGED <<config, own>>
  <2>1. /\ disposed' = disposed
        /\ disposed /\ service = None => service' = None
        /\ reset[Host].at = "idle" => reset'[Host].at = "idle"
        /\ reset'[Host].at = "done" => reset[Host].at = "done" \/ service' = None
    BY <1>2, ResetsGoOn, Names
  <2>2. UNCHANGED <<memory, host>>
    BY <1>2 DEF own, stores, life
  <2> QED BY <2>1, <2>2 DEF HostSound
<1>3. CASE \E m \in Memories : MemoryStep(m)
  <2> PICK m \in Memories : MemoryStep(m)
    BY <1>3
  <2>1. UNCHANGED <<disposed, service, host, reset>>
    BY DEF MemoryStep, StartStep, StoreOpens, StoreFails, StoreTaken, IndexCalls, Indexed,
       IndexFails, Destroys, StoresReset, own, life, shared, provision
  <2> QED BY <1>1, <2>1, GoneStays
<1>4. CASE \E u \in Uses, c \in Characters : UseAsks(u, c)
  <2>1. host = "runs" /\ UNCHANGED <<disposed, service, host, reset>>
    BY <1>4 DEF UseAsks, life, provision
  <2> QED BY <2>1 DEF HostSound
<1>5. CASE \E u \in Uses : UseStep(u)
  BY <1>1, <1>5 DEF UseStep, UseGoes, Query, Capture, UseEnds, UseFails, stores, life, shared,
     provision
<1>6. CASE \E o \in Ops : \/ \E setting \in Configurations : Change(o, setting)
                          \/ \E c \in Characters : Release(o, c)
                          \/ ReleaseEnds(o)
  BY <1>1, <1>6 DEF Change, Release, ReleaseEnds, stores, life, shared, provision
<1>7. CASE \E o \in Ops : ChangeResets(o) \/ ChangeEnds(o)
  <2>1. UNCHANGED <<disposed, service, host, memory>> /\ reset'[Host] = reset[Host]
    BY <1>7, Names, BeginningIsOnes DEF ChangeResets, ChangeEnds, stores, life, provision
  <2> QED BY <1>1, <2>1
<1>8. CASE \E o \in Ops, c \in Characters : ResetMemory(o, c) \/ ResetMemoryEnds(o, c)
  <2>1. /\ UNCHANGED <<disposed, service, host, reset>>
        /\ memory' = memory \/ \E m \in Memories : memory' = [memory EXCEPT ![m].closed = TRUE]
    BY <1>8 DEF ResetMemory, ResetMemoryEnds, shared, provision, life, StoresTyped
  <2>2. \A m \in Memories : memory'[m].at = memory[m].at
    BY <2>1 DEF StoresTyped, MemoryStates
  <2> QED BY <1>1, <2>1, <2>2
<1>9. CASE \E c \in Characters : MemoryCloses(c)
  <2>1. /\ UNCHANGED <<disposed, service, host, reset>>
        /\ \E m \in Memories : memory' = [memory EXCEPT ![m].closed = TRUE]
    BY <1>9 DEF MemoryCloses, shared, provision, life, StoresTyped
  <2>2. \A m \in Memories : memory'[m].at = memory[m].at
    BY <2>1 DEF StoresTyped, MemoryStates
  <2> QED BY <1>1, <2>1, <2>2
<1>10. CASE HostCloses
  BY <1>10 DEF HostCloses, HostSound, shared, provision
<1>11. CASE HostShares
  <2>1. /\ \A c \in Characters : /\ ~Admitted(c)
                                 /\ runtime[c] # None => memory[runtime[c]].at = "gone"
        /\ host' = "shared" /\ disposed' = TRUE /\ UNCHANGED memory
        /\ reset' = [reset EXCEPT ![Host] = reset'[Host]] /\ reset'[Host].at # "done"
    BY <1>11, Names, SharedTypes DEF HostShares, ResetBegins, stores
  <2>2. ASSUME NEW m \in Memories PROVE memory[m].at \in {"none", "gone"}
    <3>1. ~Admitted(Of(m)) /\ (runtime[Of(m)] # None => memory[runtime[Of(m)]].at = "gone")
      BY <2>1, Names
    <3>2. InstanceSound(m) /\ CloseSound(m)
      BY DEF StoresSound
    <3> QED BY <3>1, <3>2, Names DEF CloseSound, InstanceSound, Visited1, Admitted
  <2> QED BY <2>1, <2>2 DEF HostSound
<1>12. CASE HostEnds
  <2>1. /\ host = "shared" /\ reset'[Host].at = "idle"
        /\ host' = IF reset[Host].at = "done" THEN "closed" ELSE "failed"
        /\ UNCHANGED <<disposed, service, memory>>
    BY <1>12, Names, SharedTypes DEF HostEnds, NoReset, provision, stores
  <2> QED BY <2>1 DEF HostSound
<1>13. CASE Restart
  BY <1>13, Names DEF Restart, HostSound, NoReset
<1> QED BY <1>2, <1>3, <1>4, <1>5, <1>6, <1>7, <1>8, <1>9, <1>10, <1>11, <1>12, <1>13
        DEF Next, OpStep, HostStep

-----------------------------------------------------------------------------
(* The invariant *)

(* Who owns each store, what each index is of, and who closes each instance, hold  *)
(* in every reachable state (memory/runtime.ts, storage/pipeline-factory.ts).      *)
THEOREM MemorySoundness == Spec => []IInv
<1>1. Init => IInv
  <2> SUFFICES ASSUME Init PROVE IInv
    OBVIOUS
  <2>1. SharedTypeOK /\ SharedSound
    BY StartSound, SharedAssumption DEF Init
  <2>2. StoresTyped /\ UsesTyped
    BY WritesTyped DEF Init, StoresTyped, UsesTyped, IndexStates
  <2>3. RequestsTyped
    <3>1. visit \in [Ops -> [Characters -> VisitStates]]
      BY WritesTyped DEF Init
    <3>2. 0 \in 0..MaxChanges /\ 0 \in 0..MaxRestarts
      BY MemoryAssumption
    <3> QED BY <3>1, <3>2 DEF Init, RequestsTyped
  <2>4. StoresSound
    BY EmptyIsSound DEF Init, Empty
  <2>5. (\A m \in Memories : CloseSound(m)) /\ (\A u \in Uses : UseSound(u))
    BY DEF Init, CloseSound, UseSound, NoMemory, NoUse
  <2>6. (\A o \in Ops : OpSound(o)) /\ HostSound
    BY Names DEF Init, SharedInit, OpSound, HostSound, Visited, NoVisit, NoReset
  <2> QED BY <2>1, <2>2, <2>3, <2>4, <2>5, <2>6, Types DEF IInv, MemorySound
<1>2. IInv /\ [Next]_vars => IInv'
  <2>1. CASE Next
    <3> SUFFICES ASSUME IInv PROVE IInv'
      BY <2>1
    <3> USE <2>1 DEF IInv, MemorySound
    <3>1. TypeOK' /\ SharedSound'
      BY ProviderStays, StepTyped
    <3>2. StoresSound'
      BY StoresGoOn, Types
    <3>3. \A m \in Memories : CloseSound(m)'
      BY ClosesGoOn
    <3>4. (\A o \in Ops : OpSound(o)') /\ (\A u \in Uses : UseSound(u)')
      BY OpsGoOn, UsesGoOn
    <3>5. HostSound'
      BY HostGoesOn
    <3> QED BY <3>1, <3>2, <3>3, <3>4, <3>5
  <2>2. CASE UNCHANGED vars
    <3> USE <2>2 DEF vars, own, stores, requests, life
    <3>1. TypeOK => TypeOK'
      BY DEF TypeOK, SharedTypeOK, shared, provision
    <3>2. SharedSound => SharedSound'
      BY DEF SharedSound, OpeningSound, ProviderSound, GetSound, Waits, Joins, Opens, CleansUp,
         Got, Calling, ResetSound, Woken, shared, provision
    <3>3. StoresSound => StoresSound'
      <4>1. \A m \in Memories : StoreSound(m) => StoreSound(m)'
        BY DEF StoreSound, Fits, Of, shared, provision
      <4>2. \A m \in Memories : InstanceSound(m) => InstanceSound(m)'
        BY DEF InstanceSound, Of, NoMemory
      <4>3. \A m \in Memories : IndexSound(m) => IndexSound(m)'
        BY DEF IndexSound, HasStore, Matches, Alone, Fits, StoreOf, Of, shared, provision
      <4>4. \A c \in Characters : CacheSound(c) => CacheSound(c)'
        BY DEF CacheSound, Of
      <4> QED BY <4>1, <4>2, <4>3, <4>4 DEF StoresSound
    <3>4. \A m \in Memories : CloseSound(m) => CloseSound(m)'
      BY DEF CloseSound, Visited1, Of
    <3>5. /\ \A o \in Ops : OpSound(o) => OpSound(o)'
          /\ \A u \in Uses : UseSound(u) => UseSound(u)'
          /\ HostSound => HostSound'
      BY DEF OpSound, Visited, UseSound, HostSound, Of, shared, provision
    <3> QED BY <3>1, <3>2, <3>3, <3>4, <3>5 DEF IInv, MemorySound
  <2> QED BY <2>1, <2>2
<1> QED BY <1>1, <1>2, PTL DEF Spec

(* Every variable of the memories and of the provider under them holds a value the *)
(* program can give it.                                                            *)
THEOREM MemoryTyped == Spec => []TypeOK
<1>1. IInv => TypeOK
  BY DEF IInv
<1> QED BY <1>1, MemorySoundness, PTL

(* A reset closes the provider only after the calls that run on it have ended,     *)
(* whatever the memories do meanwhile (shared-embedding-runtime.ts, reset).        *)
THEOREM CallsAreAwaited == Spec => []CallsEndFirst
<1>1. IInv => CallsEndFirst
  BY SharedImplies, Types DEF IInv
<1> QED BY <1>1, MemorySoundness, PTL

(* There are never two providers that are not closed, through openings that fail,  *)
(* resets that fail and restarts (shared-embedding-runtime.ts, get and reset).     *)
THEOREM ProviderIsOne == Spec => []OneProvider
<1>1. IInv => OneProvider
  BY SharedImplies, Types DEF IInv
<1> QED BY <1>1, MemorySoundness, PTL

(* A directory is never open through two stores, however releases, resets and      *)
(* starts interleave (pipeline-factory.ts, resetStores).                           *)
THEOREM HandleIsOne == Spec => []OneHandle
<1>1. IInv => OneHandle
  BY DEF IInv, MemorySound, StoresSound, StoreSound, OneHandle
<1> QED BY <1>1, MemorySoundness, PTL

(* A memory that is started has an index of its own provider's configuration with  *)
(* nothing missing that was recorded before (tdai-core.ts, initStores).            *)
THEOREM StartIndexes == Spec => []StartedIsIndexed
<1>1. IInv => StartedIsIndexed
  <2> SUFFICES ASSUME IInv, NEW m \in Memories, Started(m), Provider(m) # None
               PROVE  /\ index[Of(m)].config = providers[Provider(m)].config
                      /\ None \notin index[Of(m)].missing
    BY DEF StartedIsIndexed
  <2>1. memory[m].at = "ready" /\ InstanceSound(m) /\ HasStore(m) /\ Matches(m)
    BY DEF Started, IInv, MemorySound, StoresSound, IndexSound
  <2>2. /\ memory[m].store # None /\ Provider(m) = StoreOf(m).provider
        /\ StoreOf(m).state \in {"open", "closed"}
    BY <2>1 DEF HasStore, Provider
  <2>3. Fits(memory[m].store) /\ None \notin index[Of(m)].missing
    BY <2>1, <2>2 DEF Matches
  <2>4. Of(memory[m].store) = Of(m)
    BY <2>1, <2>2 DEF InstanceSound
  <2> QED BY <2>2, <2>3, <2>4 DEF Fits, StoreOf
<1> QED BY <1>1, MemorySoundness, PTL

(* A host that has closed without a failure holds no store, no provider and no     *)
(* call (composition.ts, close; memory/runtime.ts, close).                         *)
THEOREM ShutdownReleases == Spec => []AllReleased
<1>1. IInv => AllReleased
  <2> SUFFICES ASSUME IInv, host = "closed" PROVE AllReleased
    BY DEF AllReleased
  <2>1. service = None /\ \A m \in Memories : memory[m].at \in {"none", "gone"}
    BY DEF IInv, MemorySound, HostSound
  <2>2. \A m \in Memories : store[m].state \notin {"opening", "open"}
    BY <2>1 DEF IInv, MemorySound, StoresSound, StoreSound
  <2>3. ASSUME NEW p \in Providers PROVE providers[p].life \in {"none", "closed"}
    <3>1. ProviderSound(p) /\ providers[p] \in ProviderStates
      BY Types, SharedTypes DEF IInv, SharedSound
    <3> QED BY <2>1, <3>1, NamesDiffer DEF ProviderSound, ProviderStates, Live
  <2>4. ASSUME NEW g \in Callers PROVE calls[g] = None
    <3>1. Calling(g) /\ calls[g] \in Providers \cup {None}
      BY Types, SharedTypes DEF IInv, SharedSound, GetSound
    <3> QED BY <2>3, <3>1 DEF Calling
  <2> QED BY <2>2, <2>3, <2>4 DEF AllReleased
<1> QED BY <1>1, MemorySoundness, PTL
=============================================================================
