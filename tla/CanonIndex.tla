------------------------------ MODULE CanonIndex ------------------------------
(* The vector index of a character's Canon (canon/service.ts, storage/database.ts) *)
(* over the shared embedding provider: passes that embed the chunks one by one,    *)
(* one pass after the other, retrievals that search the index, changes of the      *)
(* settings that reset the provider (runtime.ts), and the close of the service.    *)
EXTENDS SharedEmbedding, Sequences

CONSTANTS MaxChunks,    \* bound: pieces of Canon sources
          Retrievals,
          Indexer,      \* who runs the passes
          Ops,          \* changes of the settings
          MaxChanges    \* bound: changes of the settings

ASSUME CanonAssumption == /\ Callers = Retrievals \cup {Indexer} /\ Indexer \notin Retrievals
                          /\ Resetters = Ops /\ MaxChunks \in Nat
                          /\ MaxChanges \in Nat /\ MaxProviders > MaxChanges + MaxFailures

VARIABLES chunk,      \* [Chunks -> "new", "present" or "removed"]
          vector,     \* [Chunks -> of which configuration its vector is, or None]
          meta,       \* of which configuration the index is, or None
          queue,      \* who asked for the passes to come, the current one first
          pass,       \* the current pass
          retrieval,  \* [Retrievals -> a retrieval under way]
          op,         \* [Ops -> a change under way]
          changes,
          life        \* "open", "closing" or "closed"

Chunks == 1..MaxChunks
index == <<chunk, vector, meta>>
own == <<index, queue, pass, retrieval, op, changes, life>>
vars == <<config, shared, own>>

Vectors == Configurations \cup {None}
NoPass == [at |-> "idle", provider |-> None, rows |-> [k \in {} |-> None], row |-> None]
NoRetrieval == [at |-> "idle", provider |-> None, wanted |-> {}, indexed |-> None,
                found |-> {}, searched |-> {}]

Init == /\ SharedInit /\ config \in Configurations /\ failures = 0
        /\ chunk = [k \in Chunks |-> "new"]
        /\ vector = [k \in Chunks |-> None] /\ meta = None
        /\ queue = <<>> /\ pass = NoPass
        /\ retrieval = [r \in Retrievals |-> NoRetrieval]
        /\ op = [o \in Ops |-> "idle"] /\ changes = 0 /\ life = "open"

Present == {k \in Chunks : chunk[k] = "present"}
ConfigOf(p) == IF p = None THEN None ELSE providers[p].config
IsOpen == life = "open"

(* ensureCanonVectorIndex(): an index of another configuration is emptied. *)
Ensured(conf) == /\ meta' = conf
                 /\ vector' = IF meta = conf THEN vector ELSE [k \in Chunks |-> None]

-----------------------------------------------------------------------------
(* indexPending() and indexChunks() *)

(* The pass ends, and the retrieval that asked for it goes on or throws. *)
PassEnds(conf, fine) ==
    /\ pass' = NoPass /\ queue' = Tail(queue)
    /\ retrieval' = [r \in Retrievals |->
                       IF r # Head(queue) THEN retrieval[r]
                       ELSE IF fine THEN [retrieval[r] EXCEPT !.at = "gets", !.indexed = conf]
                       ELSE NoRetrieval]
    /\ get' = [g \in Callers |-> IF g = Indexer THEN NoGet
                                 ELSE IF fine /\ g = Head(queue) THEN Asked ELSE get[g]]

PassFails == PassEnds(None, FALSE)

(* The pass awaits get(). *)
PassGets(next) == /\ pass' = next
                  /\ get' = [get EXCEPT ![Indexer] = Asked]
                  /\ UNCHANGED <<queue, retrieval>>

PassStarts ==
    /\ pass.at = "idle" /\ queue # <<>>
    /\ IF IsOpen THEN PassGets([NoPass EXCEPT !.at = "gets"]) ELSE PassFails
    /\ UNCHANGED <<config, provision, calls, reset, failures, index, op, changes, life>>

(* The next of the chunks that are left: one without a vector is embedded. *)
TakesRow(p, rows) ==
    IF DOMAIN rows = {} THEN PassEnds(ConfigOf(p), TRUE) /\ UNCHANGED calls
    ELSE \E k \in DOMAIN rows :
           LET next == [at |-> "checks", provider |-> p, rows |-> rows, row |-> k] IN
             IF rows[k] # None THEN PassGets(next) /\ UNCHANGED calls
             ELSE IF Usable(p)
             THEN /\ CallBegins(Indexer, p)
                  /\ pass' = [next EXCEPT !.at = "embeds"]
                  /\ get' = [get EXCEPT ![Indexer] = NoGet]
                  /\ UNCHANGED <<queue, retrieval>>
             ELSE PassFails /\ UNCHANGED calls

Gets(g, phase) == get[g].phase = phase

(* The chunks are read with the vectors they have. *)
PassReads ==
    /\ pass.at = "gets" /\ Gets(Indexer, "got")
    /\ LET p == get[Indexer].provider IN
         IF ~IsOpen \/ p = None
         THEN PassEnds(None, IsOpen) /\ UNCHANGED <<calls, vector, meta>>
         ELSE /\ Ensured(ConfigOf(p))
              /\ TakesRow(p, [k \in Present |-> vector'[k]])
    /\ UNCHANGED <<config, provision, reset, failures, chunk, op, changes, life>>

PassEmbeds ==
    /\ pass.at = "embeds" /\ CallEnds(Indexer)
    /\ IF IsOpen THEN PassGets([pass EXCEPT !.at = "checks"]) ELSE PassFails
    /\ UNCHANGED <<config, provision, reset, failures, index, op, changes, life>>

(* Another provider in the meantime fails the pass; a chunk removed is passed over. *)
Writes(k) == /\ vector' = IF k \notin Present THEN vector
                          ELSE [vector EXCEPT ![k] = IF pass.rows[k] = None
                                                     THEN ConfigOf(pass.provider)
                                                     ELSE pass.rows[k]]
             /\ TakesRow(pass.provider, [j \in DOMAIN pass.rows \ {k} |-> pass.rows[j]])

SameProvider(g, p) == ConfigOf(get[g].provider) = ConfigOf(p)

PassWrites ==
    /\ pass.at = "checks" /\ Gets(Indexer, "got")
    /\ IF IsOpen /\ SameProvider(Indexer, pass.provider) THEN Writes(pass.row)
       ELSE PassFails /\ UNCHANGED <<calls, vector>>
    /\ UNCHANGED <<config, provision, reset, failures, chunk, meta, op, changes, life>>

PassThrows ==
    /\ \/ Gets(Indexer, "failed") /\ UNCHANGED <<calls, failures>>
       \/ pass.at = "embeds" /\ CallEnds(Indexer) /\ Fails
    /\ PassFails
    /\ UNCHANGED <<config, provision, reset, index, op, changes, life>>

PassStep == PassStarts \/ PassReads \/ PassEmbeds \/ PassWrites \/ PassThrows

-----------------------------------------------------------------------------
(* retrieveHybrid(): a pass first, then the query is embedded and searched for *)

(* Seeded fault: a retrieval joins the pass that is under way. *)
RetrieveJoins(r) ==
    /\ IsOpen /\ retrieval[r].at = "idle"
    /\ queue' = IF queue = <<>> THEN <<r>> ELSE <<r>> \o Tail(queue)
    /\ retrieval' = [retrieval EXCEPT ![r] = [NoRetrieval EXCEPT !.at = "waits",
                                                                 !.wanted = Present]]
    /\ UNCHANGED <<config, shared, index, pass, op, changes, life>>

Retrieve(r) ==
    /\ IsOpen /\ retrieval[r].at = "idle"
    /\ queue' = Append(queue, r)
    /\ retrieval' = [retrieval EXCEPT ![r] = [NoRetrieval EXCEPT !.at = "waits",
                                                                 !.wanted = Present]]
    /\ UNCHANGED <<config, shared, index, pass, op, changes, life>>

Leaves(r) == retrieval' = [retrieval EXCEPT ![r] = NoRetrieval]

(* Seeded fault: a service that was closed meanwhile goes on. *)
RetrievalEmbedsOn(r) ==
    /\ retrieval[r].at = "gets" /\ Gets(r, "got") /\ get' = [get EXCEPT ![r] = NoGet]
    /\ LET p == get[r].provider IN
         IF p = None
         THEN Leaves(r) /\ UNCHANGED <<calls, vector, meta>>
         ELSE /\ Ensured(ConfigOf(p))
              /\ IF Usable(p)
                 THEN /\ CallBegins(r, p)
                      /\ retrieval' = [retrieval EXCEPT ![r].at = "embeds", ![r].provider = p]
                 ELSE Leaves(r) /\ UNCHANGED calls
    /\ UNCHANGED <<config, provision, reset, failures, chunk, queue, pass, op, changes, life>>

(* Without a provider the search is by words alone. *)
RetrievalEmbeds(r) ==
    /\ retrieval[r].at = "gets" /\ Gets(r, "got") /\ get' = [get EXCEPT ![r] = NoGet]
    /\ LET p == get[r].provider IN
         IF ~IsOpen \/ p = None
         THEN Leaves(r) /\ UNCHANGED <<calls, vector, meta>>
         ELSE /\ Ensured(ConfigOf(p))
              /\ IF Usable(p)
                 THEN /\ CallBegins(r, p)
                      /\ retrieval' = [retrieval EXCEPT ![r].at = "embeds", ![r].provider = p]
                 ELSE Leaves(r) /\ UNCHANGED calls
    /\ UNCHANGED <<config, provision, reset, failures, chunk, queue, pass, op, changes, life>>

RetrievalChecks(r) ==
    /\ retrieval[r].at = "embeds" /\ CallEnds(r)
    /\ IF IsOpen THEN /\ retrieval' = [retrieval EXCEPT ![r].at = "checks"]
                      /\ get' = [get EXCEPT ![r] = Asked]
       ELSE Leaves(r) /\ UNCHANGED get
    /\ UNCHANGED <<config, provision, reset, failures, index, queue, pass, op, changes, life>>

Found(r) == [retrieval[r] EXCEPT !.at = "found",
               !.found = {k \in Present : vector'[k] # None},
               !.searched = {vector'[k] : k \in Chunks} \ {None}]

(* Seeded fault: the provider is not asked for again. *)
RetrievalSearchesOn(r) ==
    /\ retrieval[r].at = "checks" /\ Gets(r, "got") /\ get' = [get EXCEPT ![r] = NoGet]
    /\ UNCHANGED <<vector, meta>>
    /\ IF IsOpen THEN retrieval' = [retrieval EXCEPT ![r] = Found(r)] ELSE Leaves(r)
    /\ UNCHANGED <<config, provision, calls, reset, failures, chunk, queue, pass, op, changes,
                   life>>

RetrievalSearches(r) ==
    /\ retrieval[r].at = "checks" /\ Gets(r, "got") /\ get' = [get EXCEPT ![r] = NoGet]
    /\ IF IsOpen /\ ConfigOf(get[r].provider) = ConfigOf(retrieval[r].provider)
       THEN /\ Ensured(ConfigOf(get[r].provider))
            /\ retrieval' = [retrieval EXCEPT ![r] = Found(r)]
       ELSE Leaves(r) /\ UNCHANGED <<vector, meta>>
    /\ UNCHANGED <<config, provision, calls, reset, failures, chunk, queue, pass, op, changes,
                   life>>

RetrievalThrows(r) ==
    /\ \/ Gets(r, "failed") /\ UNCHANGED <<calls, failures>>
       \/ retrieval[r].at = "embeds" /\ CallEnds(r) /\ Fails
    /\ get' = [get EXCEPT ![r] = NoGet]
    /\ Leaves(r)
    /\ UNCHANGED <<config, provision, reset, index, queue, pass, op, changes, life>>

RetrievalReturns(r) == /\ retrieval[r].at = "found" /\ Leaves(r)
                       /\ UNCHANGED <<config, shared, index, queue, pass, op, changes, life>>

RetrievalStep(r) == \/ RetrievalEmbeds(r) \/ RetrievalChecks(r)
                    \/ RetrievalSearches(r) \/ RetrievalThrows(r) \/ RetrievalReturns(r)

-----------------------------------------------------------------------------
(* Sources come and go; a new one is indexed in the background. Identifiers are    *)
(* not used again: the model numbers the chunks as they are added.                 *)

AddSource(k) == /\ IsOpen /\ chunk[k] = "new" /\ \A j \in 1..(k - 1) : chunk[j] # "new"
                /\ chunk' = [chunk EXCEPT ![k] = "present"]
                /\ queue' = Append(queue, None)
                /\ UNCHANGED <<config, shared, vector, meta, pass, retrieval, op, changes, life>>

RemoveSource(k) == /\ IsOpen /\ chunk[k] = "present"
                   /\ chunk' = [chunk EXCEPT ![k] = "removed"]
                   /\ UNCHANGED <<config, shared, vector, meta, queue, pass, retrieval, op,
                                  changes, life>>

(* The settings are saved, the provider is reset, and the Canon indexed again. *)
Change(o, setting) ==
    /\ op[o] = "idle" /\ changes < MaxChanges /\ changes' = changes + 1
    /\ config' = setting
    /\ op' = [op EXCEPT ![o] = "saved"]
    /\ UNCHANGED <<shared, index, queue, pass, retrieval, life>>

ChangeResets(o) == /\ op[o] = "saved"
                   /\ op' = [op EXCEPT ![o] = "resets"]
                   /\ ResetBegins(o)
                   /\ UNCHANGED <<config, providers, service, opening, disposed, get, calls,
                                  failures, index, queue, pass, retrieval, changes, life>>

ChangeEnds(o) == /\ op[o] = "resets" /\ reset[o].at \in {"done", "failed"}
                 /\ op' = [op EXCEPT ![o] = "idle"]
                 /\ reset' = [reset EXCEPT ![o] = NoReset]
                 /\ queue' = IF reset[o].at = "done" /\ IsOpen THEN Append(queue, None) ELSE queue
                 /\ UNCHANGED <<config, provision, get, calls, failures, index, pass, retrieval,
                                changes, life>>

(* close() awaits the passes. *)
Close == /\ IsOpen /\ life' = "closing"
         /\ UNCHANGED <<config, shared, index, queue, pass, retrieval, op, changes>>

CloseEnds == /\ life = "closing" /\ queue = <<>>
             /\ life' = "closed"
             /\ UNCHANGED <<config, shared, index, queue, pass, retrieval, op, changes>>

OpStep(o) == ChangeResets(o) \/ ChangeEnds(o)

Next == \/ SharedStep /\ UNCHANGED <<config, own>>
        \/ PassStep
        \/ \E r \in Retrievals : Retrieve(r) \/ RetrievalStep(r)
        \/ \E k \in Chunks : AddSource(k) \/ RemoveSource(k)
        \/ \E o \in Ops : OpStep(o) \/ \E setting \in Configurations : Change(o, setting)
        \/ Close \/ CloseEnds

Spec == Init /\ [][Next]_vars

FairSpec == /\ Spec
            /\ WF_vars(\E p \in Providers : ProviderCloses(p) /\ UNCHANGED <<config, own>>)
            /\ \A g \in Callers : WF_vars(GetStep(g) /\ UNCHANGED <<config, own>>)
            /\ \A o \in Resetters : WF_vars(ResetStep(o) /\ UNCHANGED <<config, own>>)
            /\ WF_vars(PassStep) /\ WF_vars(CloseEnds)
            /\ \A r \in Retrievals : WF_vars(RetrievalStep(r))
            /\ \A o \in Ops : WF_vars(OpStep(o))

-----------------------------------------------------------------------------
Users == Retrievals \cup {None}

(* Every variable holds a value the program can give it. *)
TypeOK ==
    /\ SharedTypeOK
    /\ chunk \in [Chunks -> {"new", "present", "removed"}]
    /\ vector \in [Chunks -> Vectors] /\ meta \in Vectors
    /\ queue \in Seq(Users)
    /\ pass.at \in {"idle", "gets", "embeds", "checks"}
    /\ pass.provider \in Providers \cup {None} /\ pass.row \in DOMAIN pass.rows \cup {None}
    /\ DOMAIN pass.rows \subseteq Chunks /\ \A k \in DOMAIN pass.rows : pass.rows[k] \in Vectors
    /\ retrieval \in [Retrievals ->
         [at : {"idle", "waits", "gets", "embeds", "checks", "found"},
          provider : Providers \cup {None}, wanted : SUBSET Chunks, indexed : Vectors,
          found : SUBSET Chunks, searched : SUBSET Configurations]]
    /\ op \in [Ops -> {"idle", "saved", "resets"}] /\ changes \in 0..MaxChanges
    /\ life \in {"open", "closing", "closed"}

(* All the vectors of the index are of the configuration it says it is of, and a    *)
(* query is compared with vectors of its own provider only, however passes,         *)
(* retrievals and changes of the settings interleave: each looks at the             *)
(* configuration again after each await (canon/service.ts, indexChunks and          *)
(* retrieveHybrid).                                                                 *)
OneVectorSpace ==
    /\ \A k \in Chunks : vector[k] \in {None, meta}
    /\ \A r \in Retrievals : retrieval[r].at = "found" =>
          retrieval[r].searched \subseteq {ConfigOf(retrieval[r].provider)}

(* A retrieval finds every chunk that was there when it began and still is, if the *)
(* provider is still the one its pass indexed with (canon/service.ts, "a search    *)
(* includes writes admitted while an earlier indexing pass was awaiting").         *)
SearchFindsAll == \A r \in Retrievals :
    retrieval[r].at = "found" /\ retrieval[r].indexed = ConfigOf(retrieval[r].provider)
       => retrieval[r].wanted \cap Present \subseteq retrieval[r].found

(* Once the service is closed its database, which is closed next, is left alone    *)
(* (canon/service.ts, close).                                                      *)
ClosedIsQuiet == [][life = "closed" => UNCHANGED <<vector, meta>>]_vars

(* Every retrieval, every change and the close of the service return.              *)
AllReturn == /\ \A r \in Retrievals : retrieval[r].at # "idle" ~> retrieval[r].at = "idle"
             /\ \A o \in Ops : op[o] # "idle" ~> op[o] = "idle"
             /\ life = "closing" ~> life = "closed"
==============================================================================
