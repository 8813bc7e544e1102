--------------------------- MODULE SharedEmbedding ---------------------------
(* SharedEmbeddingRuntime (memory/shared-embedding-runtime.ts): the one embedding *)
(* provider of the installation. get() opens it or joins the opening, reset()     *)
(* takes it out of use and closes it, borrowers call it.                          *)
(*                                                                                *)
(* A step is what runs between two awaits. Promises that settle wake those who    *)
(* await them in the order in which they began to wait: ResetPasses says so.      *)
EXTENDS Naturals, FiniteSets

CONSTANTS None,
          Off,             \* the setting without embeddings
          Configurations,  \* what the settings may say
          Callers,         \* who gets and calls the provider
          Resetters,       \* who resets it
          MaxProviders,    \* bound: providers created
          MaxFailures      \* bound: operations that fail

ASSUME SharedAssumption ==
    /\ None \notin Callers \cup Resetters \cup Configurations \cup {Off} \cup Nat
    /\ (Configurations \cup {Off}) \cap Nat = {}
    /\ MaxProviders \in Nat /\ MaxFailures \in Nat

VARIABLES config,     \* what the settings say now
          providers,  \* [Providers -> configuration, warm-up, life]
          service,    \* the provider in use, or None
          opening,    \* the promise of the opening: of a provider, of Off, or None
          resetting,  \* whose reset is under way, or None
          disposed,   \* close() was called
          get,        \* [Callers -> a get() under way]
          calls,      \* [Callers -> the provider a call of the caller runs on, or None]
          reset,      \* [Resetters -> a reset() under way]
          failures

provision == <<providers, service, opening, resetting, disposed>>
shared == <<provision, get, calls, reset, failures>>

Providers == 1..MaxProviders
NoProvider == [config |-> None, warm |-> "none", life |-> "none"]
NoGet == [phase |-> "idle", awaits |-> None, own |-> None, provider |-> None]
NoReset == [at |-> "idle", awaits |-> None]

SharedInit == /\ providers = [p \in Providers |-> NoProvider]
              /\ service = None /\ opening = None /\ resetting = None /\ disposed = FALSE
              /\ get = [g \in Callers |-> NoGet] /\ calls = [g \in Callers |-> None]
              /\ reset = [o \in Resetters |-> NoReset]

Fails == failures < MaxFailures /\ failures' = failures + 1

(* ready() of a borrowed provider *)
Usable(p) == /\ ~disposed /\ resetting = None /\ service = p
             /\ p # None /\ providers[p].life = "open" /\ providers[p].warm = "ready"

Settled(promise) == promise \in Providers => providers[promise].warm # "pending"

-----------------------------------------------------------------------------
(* get() *)

Asked == [NoGet EXCEPT !.phase = "waits", !.awaits = resetting]
Returns(g, p) == get' = [get EXCEPT ![g] = [NoGet EXCEPT !.phase = "got", !.provider = p]]
Throws(g) == get' = [get EXCEPT ![g] = [NoGet EXCEPT !.phase = "failed"]]

(* What get() awaited first is over: ResetClears and ResetFails see to it. *)
Woken(g) == get[g].phase = "waits" /\ get[g].awaits = None

GetRefused(g) == /\ Woken(g) /\ disposed
                 /\ Throws(g)
                 /\ UNCHANGED <<provision, calls, reset, failures>>

GetJoins(g) == /\ Woken(g) /\ ~disposed /\ opening # None
               /\ get' = [get EXCEPT ![g].phase = "joins", ![g].own = opening]
               /\ UNCHANGED <<provision, calls, reset, failures>>

GetOff(g) == /\ Woken(g) /\ ~disposed /\ opening = None /\ config = Off
             /\ opening' = Off
             /\ Returns(g, None)
             /\ UNCHANGED <<providers, service, resetting, disposed, calls, reset, failures>>

(* Seeded fault: the opening is not shared. *)
GetOpensAlone(g) ==
    /\ Woken(g) /\ ~disposed /\ config # Off
    /\ \E p \in Providers :
          /\ providers[p].life = "none" /\ \A q \in Providers : q < p => providers[q].life # "none"
          /\ providers' = [providers EXCEPT ![p] = [config |-> config, warm |-> "pending",
                                                    life |-> "open"]]
          /\ service' = p /\ opening' = p
          /\ get' = [get EXCEPT ![g].phase = "opens", ![g].own = p]
    /\ UNCHANGED <<resetting, disposed, calls, reset, failures>>

GetOpens(g) ==
    /\ Woken(g) /\ ~disposed /\ opening = None /\ config # Off
    /\ \E p \in Providers :
          /\ providers[p].life = "none" /\ \A q \in Providers : q < p => providers[q].life # "none"
          /\ providers' = [providers EXCEPT ![p] = [config |-> config, warm |-> "pending",
                                                    life |-> "open"]]
          /\ service' = p /\ opening' = p
          /\ get' = [get EXCEPT ![g].phase = "opens", ![g].own = p]
    /\ UNCHANGED <<resetting, disposed, calls, reset, failures>>

Warms(g) == /\ get[g].phase = "opens" /\ providers[get[g].own].life = "open"
            /\ providers' = [providers EXCEPT ![get[g].own].warm = "ready"]
            /\ Returns(g, get[g].own)
            /\ UNCHANGED <<service, opening, resetting, disposed, calls, reset, failures>>

Closing(p) == IF p # None /\ providers[p].life \in {"open", "broken"} THEN {p} ELSE {}
ServiceCloses(P) == [p \in Providers |-> [P[p] EXCEPT
               !.life = IF p \in Closing(service) THEN "closing" ELSE @]]

(* The warm-up fails, or a reset closes the provider under it: get() closes what *)
(* is in use by now.                                                             *)
WarmFails(g) ==
    /\ get[g].phase = "opens"
    /\ IF providers[get[g].own].life = "open" THEN Fails ELSE UNCHANGED failures
    /\ providers' = ServiceCloses([providers EXCEPT ![get[g].own].warm = "failed"])
    /\ get' = [get EXCEPT ![g].phase = "cleans", ![g].provider = service]
    /\ UNCHANGED <<service, opening, resetting, disposed, calls, reset>>

Cleans(g) == /\ get[g].phase = "cleans"
             /\ get[g].provider # None => providers[get[g].provider].life = "closed"
             /\ service' = IF service = get[g].provider THEN None ELSE service
             /\ opening' = IF opening = get[g].own THEN None ELSE opening
             /\ Throws(g)
             /\ UNCHANGED <<providers, resetting, disposed, calls, reset, failures>>

(* Closing fails, and nothing is cleaned. *)
CleaningFails(g) == /\ get[g].phase = "cleans" /\ get[g].provider # None
                    /\ providers[get[g].provider].life = "broken"
                    /\ Throws(g)
                    /\ UNCHANGED <<provision, calls, reset, failures>>

JoinEnds(g) == /\ get[g].phase = "joins" /\ Settled(get[g].own)
               /\ CASE get[g].own = Off -> Returns(g, None)
                    [] get[g].own # Off /\ providers[get[g].own].warm = "ready" ->
                          Returns(g, get[g].own)
                    [] OTHER -> Throws(g)
               /\ UNCHANGED <<provision, calls, reset, failures>>

GetStep(g) == \/ GetRefused(g) \/ GetJoins(g) \/ GetOff(g) \/ GetOpens(g) \/ Warms(g)
              \/ WarmFails(g) \/ Cleans(g) \/ CleaningFails(g) \/ JoinEnds(g)

-----------------------------------------------------------------------------
(* Closing a provider waits for its warm-up. *)

ProviderCloses(p) == /\ providers[p].life = "closing" /\ providers[p].warm # "pending"
                     /\ providers' = [providers EXCEPT ![p].life = "closed"]
                     /\ UNCHANGED <<service, opening, resetting, disposed, get, calls, reset,
                                    failures>>

ProviderBreaks(p) == /\ providers[p].life = "closing" /\ providers[p].warm # "pending"
                     /\ Fails
                     /\ providers' = [providers EXCEPT ![p].life = "broken"]
                     /\ UNCHANGED <<service, opening, resetting, disposed, get, calls, reset>>

-----------------------------------------------------------------------------
(* reset() and close() *)

(* Seeded fault: the promise that is kept is the one of the opening. *)
ResetBeginsOpening(o) ==
    /\ resetting = None
    /\ resetting' = opening
    /\ reset' = [reset EXCEPT ![o] = [at |-> "opening", awaits |-> opening]]

ResetBegins(o) ==
    IF resetting = None
    THEN /\ resetting' = o
         /\ reset' = [reset EXCEPT ![o] = [at |-> "opening", awaits |-> opening]]
    ELSE /\ reset' = [reset EXCEPT ![o] = [at |-> "joins", awaits |-> resetting]]
         /\ UNCHANGED resetting

(* Whoever began to wait before the reset goes on before it, and is done with what *)
(* get() returned by the time a provider is closed.                                 *)
Delivered(g) == /\ ~Woken(g) /\ get[g].phase \notin {"got", "failed"}
                /\ get[g].phase = "joins" => ~Settled(get[g].own)
ResetPasses(o) == /\ reset[o].at = "opening" /\ Settled(reset[o].awaits)
                  /\ \A g \in Callers : Delivered(g)
                  /\ reset' = [reset EXCEPT ![o] = [at |-> "calls", awaits |-> None]]
                  /\ UNCHANGED <<provision, get, calls, failures>>

(* Seeded fault: the calls under way are not awaited. *)
ResetClosesNow(o) ==
    /\ reset[o].at = "calls"
    /\ providers' = ServiceCloses(providers)
    /\ reset' = [reset EXCEPT ![o] = [at |-> "close", awaits |-> service]]
    /\ UNCHANGED <<service, opening, resetting, disposed, get, calls, failures>>

ResetCloses(o) ==
    /\ reset[o].at = "calls" /\ \A g \in Callers : calls[g] = None
    /\ providers' = ServiceCloses(providers)
    /\ reset' = [reset EXCEPT ![o] = [at |-> "close", awaits |-> service]]
    /\ UNCHANGED <<service, opening, resetting, disposed, get, calls, failures>>

(* The promise of o's reset settles: for those who joined it, and for every get() *)
(* that awaits it, which goes on or throws.                                       *)
ResetSettles(o, at) ==
    /\ resetting' = None
    /\ reset' = [r \in Resetters |->
                    IF r = o \/ (reset[r].at = "joins" /\ reset[r].awaits = o)
                    THEN [at |-> at, awaits |-> None] ELSE reset[r]]
    /\ get' = [g \in Callers |->
                  IF get[g].phase = "waits" /\ get[g].awaits = o
                  THEN [get[g] EXCEPT !.awaits = None,
                                      !.phase = IF at = "failed" THEN "failed" ELSE @]
                  ELSE get[g]]

(* Seeded fault: those who joined the reset are not told of its end. *)
ResetClearsAlone(o) ==
    /\ reset[o].at = "close"
    /\ reset[o].awaits # None => providers[reset[o].awaits].life = "closed"
    /\ service' = None /\ opening' = None /\ resetting' = None
    /\ reset' = [reset EXCEPT ![o] = [at |-> "done", awaits |-> None]]
    /\ UNCHANGED <<providers, disposed, get, calls, failures>>

(* get() has a provider for g. What it returned is put to use in the microtasks that *)
(* follow, and the close of a provider takes longer.                                 *)
Returned(g) == \/ get[g].phase = "got" /\ get[g].provider # None
               \/ /\ get[g].phase = "joins" /\ get[g].own \in Providers
                  /\ providers[get[g].own].warm = "ready"

ResetClears(o) ==
    /\ reset[o].at = "close" /\ \A g \in Callers : ~Returned(g)
    /\ reset[o].awaits # None => providers[reset[o].awaits].life = "closed"
    /\ service' = None /\ opening' = None
    /\ ResetSettles(o, "done")
    /\ UNCHANGED <<providers, disposed, calls, failures>>

(* close() of the provider throws: it stays in use, and can be reset again. *)
ResetFails(o) ==
    /\ reset[o].at = "close" /\ reset[o].awaits # None
    /\ providers[reset[o].awaits].life = "broken"
    /\ ResetSettles(o, "failed")
    /\ UNCHANGED <<providers, service, opening, disposed, calls, failures>>

ResetStep(o) == ResetPasses(o) \/ ResetCloses(o) \/ ResetClears(o) \/ ResetFails(o)

-----------------------------------------------------------------------------
(* Calls of a borrowed provider: run() refuses unless ready() *)

CallBegins(g, p) == Usable(p) /\ calls' = [calls EXCEPT ![g] = p]
CallEnds(g) == calls[g] # None /\ calls' = [calls EXCEPT ![g] = None]

SharedStep == \/ \E g \in Callers : GetStep(g)
              \/ \E p \in Providers : ProviderCloses(p) \/ ProviderBreaks(p)
              \/ \E o \in Resetters : ResetStep(o)

-----------------------------------------------------------------------------
SharedTypeOK ==
    /\ config \in Configurations
    /\ providers \in [Providers -> [config : Configurations \cup {None},
                                    warm : {"none", "pending", "ready", "failed"},
                                    life : {"none", "open", "closing", "broken", "closed"}]]
    /\ service \in Providers \cup {None} /\ opening \in Providers \cup {None, Off}
    /\ resetting \in Resetters \cup {None} /\ disposed \in BOOLEAN
    /\ get \in [Callers -> [phase : {"idle", "waits", "joins", "opens", "cleans", "got", "failed"},
                            awaits : Resetters \cup {None}, own : Providers \cup {None, Off},
                            provider : Providers \cup {None}]]
    /\ calls \in [Callers -> Providers \cup {None}]
    /\ reset \in [Resetters -> [at : {"idle", "opening", "calls", "close", "joins", "done",
                                      "failed"},
                                awaits : Providers \cup Resetters \cup {None, Off}]]
    /\ failures \in 0..MaxFailures

(* A provider is not closed while a call runs on it: reset() awaits the calls, and *)
(* from its beginning no other is let in (shared-embedding-runtime.ts, ready and   *)
(* reset).                                                                         *)
CallsEndFirst == \A g \in Callers : calls[g] # None => providers[calls[g]].life = "open"

(* The installation has one provider at a time, and the model of a local one is in *)
(* memory once (shared-embedding-runtime.ts:12).                                   *)
OneProvider == \A p, q \in Providers :
    {providers[p].life, providers[q].life} \cap {"none", "closed"} = {} => p = q
==============================================================================
