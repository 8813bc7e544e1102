-------------------------- MODULE CanonIndexProofs --------------------------
(***************************************************************************)
(* Theorems about the Canon index, for any number of chunks, retrievals,   *)
(* changes of the settings and failures.                                   *)
(*                                                                         *)
(* A pass or a retrieval leaves the index between two of its awaits and    *)
(* comes back to it later. Expects says what it may count on then: it      *)
(* will not get a provider, or nobody has touched the index, or the index  *)
(* is by now of another configuration, and get() returns a provider of     *)
(* that one, which the comparison after the await will tell.               *)
(***************************************************************************)
EXTENDS CanonIndex, SharedEmbeddingProofs

\* The provider in use is warm, and of that configuration.
InUse(conf) == service # None /\ providers[service].warm = "ready" /\ ConfigOf(service) = conf

\* A get() that will not return a provider.
Doomed(g) ==
    \/ get[g].phase \in {"failed", "cleans"}
    \/ get[g].phase = "joins" /\ (get[g].own = Off \/ providers[get[g].own].warm = "failed")
    \/ get[g].phase = "got" /\ get[g].provider = None

\* A get() that returns what is in use, if it returns.
Follows(g) ==
    \/ Woken(g)
    \/ get[g].phase = "joins" /\ get[g].own = service
    \/ get[g].phase = "got" /\ get[g].provider = service

\* What g counts on that left the index of conf, and complete, before get().
Expects(g, conf, complete) ==
    \/ Doomed(g)
    \/ /\ meta = conf /\ complete
       /\ get[g].phase = "waits" /\ get[g].awaits # None => InUse(conf)
    \/ meta # conf /\ InUse(meta) /\ Follows(g)

Complete(K) == \A k \in K \cap Present : vector[k] # None

\* The rows the pass has still to write; of the others the one it was asked for misses
\* none.
Pending == DOMAIN pass.rows
PassComplete == \A r \in Retrievals : r = Head(queue) => Complete(retrieval[r].wanted \ Pending)

PassSound ==
    /\ pass.at # "idle" => queue # <<>>
    /\ pass.at \in {"gets", "checks"} <=> get[Indexer].phase # "idle"
    /\ pass.at \in {"embeds", "checks"} =>
         /\ pass.provider # None /\ providers[pass.provider].life # "none"
         /\ pass.row \in Pending
         /\ \A k \in Pending : pass.rows[k] \in {None, ConfigOf(pass.provider)}
    /\ pass.at = "embeds" => /\ calls[Indexer] = pass.provider
                             /\ meta = ConfigOf(pass.provider) /\ PassComplete
    /\ pass.at = "checks" => Expects(Indexer, ConfigOf(pass.provider), PassComplete)

\* A retrieval is in the queue once, and only while it waits.
QueueSound(r) ==
    /\ \A i \in 1..Len(queue) : queue[i] = r => retrieval[r].at = "waits"
    /\ \A i, j \in 1..Len(queue) : queue[i] = r /\ queue[j] = r => i = j

\* The retrieval asks the provider its pass indexed with.
Fresh(r) == retrieval[r].indexed = ConfigOf(retrieval[r].provider)

RetrievalSound(r) ==
    /\ QueueSound(r)
    /\ retrieval[r].at \in {"gets", "checks"} <=> get[r].phase # "idle"
    /\ \A k \in retrieval[r].wanted : chunk[k] # "new"
    /\ retrieval[r].at \in {"embeds", "checks", "found"} =>
         retrieval[r].provider # None /\ providers[retrieval[r].provider].life # "none"
    /\ retrieval[r].at = "gets" /\ retrieval[r].indexed # None =>
         Expects(r, retrieval[r].indexed, Complete(retrieval[r].wanted))
    /\ retrieval[r].at = "embeds" =>
         /\ calls[r] = retrieval[r].provider
         /\ meta = ConfigOf(retrieval[r].provider)
         /\ Fresh(r) => Complete(retrieval[r].wanted)
    /\ retrieval[r].at = "checks" =>
         Expects(r, ConfigOf(retrieval[r].provider), Fresh(r) => Complete(retrieval[r].wanted))

\* What a retrieval found.
FoundSound(r) == retrieval[r].at = "found" =>
    /\ retrieval[r].searched \subseteq {ConfigOf(retrieval[r].provider)}
    /\ Fresh(r) => retrieval[r].wanted \cap Present \subseteq retrieval[r].found

\* A change resets the provider once.
OpSound(o) == op[o] # "resets" => reset[o].at = "idle"

\* The current pass is a record, and so are the rows it read.
PassShape == pass = [at |-> pass.at, provider |-> pass.provider, rows |-> pass.rows,
                     row |-> pass.row]

OneSpace == \A k \in Chunks : vector[k] \in {None, meta}

CanonSound ==
    /\ PassShape /\ PassSound
    /\ \A r \in Retrievals : RetrievalSound(r) /\ FoundSound(r)
    /\ \A o \in Ops : OpSound(o)
    /\ OneSpace

IInv == TypeOK /\ SharedSound /\ CanonSound

-----------------------------------------------------------------------------
(* How a get() goes on *)

Ready == service # None /\ providers[service].warm = "ready"

Going(g) ==
    /\ get'[g].phase = "idle" <=> get[g].phase = "idle"
    /\ Doomed(g) => Doomed(g)'
    /\ Ready /\ Follows(g) => service' = service /\ (Follows(g)' \/ Doomed(g)')
    /\ get'[g].phase = "waits" /\ get'[g].awaits # None =>
          get'[g] = get[g] /\ (Ready => service' = service)

\* A warm-up ends once.
WarmUpsStay == \A p \in Providers :
    providers[p].life # "none" /\ providers[p].warm \in {"ready", "failed"} =>
       providers'[p].warm = providers[p].warm

\* What the proofs use of the provider's invariant.
LEMMA ProviderFacts ==
    ASSUME SharedTypeOK, SharedSound
    PROVE  /\ service # None => /\ opening = service /\ service \in Providers
                                /\ providers[service].life # "none"
           /\ \A g \in Callers :
                 /\ get[g] \in GetStates
                 /\ get[g].phase = "joins" /\ get[g].own # Off =>
                       get[g].own \in Providers /\ providers[get[g].own].life # "none"
                 /\ get[g].phase = "got" /\ get[g].provider # None =>
                       get[g].provider = service /\ Ready
                 /\ get[g].phase = "opens" => ~Ready
                 /\ calls[g] # None => calls[g] = service /\ Ready
           /\ \A p \in Providers : providers[p].life # "none" => providers[p].config # None
<1>1. service # None => /\ opening = service /\ service \in Providers
                        /\ providers[service].life # "none"
  BY NamesDiffer, SharedTypes DEF SharedSound, OpeningSound
<1>2. ASSUME NEW g \in Callers
      PROVE  /\ get[g] \in GetStates
             /\ get[g].phase = "joins" /\ get[g].own # Off =>
                   get[g].own \in Providers /\ providers[get[g].own].life # "none"
             /\ get[g].phase = "got" /\ get[g].provider # None =>
                   get[g].provider = service /\ Ready
             /\ get[g].phase = "opens" => ~Ready
             /\ calls[g] # None => calls[g] = service /\ Ready
  <2>1. get[g] \in GetStates /\ calls[g] \in Providers \cup {None}
    BY SharedTypes
  <2>2. Joins(g) /\ Got(g) /\ Opens(g) /\ Calling(g)
    BY DEF SharedSound, GetSound
  <2>3. get[g].phase = "opens" => ~Ready
    BY <2>2 DEF Opens, Ready, SharedSound, ProviderSound, Live
  <2>4. calls[g] # None => calls[g] = service /\ Ready
    BY <2>1, <2>2 DEF Calling, Ready, SharedSound, ProviderSound, Live
  <2> QED BY <2>1, <2>2, <2>3, <2>4 DEF Joins, Got, Ready
<1>3. \A p \in Providers : providers[p].life # "none" => providers[p].config # None
  BY NamesDiffer DEF SharedSound, ProviderSound
<1> QED BY <1>1, <1>2, <1>3

LEMMA GettingGoesOn ==
    ASSUME SharedTypeOK, SharedSound, NEW h \in Callers, GetStep(h), NEW g \in Callers
    PROVE  WarmUpsStay /\ Going(g)
<1>1. get[h] \in GetStates /\ get[g] \in GetStates
  BY SharedTypes
<1>2. Joins(g) /\ Opens(h) /\ CleansUp(h)
  BY DEF SharedSound, GetSound
<1>3. ASSUME NEW x, get' = [get EXCEPT ![h] = x]
      PROVE  get'[h] = x /\ (g # h => get'[g] = get[g])
  BY <1>3, SharedTypes
<1>4. CASE GetRefused(h)
  <2>1. UNCHANGED provision /\ Woken(h) /\ get'[h].phase = "failed" /\ (g # h => get'[g] = get[g])
    BY <1>3, <1>4 DEF GetRefused, Throws, NoGet
  <2> QED BY <2>1 DEF WarmUpsStay, Going, Doomed, Follows, Woken, provision
<1>5. CASE GetJoins(h)
  <2> DEFINE x == [[get[h] EXCEPT !.phase = "joins"] EXCEPT !.own = opening]
  <2>1. UNCHANGED provision /\ Woken(h) /\ get' = [get EXCEPT ![h] = x]
    BY <1>5 DEF GetJoins
  <2>2. x.phase = "joins" /\ x.own = opening
    BY <1>1 DEF GetStates
  <2> HIDE DEF x
  <2>3. get'[h] = x /\ (g # h => get'[g] = get[g])
    BY <1>3, <2>1
  <2> QED BY <2>1, <2>2, <2>3, ProviderFacts
          DEF WarmUpsStay, Going, Doomed, Follows, Woken, Ready, provision
<1>6. CASE GetOff(h)
  <2>1. /\ UNCHANGED <<providers, service>> /\ service = None /\ Woken(h)
        /\ get'[h].phase = "got" /\ get'[h].provider = None /\ (g # h => get'[g] = get[g])
    BY <1>3, <1>6, ProviderFacts DEF GetOff, Returns, NoGet
  <2> QED BY <2>1 DEF WarmUpsStay, Going, Doomed, Follows, Woken, Ready
<1>7. CASE GetOpens(h)
  <2>1. PICK p \in Providers :
          /\ providers[p].life = "none"
          /\ providers' = [providers EXCEPT ![p] = [config |-> config, warm |-> "pending",
                                                    life |-> "open"]]
          /\ get' = [get EXCEPT ![h].phase = "opens", ![h].own = p]
    BY <1>7 DEF GetOpens
  <2>2. service = None /\ Woken(h)
    BY <1>7, ProviderFacts DEF GetOpens
  <2>3. \A q \in Providers : providers[q].life # "none" => providers'[q] = providers[q]
    BY <2>1, SharedTypes
  <2>4. get'[h].phase = "opens" /\ (g # h => get'[g] = get[g])
    BY <1>1, <2>1, SharedTypes DEF GetStates
  <2>5. Doomed(g) => Doomed(g)'
    BY <1>2, <2>2, <2>3, <2>4, NamesDiffer DEF Doomed, Joins, Woken
  <2> QED BY <2>2, <2>3, <2>4, <2>5 DEF WarmUpsStay, Going, Woken, Ready
<1>8. CASE Warms(h)
  <2>1. /\ get[h].phase = "opens" /\ UNCHANGED service /\ get[h].own \in Providers
        /\ providers' = [providers EXCEPT ![get[h].own].warm = "ready"]
        /\ providers[get[h].own].warm = "pending"
        /\ get'[h].phase = "got" /\ (g # h => get'[g] = get[g])
    BY <1>2, <1>3, <1>8 DEF Warms, Returns, Opens, NoGet
  <2>2. \A q \in Providers : providers[q].warm # "pending" => providers'[q] = providers[q]
    BY <2>1, SharedTypes
  <2>3. Doomed(g) => Doomed(g)'
    BY <1>2, <2>1, <2>2, NamesDiffer DEF Doomed, Joins
  <2> QED BY <2>1, <2>2, <2>3 DEF WarmUpsStay, Going, Follows, Woken, Ready
<1>9. CASE WarmFails(h)
  <2> DEFINE P == [providers EXCEPT ![get[h].own].warm = "failed"]
             x == [[get[h] EXCEPT !.phase = "cleans"] EXCEPT !.provider = service]
  <2>1. /\ get[h].phase = "opens" /\ UNCHANGED service /\ get[h].own \in Providers
        /\ providers' = ServiceCloses(P)
        /\ providers[get[h].own].warm = "pending"
        /\ get' = [get EXCEPT ![h] = x]
    BY <1>2, <1>9 DEF WarmFails, Opens
  <2>2. /\ P \in [Providers -> ProviderStates]
        /\ \A q \in Providers : /\ P[q].life = providers[q].life
                                /\ P[q].config = providers[q].config
                                /\ providers[q].warm # "pending" => P[q].warm = providers[q].warm
    BY <2>1, SharedTypes DEF ProviderStates
  <2>3. x.phase = "cleans"
    BY <1>1 DEF GetStates
  <2> HIDE DEF P, x
  <2>4. get'[h] = x /\ (g # h => get'[g] = get[g])
    BY <1>3, <2>1
  <2>5. \A q \in Providers : providers[q].warm # "pending" =>
           providers'[q].warm = providers[q].warm
    BY <2>1, <2>2, ServiceClosing
  <2>6. Doomed(g) => Doomed(g)'
    BY <1>2, <2>1, <2>3, <2>4, <2>5, NamesDiffer DEF Doomed, Joins
  <2> QED BY <2>1, <2>3, <2>4, <2>5, <2>6 DEF WarmUpsStay, Going, Follows, Woken, Ready
<1>10. CASE Cleans(h)
  <2>1. /\ get[h].phase = "cleans" /\ UNCHANGED providers
        /\ get'[h].phase = "failed" /\ (g # h => get'[g] = get[g])
        /\ service' = IF service = get[h].provider THEN None ELSE service
    BY <1>3, <1>10 DEF Cleans, Throws, NoGet
  <2>2. Ready => service' = service
    BY <1>2, <2>1 DEF CleansUp, Ready
  <2> QED BY <2>1, <2>2 DEF WarmUpsStay, Going, Doomed, Follows, Woken, Ready
<1>11. CASE CleaningFails(h)
  <2>1. /\ get[h].phase = "cleans" /\ UNCHANGED provision
        /\ get'[h].phase = "failed" /\ (g # h => get'[g] = get[g])
    BY <1>3, <1>11 DEF CleaningFails, Throws, NoGet
  <2> QED BY <2>1 DEF WarmUpsStay, Going, Doomed, Follows, Woken, provision
<1>12. CASE JoinEnds(h)
  <2>1. get[h].phase = "joins" /\ UNCHANGED provision
    BY <1>12 DEF JoinEnds
  <2>2. \/ get[h].own = Off /\ Returns(h, None)
        \/ /\ get[h].own # Off /\ providers[get[h].own].warm = "ready"
           /\ Returns(h, get[h].own)
        \/ /\ get[h].own # Off /\ providers[get[h].own].warm # "ready"
           /\ Throws(h)
    BY <1>12 DEF JoinEnds
  <2>3. \/ /\ get[h].own = Off /\ get'[h].phase = "got" /\ get'[h].provider = None
        \/ /\ get[h].own # Off /\ providers[get[h].own].warm = "ready"
           /\ get'[h].phase = "got" /\ get'[h].provider = get[h].own
        \/ /\ get[h].own # Off /\ providers[get[h].own].warm # "ready"
           /\ get'[h].phase = "failed"
    BY <1>3, <2>2 DEF Returns, Throws, NoGet
  <2>4. g # h => get'[g] = get[g]
    BY <1>3, <2>2 DEF Returns, Throws
  <2> QED BY <2>1, <2>3, <2>4, NamesDiffer
          DEF WarmUpsStay, Going, Doomed, Follows, Woken, provision
<1> QED BY <1>4, <1>5, <1>6, <1>7, <1>8, <1>9, <1>10, <1>11, <1>12 DEF GetStep

LEMMA EveryGetGoesOn ==
    ASSUME SharedTypeOK, SharedSound, SharedStep
    PROVE  /\ UNCHANGED calls
           /\ WarmUpsStay
           /\ \A g \in Callers : Going(g)
<1>1. CASE \E h \in Callers : GetStep(h)
  <2>1. UNCHANGED calls
    BY <1>1 DEF GetStep, GetRefused, GetJoins, GetOff, GetOpens, Warms, WarmFails, Cleans,
       CleaningFails, JoinEnds
  <2> QED BY <1>1, <2>1, GettingGoesOn
<1>2. ASSUME UNCHANGED <<service, get, calls>>,
             \A p \in Providers : providers'[p].warm = providers[p].warm
      PROVE  /\ UNCHANGED calls /\ WarmUpsStay /\ \A g \in Callers : Going(g)
  BY <1>2, ProviderFacts, NamesDiffer DEF WarmUpsStay, Going, Doomed, Follows, Woken, Ready
<1>3. CASE \E p \in Providers : ProviderCloses(p) \/ ProviderBreaks(p)
  <2>1. UNCHANGED <<service, get, calls>> /\ \A p \in Providers : providers'[p].warm = providers[p].warm
    BY <1>3, SharedTypes DEF ProviderCloses, ProviderBreaks, ProviderStates
  <2> QED BY <1>2, <2>1
<1>4. CASE \E o \in Resetters : ResetPasses(o) \/ ResetCloses(o)
  <2>1. providers' = providers \/ providers' = ServiceCloses(providers)
    BY <1>4 DEF ResetPasses, ResetCloses, provision
  <2>2. \A p \in Providers : providers'[p].warm = providers[p].warm
    BY <2>1, ServiceClosing, SharedTypes
  <2>3. UNCHANGED <<service, get, calls>>
    BY <1>4 DEF ResetPasses, ResetCloses, provision
  <2> QED BY <1>2, <2>2, <2>3
<1>5. CASE \E o \in Resetters : ResetClears(o) \/ ResetFails(o)
  <2> PICK o \in Resetters : ResetClears(o) \/ ResetFails(o)
    BY <1>5
  <2>1. reset[o].at = "close" /\ UNCHANGED <<providers, calls>>
    BY DEF ResetClears, ResetFails
  <2>2. resetting = o /\ \A g \in Callers : ~Woken(g)
    BY <2>1 DEF SharedSound, ResetSound, Active
  <2>3. \A g \in Callers : \/ get[g].phase # "waits" /\ get'[g] = get[g]
                           \/ get[g].phase = "waits" /\ get'[g].phase = "failed"
                           \/ get[g].phase = "waits" /\ Woken(g)'
    BY <2>2, SettlingKeeps DEF ResetClears, ResetFails
  <2>4. \/ UNCHANGED service
        \/ \A g \in Callers : ~Returned(g)
    BY DEF ResetClears, ResetFails
  <2>5. ASSUME NEW g \in Callers PROVE Going(g)
    <3>1. Ready /\ Follows(g) => UNCHANGED service
      BY <2>2, <2>4, ProviderFacts DEF Returned, Follows, Ready
    <3> QED BY <2>1, <2>2, <2>3, <3>1 DEF Going, Doomed, Follows, Woken, Ready
  <2>6. WarmUpsStay
    BY <2>1 DEF WarmUpsStay
  <2> QED BY <2>1, <2>5, <2>6
<1> QED BY <1>1, <1>2, <1>3, <1>4, <1>5 DEF SharedStep, ResetStep

-----------------------------------------------------------------------------
(* What a step leaves of the expectations of the others *)

\* The index stays of its configuration or becomes of the one in use, and loses no
\* vector as long as it stays.
IndexGoesOn ==
    /\ meta' = meta \/ (Ready /\ meta' = providers[service].config)
    /\ meta' = meta => \A k \in Chunks : vector[k] # None => vector'[k] # None
ChunksGoOn == \A k \in Chunks : chunk[k] # "new" =>
    chunk'[k] # "new" /\ (chunk'[k] = "present" => chunk[k] = "present")
ConfigsStay == \A p \in Providers : providers[p].life # "none" =>
    providers'[p].life # "none" /\ providers'[p].config = providers[p].config

\* What is expected after a step, of a configuration and a set of before it.
ExpectsThen(g, conf, complete) ==
    \/ Doomed(g)'
    \/ /\ meta' = conf /\ complete
       /\ get'[g].phase = "waits" /\ get'[g].awaits # None =>
             Ready' /\ providers'[service'].config = conf
    \/ meta' # conf /\ Ready' /\ providers'[service'].config = meta' /\ Follows(g)'

LEMMA InUseIs == \A conf : InUse(conf) <=> Ready /\ providers[service].config = conf
BY DEF InUse, Ready, ConfigOf

\* While nobody reads or writes the index.
LEMMA ExpectsGoesOn ==
    ASSUME SharedTypeOK, SharedSound, NEW g \in Callers, Going(g), WarmUpsStay, ConfigsStay,
           meta' = meta, NEW conf, NEW complete \in BOOLEAN, Expects(g, conf, complete)
    PROVE  ExpectsThen(g, conf, complete)
<1>1. service' = service /\ Ready => Ready' /\ providers'[service'].config = providers[service].config
  BY ProviderFacts DEF Ready, WarmUpsStay, ConfigsStay
<1>2. CASE Doomed(g)
  BY <1>2 DEF Going, ExpectsThen
<1>3. CASE /\ meta = conf /\ complete
           /\ get[g].phase = "waits" /\ get[g].awaits # None => InUse(conf)
  BY <1>1, <1>3, InUseIs DEF Going, ExpectsThen
<1>4. CASE meta # conf /\ InUse(meta) /\ Follows(g)
  BY <1>1, <1>4, InUseIs DEF Going, ExpectsThen
<1> QED BY <1>2, <1>3, <1>4 DEF Expects

\* While somebody else does.
LEMMA ExpectsLasts ==
    ASSUME SharedTypeOK, SharedSound, NEW g \in Callers, UNCHANGED provision,
           get'[g] = get[g], get[g].phase # "idle", IndexGoesOn,
           NEW conf, NEW complete \in BOOLEAN, NEW after \in BOOLEAN,
           meta' = meta /\ complete => after,
           Expects(g, conf, complete)
    PROVE  ExpectsThen(g, conf, after)
<1>1. providers' = providers /\ service' = service
  BY DEF provision
<1>2. Ready' <=> Ready
  BY <1>1 DEF Ready
<1>3. CASE Doomed(g)
  BY <1>1, <1>3 DEF Doomed, ExpectsThen
<1>4. CASE /\ meta = conf /\ complete
           /\ get[g].phase = "waits" /\ get[g].awaits # None => InUse(conf)
  <2>1. CASE meta' = meta
    BY <1>1, <1>2, <1>4, <2>1, InUseIs DEF ExpectsThen
  <2>2. CASE meta' # meta
    <3>1. Ready /\ meta' = providers[service].config /\ meta' # conf
      BY <1>4, <2>2 DEF IndexGoesOn
    <3>2. Doomed(g) \/ Follows(g)
      <4>1. get[g].phase = "waits" => Woken(g)
        BY <1>4, <3>1, InUseIs DEF Woken
      <4>2. Joins(g) /\ Got(g) /\ get[g] \in GetStates /\ get[g].phase # "opens"
        BY <3>1, ProviderFacts DEF SharedSound, GetSound
      <4> QED BY <4>1, <4>2 DEF Joins, Got, Doomed, Follows, GetStates
    <3>3. Doomed(g)' \/ Follows(g)'
      BY <1>1, <3>2 DEF Doomed, Follows, Woken
    <3> QED BY <1>1, <1>2, <3>1, <3>3 DEF ExpectsThen
  <2> QED BY <2>1, <2>2
<1>5. CASE meta # conf /\ InUse(meta) /\ Follows(g)
  <2>1. Follows(g)'
    BY <1>1, <1>5 DEF Follows, Woken
  <2>2. meta' = meta
    BY <1>5, InUseIs DEF IndexGoesOn
  <2> QED BY <1>1, <1>2, <1>5, <2>1, <2>2, InUseIs DEF ExpectsThen
<1> QED BY <1>3, <1>4, <1>5 DEF Expects

\* A retrieval or the pass, as it is left by a step of others.
Waiting(g) ==
    /\ get'[g].phase = "idle" <=> get[g].phase = "idle"
    /\ calls'[g] = calls[g]
    /\ \/ Going(g) /\ WarmUpsStay /\ UNCHANGED <<meta, vector>>
       \/ UNCHANGED provision /\ get'[g] = get[g]

LEMMA ExpectsStays ==
    ASSUME SharedTypeOK, SharedSound, NEW g \in Callers, Waiting(g), get[g].phase # "idle",
           ConfigsStay, IndexGoesOn, NEW conf, NEW complete \in BOOLEAN, NEW after \in BOOLEAN,
           meta' = meta /\ complete => after, Expects(g, conf, complete)
    PROVE  ExpectsThen(g, conf, after)
<1>1. CASE Going(g) /\ WarmUpsStay /\ UNCHANGED <<meta, vector>>
  <2>1. ExpectsThen(g, conf, complete)
    BY <1>1, ExpectsGoesOn
  <2>2. complete => after
    BY <1>1
  <2> QED BY <2>1, <2>2 DEF ExpectsThen
<1>2. CASE UNCHANGED provision /\ get'[g] = get[g]
  BY <1>2, ExpectsLasts
<1> QED BY <1>1, <1>2 DEF Waiting

LEMMA CompleteStays ==
    ASSUME NEW K \in SUBSET Chunks, ChunksGoOn, IndexGoesOn, meta' = meta,
           \A k \in K : chunk[k] # "new", Complete(K)
    PROVE  \A k \in K \cap Present' : vector'[k] # None
BY DEF ChunksGoOn, IndexGoesOn, Complete, Present

RetrievalStates == [at : {"idle", "waits", "gets", "embeds", "checks", "found"},
                    provider : Providers \cup {None}, wanted : SUBSET Chunks, indexed : Vectors,
                    found : SUBSET Chunks, searched : SUBSET Configurations]

\* The index is of the configuration in use while a call of an embedding runs.
LEMMA CallKeepsMeta ==
    ASSUME SharedTypeOK, SharedSound, NEW g \in Callers, calls[g] # None,
           meta = ConfigOf(calls[g]), IndexGoesOn
    PROVE  meta' = meta
BY ProviderFacts DEF ConfigOf, IndexGoesOn

LEMMA RetrievalStays ==
    ASSUME SharedTypeOK, SharedSound, NEW r \in Retrievals, retrieval[r] \in RetrievalStates,
           r \in Callers, RetrievalSound(r), FoundSound(r),
           retrieval'[r] = retrieval[r], QueueSound(r)',
           Waiting(r), ConfigsStay, ChunksGoOn, IndexGoesOn
    PROVE  RetrievalSound(r)' /\ FoundSound(r)'
<1> DEFINE q == retrieval[r].provider
           conf == ConfigOf(q)
<1>1. /\ q \in Providers \cup {None} /\ retrieval[r].wanted \in SUBSET Chunks
      /\ \A k \in retrieval[r].wanted : chunk[k] # "new" /\ chunk'[k] # "new"
  BY DEF RetrievalStates, RetrievalSound, ChunksGoOn
<1>2. retrieval[r].at \in {"embeds", "checks", "found"} =>
         /\ q # None /\ providers[q].life # "none" /\ providers'[q].life # "none"
         /\ ConfigOf(q)' = conf /\ Fresh(r)' = Fresh(r)
  <2>1. retrieval[r].at \in {"embeds", "checks", "found"} =>
           q # None /\ providers[q].life # "none"
    BY DEF RetrievalSound
  <2>2. retrieval[r].at \in {"embeds", "checks", "found"} =>
           providers'[q].life # "none" /\ ConfigOf(q)' = conf
    BY <1>1, <2>1 DEF ConfigsStay, ConfigOf
  <2> QED BY <2>1, <2>2 DEF Fresh, ConfigOf
<1>3. meta' = meta /\ Complete(retrieval[r].wanted) => Complete(retrieval[r].wanted)'
  BY <1>1, CompleteStays DEF Complete
<1>4. ASSUME retrieval[r].at = "gets", retrieval[r].indexed # None
      PROVE  Expects(r, retrieval[r].indexed, Complete(retrieval[r].wanted))'
  <2> DEFINE c == Complete(retrieval[r].wanted)
             d == Complete(retrieval[r].wanted)'
  <2>1. Expects(r, retrieval[r].indexed, c) /\ get[r].phase # "idle"
    BY <1>4 DEF RetrievalSound
  <2>2. c \in BOOLEAN /\ d \in BOOLEAN /\ (meta' = meta /\ c => d)
    BY <1>3 DEF Complete
  <2> HIDE DEF c, d
  <2>3. ExpectsThen(r, retrieval[r].indexed, d)
    BY <2>1, <2>2, ExpectsStays
  <2> QED BY <2>3 DEF ExpectsThen, Expects, InUse, ConfigOf, Ready, d
<1>5. ASSUME retrieval[r].at = "checks"
      PROVE  Expects(r, ConfigOf(q), Fresh(r) => Complete(retrieval[r].wanted))'
  <2> DEFINE c == Fresh(r) => Complete(retrieval[r].wanted)
             d == Fresh(r) => Complete(retrieval[r].wanted)'
  <2>1. Expects(r, conf, c) /\ get[r].phase # "idle"
    BY <1>5 DEF RetrievalSound
  <2>2. c \in BOOLEAN /\ d \in BOOLEAN /\ (meta' = meta /\ c => d)
    BY <1>3
  <2> HIDE DEF c, d
  <2>3. ExpectsThen(r, conf, d)
    BY <2>1, <2>2, ExpectsStays
  <2>4. d <=> (Fresh(r)' => Complete(retrieval[r].wanted)')
    BY <1>2, <1>5 DEF d
  <2>5. ConfigOf(q)' = conf
    BY <1>2, <1>5
  <2> HIDE DEF conf, q
  <2> QED BY <2>3, <2>4, <2>5 DEF ExpectsThen, Expects, InUse, ConfigOf, Ready
<1>6. retrieval[r].at = "embeds" =>
         /\ calls'[r] = q /\ meta' = ConfigOf(q)'
         /\ Fresh(r)' => Complete(retrieval[r].wanted)'
  <2> SUFFICES ASSUME retrieval[r].at = "embeds"
               PROVE  /\ calls'[r] = q /\ meta' = ConfigOf(q)'
                      /\ Fresh(r)' => Complete(retrieval[r].wanted)'
    OBVIOUS
  <2>1. calls[r] = q /\ q # None /\ meta = conf /\ (Fresh(r) => Complete(retrieval[r].wanted))
    BY <1>2 DEF RetrievalSound
  <2>2. meta' = meta
    BY <2>1, CallKeepsMeta
  <2> QED BY <1>2, <1>3, <2>1, <2>2 DEF Waiting
<1>7. RetrievalSound(r)'
  <2>1. retrieval[r].at \in {"gets", "checks"} <=> get'[r].phase # "idle"
    BY DEF RetrievalSound, Waiting
  <2> QED BY <1>1, <1>2, <1>4, <1>5, <1>6, <2>1 DEF RetrievalSound
<1>8. FoundSound(r)'
  <2> SUFFICES ASSUME retrieval[r].at = "found" PROVE FoundSound(r)'
    BY DEF FoundSound
  <2>1. Present' \cap retrieval[r].wanted \subseteq Present
    BY <1>1 DEF ChunksGoOn, Present
  <2> QED BY <1>2, <2>1 DEF FoundSound
<1> QED BY <1>7, <1>8

\* The pass, as it is left by a step of others.
LEMMA PassStays ==
    ASSUME SharedTypeOK, SharedSound, Indexer \in Callers, PassShape, PassSound, UNCHANGED pass,
           pass.provider \in Providers \cup {None},
           pass.at # "idle" => queue' # <<>> /\ Head(queue') = Head(queue),
           \A r \in Retrievals : /\ RetrievalSound(r) /\ retrieval[r].wanted \in SUBSET Chunks
                                 /\ queue # <<>> /\ r = Head(queue) =>
                                       retrieval'[r].wanted = retrieval[r].wanted,
           Waiting(Indexer), ConfigsStay, ChunksGoOn, IndexGoesOn
    PROVE  PassShape' /\ PassSound'
<1> DEFINE q == pass.provider
           conf == ConfigOf(q)
<1>1. pass.at \in {"embeds", "checks"} =>
         /\ q # None /\ providers[q].life # "none" /\ providers'[q].life # "none"
         /\ ConfigOf(q)' = conf
  <2>1. pass.at \in {"embeds", "checks"} => q # None /\ providers[q].life # "none"
    BY DEF PassSound
  <2> QED BY <2>1 DEF ConfigsStay, ConfigOf
<1>2. ASSUME pass.at # "idle", meta' = meta, PassComplete PROVE PassComplete'
  <2> SUFFICES ASSUME NEW r \in Retrievals, r = Head(queue)'
               PROVE  Complete(retrieval[r].wanted \ Pending)'
    BY DEF PassComplete
  <2>1. r = Head(queue) /\ queue # <<>>
    BY <1>2 DEF PassSound
  <2>2. /\ retrieval'[r].wanted = retrieval[r].wanted /\ Complete(retrieval[r].wanted \ Pending)
        /\ retrieval[r].wanted \ Pending \in SUBSET Chunks
        /\ \A k \in retrieval[r].wanted : chunk[k] # "new"
    BY <1>2, <2>1 DEF PassComplete, RetrievalSound
  <2>3. \A k \in (retrieval[r].wanted \ Pending) \cap Present' : vector'[k] # None
    BY <1>2, <2>2, CompleteStays
  <2> QED BY <2>2, <2>3 DEF Complete, Pending
<1>3. ASSUME pass.at = "checks" PROVE Expects(Indexer, ConfigOf(q), PassComplete)'
  <2> DEFINE c == PassComplete
             d == PassComplete'
  <2>1. Expects(Indexer, conf, c) /\ get[Indexer].phase # "idle"
    BY <1>3 DEF PassSound
  <2>2. c \in BOOLEAN /\ d \in BOOLEAN /\ (meta' = meta /\ c => d)
    BY <1>2, <1>3 DEF PassComplete
  <2> HIDE DEF c, d
  <2>3. ExpectsThen(Indexer, conf, d)
    BY <2>1, <2>2, ExpectsStays
  <2>4. ConfigOf(q)' = conf
    BY <1>1, <1>3
  <2> HIDE DEF conf, q
  <2> QED BY <2>3, <2>4 DEF ExpectsThen, Expects, InUse, ConfigOf, Ready, d
<1>4. pass.at = "embeds" =>
         calls'[Indexer] = q /\ meta' = ConfigOf(q)' /\ PassComplete'
  <2> SUFFICES ASSUME pass.at = "embeds"
               PROVE  calls'[Indexer] = q /\ meta' = ConfigOf(q)' /\ PassComplete'
    OBVIOUS
  <2>1. calls[Indexer] = q /\ q # None /\ meta = conf /\ PassComplete
    BY <1>1 DEF PassSound
  <2>2. meta' = meta
    BY <2>1, CallKeepsMeta
  <2> QED BY <1>1, <1>2, <2>1, <2>2 DEF Waiting
<1>5. pass.at \in {"gets", "checks"} <=> get'[Indexer].phase # "idle"
  BY DEF PassSound, Waiting
<1>6. pass.at \in {"embeds", "checks"} =>
         \A k \in Pending : pass.rows[k] \in {None, ConfigOf(q)'}
  BY <1>1 DEF PassSound
<1>7. PassSound'
  <2> HIDE DEF conf
  <2> QED BY <1>1, <1>3, <1>4, <1>5, <1>6 DEF PassSound, Pending
<1> QED BY <1>7 DEF PassShape

-----------------------------------------------------------------------------
(* Types *)

LEMMA CanonTypes ==
    ASSUME TypeOK
    PROVE  /\ SharedTypeOK /\ Indexer \in Callers /\ Retrievals \subseteq Callers
           /\ Indexer \notin Retrievals /\ None \notin Retrievals /\ Indexer # None
           /\ chunk \in [Chunks -> {"new", "present", "removed"}]
           /\ vector \in [Chunks -> Vectors] /\ meta \in Vectors /\ queue \in Seq(Users)
           /\ pass.provider \in Providers \cup {None}
           /\ retrieval \in [Retrievals -> RetrievalStates]
           /\ \A r \in Retrievals : r \in Callers /\ retrieval[r] \in RetrievalStates
                                    /\ retrieval[r].wanted \in SUBSET Chunks
           /\ \A o \in Ops : o \in Resetters
           /\ None \notin Configurations
BY CanonAssumption, SharedAssumption DEF TypeOK, RetrievalStates

PassTyped ==
    /\ pass.at \in {"idle", "gets", "embeds", "checks"}
    /\ pass.provider \in Providers \cup {None} /\ pass.row \in DOMAIN pass.rows \cup {None}
    /\ DOMAIN pass.rows \subseteq Chunks /\ \A k \in DOMAIN pass.rows : pass.rows[k] \in Vectors
IndexTyped ==
    /\ chunk \in [Chunks -> {"new", "present", "removed"}]
    /\ vector \in [Chunks -> Vectors] /\ meta \in Vectors
RequestsTyped ==
    /\ op \in [Ops -> {"idle", "saved", "resets"}] /\ changes \in 0..MaxChanges
    /\ life \in {"open", "closing", "closed"}
RetrievalsTyped == retrieval \in [Retrievals -> RetrievalStates]

LEMMA TypeParts ==
    TypeOK <=> /\ SharedTypeOK /\ IndexTyped /\ queue \in Seq(Users) /\ PassTyped
               /\ RetrievalsTyped /\ RequestsTyped
BY DEF TypeOK, IndexTyped, PassTyped, RetrievalsTyped, RequestsTyped, RetrievalStates

LEMMA TypePartsNext ==
    TypeOK' <=> /\ SharedTypeOK' /\ IndexTyped' /\ queue' \in Seq(Users) /\ PassTyped'
                /\ RetrievalsTyped' /\ RequestsTyped'
BY DEF TypeOK, IndexTyped, PassTyped, RetrievalsTyped, RequestsTyped, RetrievalStates

-----------------------------------------------------------------------------
(* The provider goes on *)

LEMMA SharedGoesOn ==
    ASSUME IInv, SharedStep, UNCHANGED <<config, own>>
    PROVE  IInv'
<1> USE DEF IInv, CanonSound
<1>1. UNCHANGED <<chunk, vector, meta, queue, pass, retrieval, op, changes, life>>
  BY DEF own, index
<1>2. SharedTypeOK' /\ SharedSound'
  BY CanonTypes, SharedStepKeeps
<1>3. TypeOK'
  BY <1>1, <1>2, TypeParts, TypePartsNext
     DEF IndexTyped, PassTyped, RetrievalsTyped, RequestsTyped
<1>4. ConfigsStay
  BY CanonTypes, ConfigurationsStay DEF ConfigsStay
<1>5. ChunksGoOn /\ IndexGoesOn
  BY <1>1 DEF ChunksGoOn, IndexGoesOn
<1>6. \A g \in Callers : Waiting(g)
  BY <1>1, CanonTypes, EveryGetGoesOn DEF Waiting, Going
<1>7. PassShape' /\ PassSound'
  BY <1>1, <1>4, <1>5, <1>6, CanonTypes, PassStays DEF PassSound
<1>8. \A r \in Retrievals : RetrievalSound(r)' /\ FoundSound(r)'
  <2> SUFFICES ASSUME NEW r \in Retrievals PROVE RetrievalSound(r)' /\ FoundSound(r)'
    OBVIOUS
  <2>1. RetrievalSound(r) /\ QueueSound(r)'
    BY <1>1 DEF RetrievalSound, QueueSound
  <2> QED BY <1>1, <1>4, <1>5, <1>6, <2>1, CanonTypes, RetrievalStays
<1>9. \A o \in Ops : OpSound(o)'
  BY <1>1, CanonTypes, ResetsGoOn DEF OpSound
<1>10. OneSpace'
  BY <1>1 DEF OneSpace
<1> QED BY <1>2, <1>3, <1>7, <1>8, <1>9, <1>10

-----------------------------------------------------------------------------
(* The queue of the passes *)

LEMMA QueueShrinks ==
    ASSUME queue \in Seq(Users), queue # <<>>, queue' = Tail(queue),
           NEW r \in Retrievals, QueueSound(r),
           r = Head(queue) \/ retrieval'[r].at = retrieval[r].at
    PROVE  QueueSound(r)' /\ (r = Head(queue) => retrieval[r].at = "waits")
<1>1. Len(queue) >= 1 /\ Head(queue) = queue[1]
  OBVIOUS
<1>2. /\ Len(queue') = Len(queue) - 1
      /\ \A i \in 1..Len(queue') : i + 1 \in 1..Len(queue) /\ queue'[i] = queue[i + 1]
  OBVIOUS
<1>3. 1 \in 1..Len(queue) /\ \A i \in 1..Len(queue') : i + 1 # 1
  BY <1>1
<1>4. \A i \in 1..Len(queue') : queue'[i] = r => r # Head(queue) /\ retrieval[r].at = "waits"
  BY <1>1, <1>2, <1>3 DEF QueueSound
<1>5. \A i, j \in 1..Len(queue') : queue'[i] = r /\ queue'[j] = r => i = j
  <2> SUFFICES ASSUME NEW i \in 1..Len(queue'), NEW j \in 1..Len(queue'),
                      queue'[i] = r, queue'[j] = r
               PROVE  i = j
    OBVIOUS
  <2>1. i + 1 = j + 1
    BY <1>2 DEF QueueSound
  <2> QED BY <2>1
<1> QED BY <1>1, <1>3, <1>4, <1>5 DEF QueueSound

LEMMA QueueGrows ==
    ASSUME queue \in Seq(Users), NEW x \in Users, queue' = Append(queue, x),
           NEW r \in Retrievals, QueueSound(r),
           x = r => retrieval[r].at # "waits" /\ retrieval'[r].at = "waits",
           x # r => retrieval'[r].at = retrieval[r].at
    PROVE  QueueSound(r)'
<1>1. /\ Len(queue') = Len(queue) + 1 /\ Len(queue) \in Nat
      /\ \A i \in 1..Len(queue) : queue'[i] = queue[i]
      /\ queue'[Len(queue) + 1] = x
  OBVIOUS
<1>2. \A i \in 1..Len(queue') : i \in 1..Len(queue) \/ i = Len(queue) + 1
  BY <1>1
<1> QED BY <1>1, <1>2 DEF QueueSound

LEMMA HeadStays ==
    ASSUME queue \in Seq(Users), queue # <<>>, NEW x \in Users
    PROVE  Append(queue, x) # <<>> /\ Head(Append(queue, x)) = Head(queue)
OBVIOUS

-----------------------------------------------------------------------------
(* Steps of the pass *)

\* What every step of the pass leaves alone, and what it does with the index.
PassFrame ==
    /\ UNCHANGED <<config, provision, reset, chunk, op, changes, life>>
    /\ Fails \/ UNCHANGED failures
    /\ UNCHANGED calls \/ Calls1(Indexer)
    /\ IndexGoesOn /\ OneSpace' /\ vector' \in [Chunks -> Vectors] /\ meta' \in Vectors

LEMMA FrameFacts ==
    ASSUME IInv, PassFrame
    PROVE  /\ ConfigsStay /\ ChunksGoOn /\ IndexGoesOn
           /\ \A r \in Retrievals : calls'[r] = calls[r]
           /\ IndexTyped' /\ RequestsTyped' /\ \A o \in Ops : OpSound(o)'
<1>1. SharedTypeOK /\ \A r \in Retrievals : r \in Callers /\ r # Indexer
  BY CanonTypes DEF IInv
<1>2. \A r \in Retrievals : calls'[r] = calls[r]
  BY <1>1, SharedTypes DEF PassFrame, Calls1, CallBegins, CallEnds
<1>3. ConfigsStay /\ ChunksGoOn
  BY DEF PassFrame, ConfigsStay, ChunksGoOn, provision
<1>4. IndexTyped' /\ RequestsTyped'
  BY TypeParts DEF IInv, PassFrame, IndexTyped, RequestsTyped
<1>5. \A o \in Ops : OpSound(o)'
  BY DEF IInv, CanonSound, PassFrame, OpSound
<1> QED BY <1>2, <1>3, <1>4, <1>5 DEF PassFrame

LEMMA EndedPass ==
    /\ NoPass.at = "idle" /\ NoPass.provider = None /\ NoPass.row = None
    /\ NoPass = [at |-> NoPass.at, provider |-> NoPass.provider, rows |-> NoPass.rows,
                 row |-> NoPass.row]
    /\ DOMAIN NoPass.rows = {}
BY DEF NoPass

LEMMA GoesToGet ==
    ASSUME NEW x \in RetrievalStates, NEW conf \in Vectors,
           NEW y, y = [[x EXCEPT !.at = "gets"] EXCEPT !.indexed = conf]
    PROVE  /\ y.at = "gets" /\ y.indexed = conf /\ y.wanted = x.wanted
           /\ y \in RetrievalStates
BY DEF RetrievalStates

LEMMA PassEndsKeeps ==
    ASSUME IInv, PassFrame, NEW conf \in Vectors, NEW fine \in BOOLEAN, PassEnds(conf, fine),
           queue # <<>>,
           \A r \in Retrievals : fine /\ conf # None /\ r = Head(queue) =>
              /\ meta' = conf /\ Ready /\ providers[service].config = conf
              /\ \A k \in retrieval[r].wanted \cap Present : vector'[k] # None
    PROVE  IInv'
<1> USE DEF IInv, CanonSound
<1>1. /\ SharedTypeOK /\ queue \in Seq(Users) /\ Indexer \in Callers
      /\ \A r \in Retrievals : /\ r \in Callers /\ r # Indexer
                               /\ retrieval[r] \in RetrievalStates
  BY CanonTypes
<1>2. /\ pass' = NoPass /\ queue' = Tail(queue)
      /\ get' = [g \in Callers |-> IF g = Indexer THEN NoGet
                                   ELSE IF fine /\ g = Head(queue) THEN Asked ELSE get[g]]
  BY DEF PassEnds
<1>3. \A r \in Retrievals : /\ r # Head(queue) => retrieval'[r] = retrieval[r]
                            /\ r = Head(queue) /\ fine =>
                                  retrieval'[r] = [[retrieval[r] EXCEPT !.at = "gets"]
                                                      EXCEPT !.indexed = conf]
                            /\ r = Head(queue) /\ ~fine => retrieval'[r] = NoRetrieval
  BY DEF PassEnds
<1>4. retrieval' = [r \in Retrievals |-> retrieval'[r]]
  BY DEF PassEnds
<1>5. SharedTypeOK' /\ SharedSound'
  <2>1. \A g \in Callers : get'[g] \in {get[g], NoGet, Asked}
    BY <1>2
  <2>2. \A g \in Callers : \/ calls'[g] \in {calls[g], None}
                           \/ calls'[g] \in Providers /\ Usable(calls'[g])
    BY <1>1, SharedTypes DEF PassFrame, Calls1, CallBegins, CallEnds, Usable
  <2>3. get' = [g \in Callers |-> get'[g]] /\ calls' = [g \in Callers |-> calls'[g]]
    BY <1>1, <1>2, SharedTypes DEF PassFrame, Calls1, CallBegins, CallEnds
  <2>4. Borrows /\ config' \in Configurations /\ (Fails \/ UNCHANGED failures)
    BY <1>1, <2>1, <2>2, SharedTypes DEF PassFrame, Borrows
  <2> QED BY <1>1, <2>3, <2>4, BorrowersStep
<1>6. PassShape' /\ PassSound' /\ PassTyped'
  BY <1>1, <1>2, EndedPass DEF PassShape, PassSound, PassTyped, NoGet, PassComplete, Pending
<1>7. queue' \in Seq(Users)
  BY <1>1, <1>2
<1>8. ASSUME NEW r \in Retrievals
      PROVE  RetrievalSound(r)' /\ FoundSound(r)' /\ retrieval'[r] \in RetrievalStates
  <2>1. RetrievalSound(r) /\ FoundSound(r) /\ QueueSound(r)
    BY DEF RetrievalSound
  <2>2. QueueSound(r)' /\ (r = Head(queue) => retrieval[r].at = "waits")
    BY <1>1, <1>2, <1>3, <2>1, QueueShrinks
  <2>3. CASE r # Head(queue)
    <3>1. retrieval'[r] = retrieval[r] /\ get'[r] = get[r] /\ calls'[r] = calls[r]
      BY <1>1, <1>2, <1>3, <2>3, FrameFacts
    <3>2. Waiting(r)
      BY <3>1 DEF Waiting, PassFrame
    <3> QED BY <1>1, <2>1, <2>2, <3>1, <3>2, FrameFacts, RetrievalStays
  <2>4. CASE r = Head(queue) /\ ~fine
    <3>1. retrieval'[r] = NoRetrieval /\ get'[r] = get[r] /\ get[r].phase = "idle"
      BY <1>1, <1>2, <1>3, <2>1, <2>2, <2>4 DEF RetrievalSound
    <3>2. NoRetrieval \in RetrievalStates
      BY DEF NoRetrieval, RetrievalStates, Vectors
    <3> QED BY <2>2, <3>1, <3>2 DEF RetrievalSound, FoundSound, NoRetrieval
  <2>5. CASE r = Head(queue) /\ fine
    <3>1. /\ retrieval'[r].at = "gets" /\ retrieval'[r].indexed = conf
          /\ retrieval'[r].wanted = retrieval[r].wanted
          /\ retrieval'[r] \in RetrievalStates
      <4> DEFINE s == retrieval[r]
                 y == [[s EXCEPT !.at = "gets"] EXCEPT !.indexed = conf]
      <4>1. s \in RetrievalStates /\ conf \in Vectors
        BY <1>1
      <4>2. retrieval'[r] = y
        BY <1>3, <2>5
      <4> HIDE DEF s
      <4>3. y.at = "gets" /\ y.indexed = conf /\ y.wanted = s.wanted /\ y \in RetrievalStates
        BY <4>1, GoesToGet
      <4> HIDE DEF y
      <4> QED BY <4>2, <4>3 DEF s
    <3>2. /\ get'[r].phase = "waits"
          /\ get'[r].awaits # None => get'[r].awaits = resetting
      BY <1>1, <1>2, <2>5, SharedTypes, AskedTyped
    <3>3. ASSUME conf # None PROVE Expects(r, conf, Complete(retrieval[r].wanted))'
      <4>1. /\ meta' = conf /\ Ready' /\ providers'[service'].config = conf
            /\ \A k \in retrieval'[r].wanted \cap Present' : vector'[k] # None
        BY <2>5, <3>1, <3>3 DEF PassFrame, provision, Ready, Present
      <4> QED BY <4>1 DEF Expects, InUse, ConfigOf, Ready, Complete
    <3>4. \A k \in retrieval'[r].wanted : chunk'[k] # "new"
      BY <2>1, <3>1 DEF RetrievalSound, PassFrame
    <3> QED BY <2>2, <3>1, <3>2, <3>3, <3>4 DEF RetrievalSound, FoundSound
  <2> QED BY <2>3, <2>4, <2>5
<1>9. RetrievalsTyped'
  BY <1>4, <1>8 DEF RetrievalsTyped
<1>10. TypeOK'
  BY <1>5, <1>6, <1>7, <1>9, FrameFacts, TypePartsNext
<1> QED BY <1>5, <1>6, <1>8, <1>10, FrameFacts DEF PassFrame

\* A pass that goes on.
LEMMA PassGoesKeeps ==
    ASSUME IInv, PassFrame, UNCHANGED <<queue, retrieval>>,
           NEW x \in {NoGet, Asked}, get' = [get EXCEPT ![Indexer] = x],
           PassShape', PassSound', PassTyped'
    PROVE  IInv'
<1> USE DEF IInv, CanonSound
<1>1. /\ SharedTypeOK /\ queue \in Seq(Users) /\ Indexer \in Callers
      /\ \A r \in Retrievals : /\ r \in Callers /\ r # Indexer
                               /\ retrieval[r] \in RetrievalStates
  BY CanonTypes
<1>2. SharedTypeOK' /\ SharedSound'
  <2>1. UNCHANGED get \/ Asks1(Indexer)
    BY DEF Asks1
  <2>2. UNCHANGED <<provision, reset>> /\ config' \in Configurations
    BY <1>1, SharedTypes DEF PassFrame
  <2> QED BY <1>1, <2>1, <2>2, BorrowerStep DEF PassFrame
<1>3. ASSUME NEW r \in Retrievals PROVE RetrievalSound(r)' /\ FoundSound(r)'
  <2>1. RetrievalSound(r) /\ FoundSound(r) /\ QueueSound(r)'
    BY DEF RetrievalSound, QueueSound
  <2>2. get'[r] = get[r] /\ calls'[r] = calls[r]
    BY <1>1, SharedTypes, FrameFacts
  <2>3. Waiting(r)
    BY <2>2 DEF Waiting, PassFrame
  <2> QED BY <1>1, <2>1, <2>3, FrameFacts, RetrievalStays
<1>4. TypeOK'
  BY <1>1, <1>2, FrameFacts, TypeParts, TypePartsNext DEF RetrievalsTyped
<1> QED BY <1>2, <1>3, <1>4, FrameFacts DEF PassFrame

\* What a step that takes a row leaves alone, and what it does with the index.
RowFrame ==
    /\ UNCHANGED <<config, provision, reset, failures, chunk, op, changes, life>>
    /\ IndexGoesOn /\ OneSpace' /\ vector' \in [Chunks -> Vectors] /\ meta' \in Vectors

LEMMA TakesRowKeeps ==
    ASSUME IInv, RowFrame, queue # <<>>, NEW p \in Providers, providers[p].life # "none",
           InUse(ConfigOf(p)), meta' = ConfigOf(p),
           NEW rows, DOMAIN rows \subseteq Chunks,
           \A k \in DOMAIN rows : rows[k] \in {None, ConfigOf(p)},
           \A r \in Retrievals : r = Head(queue) =>
              \A k \in (retrieval[r].wanted \ DOMAIN rows) \cap Present : vector'[k] # None,
           TakesRow(p, rows)
    PROVE  IInv'
<1> DEFINE conf == ConfigOf(p)
<1>1. /\ SharedTypeOK /\ SharedSound /\ Indexer \in Callers /\ conf # None /\ conf \in Vectors
      /\ Ready /\ providers[service].config = conf /\ p # None
      /\ \A r \in Retrievals : retrieval[r].wanted \in SUBSET Chunks
  <2>1. SharedTypeOK /\ SharedSound /\ Indexer \in Callers /\ p # None
    BY CanonTypes, NamesDiffer DEF IInv
  <2>2. conf = providers[p].config
    BY <2>1 DEF ConfigOf
  <2>3. conf \in Vectors /\ conf # None
    BY <2>1, <2>2, SharedTypes, ProviderFacts DEF ProviderStates, Vectors
  <2> QED BY <2>1, <2>2, <2>3, InUseIs, CanonTypes DEF IInv
<1>2. /\ providers' = providers /\ service' = service /\ resetting' = resetting
      /\ Ready' /\ providers'[p].life # "none" /\ ConfigOf(p)' = conf /\ InUse(conf)'
      /\ Present' = Present
  BY <1>1 DEF RowFrame, provision, Ready, ConfigOf, InUse, Present
<1>3. UNCHANGED calls \/ Calls1(Indexer) => PassFrame
  BY DEF RowFrame, PassFrame
<1>4. CASE DOMAIN rows = {}
  <2>1. PassEnds(conf, TRUE) /\ UNCHANGED calls
    BY <1>4 DEF TakesRow
  <2>2. PassFrame
    BY <1>3, <2>1
  <2>3. \A r \in Retrievals : r = Head(queue) =>
           \A k \in retrieval[r].wanted \cap Present : vector'[k] # None
    BY <1>4
  <2> HIDE DEF conf
  <2> QED BY <1>1, <2>1, <2>2, <2>3, PassEndsKeeps DEF conf
<1>5. CASE DOMAIN rows # {}
  <2>1. PICK k \in DOMAIN rows :
          \/ /\ rows[k] # None /\ UNCHANGED calls
             /\ PassGets([at |-> "checks", provider |-> p, rows |-> rows, row |-> k])
          \/ /\ CallBegins(Indexer, p)
             /\ pass' = [at |-> "embeds", provider |-> p, rows |-> rows, row |-> k]
             /\ get' = [get EXCEPT ![Indexer] = NoGet]
             /\ UNCHANGED <<queue, retrieval>>
          \/ PassFails /\ UNCHANGED calls
    BY <1>5 DEF TakesRow
  <2>2. ASSUME NEW at \in {"embeds", "checks"}, UNCHANGED <<queue, retrieval>>,
               pass' = [at |-> at, provider |-> p, rows |-> rows, row |-> k]
        PROVE  /\ PassShape' /\ PassTyped' /\ PassComplete'
               /\ pass'.at = at /\ pass'.provider = p /\ pass'.row \in DOMAIN pass'.rows
               /\ \A j \in DOMAIN pass'.rows : pass'.rows[j] \in {None, conf}
    <3>1. pass'.at = at /\ pass'.provider = p /\ pass'.rows = rows /\ pass'.row = k
      BY <2>2
    <3>2. PassShape'
      BY <2>2, <3>1 DEF PassShape
    <3>3. PassTyped'
      BY <1>1, <3>1 DEF PassTyped, Vectors
    <3>4. PassComplete'
      BY <1>2, <2>2, <3>1 DEF PassComplete, Complete, Pending
    <3> QED BY <3>1, <3>2, <3>3, <3>4
  <2>3. CASE /\ rows[k] # None /\ UNCHANGED calls
             /\ PassGets([at |-> "checks", provider |-> p, rows |-> rows, row |-> k])
    <3>1. /\ pass' = [at |-> "checks", provider |-> p, rows |-> rows, row |-> k]
          /\ get' = [get EXCEPT ![Indexer] = Asked] /\ UNCHANGED <<queue, retrieval, calls>>
      BY <2>3 DEF PassGets
    <3>2. /\ PassShape' /\ PassTyped' /\ PassComplete' /\ PassFrame
          /\ pass'.at = "checks" /\ pass'.provider = p /\ pass'.row \in DOMAIN pass'.rows
          /\ \A j \in DOMAIN pass'.rows : pass'.rows[j] \in {None, conf}
      BY <1>3, <2>2, <3>1
    <3>3. get'[Indexer] = Asked /\ Asked.phase = "waits"
      BY <1>1, <3>1, SharedTypes, AskedTyped
    <3>4. Expects(Indexer, conf, PassComplete)'
      BY <1>2, <3>2 DEF Expects
    <3>5. PassSound'
      BY <1>1, <1>2, <3>1, <3>2, <3>3, <3>4 DEF PassSound, Pending
    <3> HIDE DEF conf
    <3> QED BY <3>1, <3>2, <3>5, PassGoesKeeps
  <2>4. CASE /\ CallBegins(Indexer, p)
             /\ pass' = [at |-> "embeds", provider |-> p, rows |-> rows, row |-> k]
             /\ get' = [get EXCEPT ![Indexer] = NoGet]
             /\ UNCHANGED <<queue, retrieval>>
    <3>1. Calls1(Indexer) /\ calls'[Indexer] = p
      BY <1>1, <2>4, SharedTypes DEF Calls1, CallBegins
    <3>2. /\ PassShape' /\ PassTyped' /\ PassComplete' /\ PassFrame
          /\ pass'.at = "embeds" /\ pass'.provider = p /\ pass'.row \in DOMAIN pass'.rows
          /\ \A j \in DOMAIN pass'.rows : pass'.rows[j] \in {None, conf}
      BY <1>3, <2>2, <2>4, <3>1
    <3>3. get'[Indexer].phase = "idle"
      BY <1>1, <2>4, SharedTypes DEF NoGet
    <3>4. PassSound'
      BY <1>1, <1>2, <2>4, <3>1, <3>2, <3>3 DEF PassSound, Pending
    <3> QED BY <2>4, <3>2, <3>4, PassGoesKeeps
  <2>5. CASE PassFails /\ UNCHANGED calls
    <3>1. PassFrame /\ PassEnds(None, FALSE) /\ None \in Vectors
      BY <1>3, <2>5 DEF PassFails, Vectors
    <3> QED BY <3>1, PassEndsKeeps
  <2> QED BY <2>1, <2>3, <2>4, <2>5
<1> QED BY <1>4, <1>5

\* A step of the pass that leaves the index alone.
LEMMA IdleFrame ==
    ASSUME IInv, UNCHANGED <<config, provision, reset, index, op, changes, life>>,
           Fails \/ UNCHANGED failures, UNCHANGED calls \/ Calls1(Indexer)
    PROVE  PassFrame
BY CanonTypes DEF IInv, CanonSound, PassFrame, IndexGoesOn, OneSpace, index

LEMMA PassFailsKeeps ==
    ASSUME IInv, PassFrame, queue # <<>>, PassFails
    PROVE  IInv'
<1>1. PassEnds(None, FALSE) /\ None \in Vectors
  BY DEF PassFails, Vectors
<1> QED BY <1>1, PassEndsKeeps

LEMMA PassStartsKeeps == ASSUME IInv, PassStarts PROVE IInv'
<1>1. /\ pass.at = "idle" /\ queue # <<>>
      /\ UNCHANGED <<config, provision, calls, reset, failures, index, op, changes, life>>
  BY DEF PassStarts
<1>2. PassFrame
  BY <1>1, IdleFrame
<1>3. CASE IsOpen
  <2>1. PassGets([NoPass EXCEPT !.at = "gets"])
    BY <1>3 DEF PassStarts
  <2>2. /\ get' = [get EXCEPT ![Indexer] = Asked] /\ UNCHANGED <<queue, retrieval>>
        /\ pass' = [at |-> "gets", provider |-> None, rows |-> NoPass.rows, row |-> None]
    BY <2>1, EndedPass DEF PassGets, NoPass
  <2>3. PassShape' /\ PassTyped'
    BY <2>2, EndedPass DEF PassShape, PassTyped
  <2>4. get'[Indexer].phase = "waits"
    BY <2>2, CanonTypes, SharedTypes, AskedTyped DEF IInv
  <2>5. PassSound'
    BY <1>1, <2>2, <2>4 DEF PassSound
  <2> QED BY <1>2, <2>2, <2>3, <2>5, PassGoesKeeps
<1>4. CASE ~IsOpen
  <2>1. PassFails
    BY <1>4 DEF PassStarts
  <2> QED BY <1>1, <1>2, <2>1, PassFailsKeeps
<1> QED BY <1>3, <1>4

LEMMA PassThrowsKeeps == ASSUME IInv, PassThrows PROVE IInv'
<1>1. /\ UNCHANGED <<config, provision, reset, index, op, changes, life>> /\ PassFails
  BY DEF PassThrows
<1>2. queue # <<>>
  BY DEF PassThrows, IInv, CanonSound, PassSound, Gets
<1>3. (Fails \/ UNCHANGED failures) /\ (UNCHANGED calls \/ Calls1(Indexer))
  BY DEF PassThrows, Calls1
<1> QED BY <1>1, <1>2, <1>3, IdleFrame, PassFailsKeeps

\* The reading of the chunks brings the index to the configuration in use.
LEMMA EnsuredFrame ==
    ASSUME IInv, Ready, Ensured(ConfigOf(service)), UNCHANGED chunk
    PROVE  /\ IndexGoesOn /\ OneSpace' /\ vector' \in [Chunks -> Vectors] /\ meta' \in Vectors
           /\ meta' = ConfigOf(service) /\ \A k \in Chunks : vector'[k] \in {None, meta'}
<1> DEFINE conf == ConfigOf(service)
<1>1. /\ SharedTypeOK /\ SharedSound /\ vector \in [Chunks -> Vectors] /\ OneSpace
      /\ conf = providers[service].config /\ service \in Providers
  BY CanonTypes, ProviderFacts DEF IInv, CanonSound, Ready, ConfigOf
<1>2. conf \in Vectors
  BY <1>1, SharedTypes DEF ProviderStates, Vectors
<1>3. meta' = conf /\ vector' = IF meta = conf THEN vector ELSE [k \in Chunks |-> None]
  BY DEF Ensured
<1> HIDE DEF conf
<1>4. vector' \in [Chunks -> Vectors] /\ \A k \in Chunks : vector'[k] \in {None, meta'}
  BY <1>1, <1>3 DEF OneSpace, Vectors
<1>5. IndexGoesOn
  BY <1>1, <1>3 DEF IndexGoesOn
<1> QED BY <1>2, <1>3, <1>4, <1>5 DEF OneSpace, conf

LEMMA PassReadsKeeps == ASSUME IInv, PassReads PROVE IInv'
<1> DEFINE p == get[Indexer].provider
           rows == [k \in Present |-> vector'[k]]
<1>1. /\ pass.at = "gets" /\ get[Indexer].phase = "got" /\ queue # <<>>
      /\ UNCHANGED <<config, provision, reset, failures, chunk, op, changes, life>>
  BY DEF PassReads, Gets, IInv, CanonSound, PassSound
<1>2. CASE ~IsOpen \/ p = None
  <2>1. PassEnds(None, IsOpen) /\ UNCHANGED <<calls, vector, meta>>
    BY <1>2 DEF PassReads
  <2>2. PassFrame
    BY <1>1, <2>1, IdleFrame DEF index
  <2>3. None \in Vectors /\ IsOpen \in BOOLEAN
    BY DEF Vectors, IsOpen
  <2> QED BY <1>1, <2>1, <2>2, <2>3, PassEndsKeeps
<1>3. CASE IsOpen /\ p # None
  <2>1. Ensured(ConfigOf(p)) /\ TakesRow(p, rows)
    BY <1>3 DEF PassReads
  <2>2. p = service /\ Ready /\ p \in Providers /\ providers[p].life # "none"
    BY <1>1, <1>3, CanonTypes, ProviderFacts DEF IInv, Ready
  <2>3. /\ IndexGoesOn /\ OneSpace' /\ vector' \in [Chunks -> Vectors] /\ meta' \in Vectors
        /\ meta' = ConfigOf(p) /\ \A k \in Chunks : vector'[k] \in {None, ConfigOf(p)}
    BY <1>1, <2>1, <2>2, EnsuredFrame
  <2>4. RowFrame
    BY <1>1, <2>3 DEF RowFrame
  <2>5. DOMAIN rows \subseteq Chunks /\ \A k \in DOMAIN rows : rows[k] \in {None, ConfigOf(p)}
    BY <2>3 DEF Present
  <2>6. DOMAIN rows = Present
    OBVIOUS
  <2>7. InUse(ConfigOf(p))
    BY <2>2 DEF InUse, Ready
  <2> HIDE DEF p, rows
  <2> QED BY <1>1, <2>1, <2>2, <2>3, <2>4, <2>5, <2>6, <2>7, TakesRowKeeps
<1> QED BY <1>2, <1>3

LEMMA PassEmbedsKeeps == ASSUME IInv, PassEmbeds PROVE IInv'
<1> DEFINE p == pass.provider
           conf == ConfigOf(p)
<1>1. /\ pass.at = "embeds" /\ queue # <<>> /\ CallEnds(Indexer)
      /\ UNCHANGED <<config, provision, reset, failures, index, op, changes, life>>
      /\ calls[Indexer] = p /\ p # None /\ meta = conf /\ PassComplete /\ PassShape /\ PassTyped
      /\ providers[p].life # "none" /\ pass.row \in Pending
      /\ \A k \in Pending : pass.rows[k] \in {None, conf}
      /\ Indexer \in Callers /\ SharedTypeOK /\ SharedSound
  BY CanonTypes, TypeParts DEF PassEmbeds, IInv, CanonSound, PassSound
<1>2. PassFrame
  BY <1>1, IdleFrame DEF Calls1
<1>3. CASE IsOpen
  <2>1. PassGets([pass EXCEPT !.at = "checks"])
    BY <1>3 DEF PassEmbeds
  <2>2. /\ get' = [get EXCEPT ![Indexer] = Asked] /\ UNCHANGED <<queue, retrieval>>
        /\ pass' = [at |-> "checks", provider |-> p, rows |-> pass.rows, row |-> pass.row]
    BY <1>1, <2>1 DEF PassGets, PassShape
  <2>3. /\ pass'.at = "checks" /\ pass'.provider = p /\ pass'.rows = pass.rows
        /\ pass'.row = pass.row /\ PassShape'
    BY <2>2 DEF PassShape
  <2>4. PassTyped'
    BY <1>1, <2>3 DEF PassTyped
  <2>5. get'[Indexer].phase = "waits"
    BY <1>1, <2>2, SharedTypes, AskedTyped
  <2>6. service = p /\ Ready
    BY <1>1, ProviderFacts
  <2>7. InUse(conf)' /\ ConfigOf(p)' = conf /\ meta' = conf
    <3>1. /\ providers' = providers /\ service' = service /\ service' = p /\ meta' = meta
      BY <1>1, <2>6 DEF provision, index
    <3>2. ConfigOf(p)' = conf
      BY <2>3, <3>1 DEF ConfigOf
    <3>3. InUse(ConfigOf(p))'
      BY <1>1, <2>3, <2>6, <3>1 DEF InUse, ConfigOf, Ready
    <3> QED BY <1>1, <3>1, <3>2, <3>3
  <2>8. PassComplete'
    BY <1>1, <2>2, <2>3 DEF PassComplete, Complete, Pending, Present, index
  <2>9. Expects(Indexer, conf, PassComplete)'
    BY <2>7, <2>8 DEF Expects
  <2>10. PassSound'
    BY <1>1, <2>2, <2>3, <2>5, <2>7, <2>9 DEF PassSound, Pending, provision
  <2> QED BY <1>2, <2>2, <2>3, <2>4, <2>10, PassGoesKeeps
<1>4. CASE ~IsOpen
  <2>1. PassFails
    BY <1>4 DEF PassEmbeds
  <2> QED BY <1>1, <1>2, <2>1, PassFailsKeeps
<1> QED BY <1>3, <1>4

LEMMA PassWritesKeeps == ASSUME IInv, PassWrites PROVE IInv'
<1> DEFINE p == pass.provider
           q == get[Indexer].provider
           conf == ConfigOf(p)
           k == pass.row
           rows == [j \in DOMAIN pass.rows \ {k} |-> pass.rows[j]]
<1>1. /\ pass.at = "checks" /\ get[Indexer].phase = "got" /\ queue # <<>>
      /\ UNCHANGED <<config, provision, reset, failures, chunk, meta, op, changes, life>>
      /\ p \in Providers /\ p # None /\ providers[p].life # "none" /\ k \in Pending
      /\ \A j \in Pending : pass.rows[j] \in {None, conf}
      /\ Expects(Indexer, conf, PassComplete)
  BY CanonTypes DEF PassWrites, Gets, IInv, CanonSound, PassSound
<1>2. /\ SharedTypeOK /\ SharedSound /\ Indexer \in Callers /\ OneSpace
      /\ vector \in [Chunks -> Vectors] /\ meta \in Vectors /\ Pending \subseteq Chunks
  BY CanonTypes, TypeParts DEF IInv, CanonSound, PassTyped, Pending
<1>3. CASE ~(IsOpen /\ SameProvider(Indexer, p))
  <2>1. PassFails /\ UNCHANGED <<calls, vector>>
    BY <1>3 DEF PassWrites
  <2>2. PassFrame
    BY <1>1, <2>1, IdleFrame DEF index
  <2> QED BY <1>1, <2>1, <2>2, PassFailsKeeps
<1>4. CASE IsOpen /\ SameProvider(Indexer, p)
  <2>1. /\ vector' = IF k \notin Present THEN vector
                     ELSE [vector EXCEPT ![k] = IF pass.rows[k] = None THEN conf
                                                ELSE pass.rows[k]]
        /\ TakesRow(p, rows)
    BY <1>4 DEF PassWrites, Writes
  <2>2. conf = providers[p].config /\ conf # None /\ conf \in Vectors
    BY <1>1, <1>2, ProviderFacts, SharedTypes DEF ConfigOf, ProviderStates, Vectors
  <2>3. q # None /\ q = service /\ Ready /\ ConfigOf(service) = conf
    BY <1>1, <1>2, <1>4, <2>2, ProviderFacts DEF SameProvider, ConfigOf
  <2>4. meta = conf /\ PassComplete
    BY <1>1, <2>3 DEF Expects, Doomed, InUse
  <2>5. vector' = IF k \notin Present THEN vector ELSE [vector EXCEPT ![k] = conf]
    BY <1>1, <2>1 DEF Pending
  <2>6. /\ k \in Chunks /\ meta' = conf /\ vector' \in [Chunks -> Vectors]
        /\ \A j \in Chunks : /\ vector'[j] = vector[j] \/ vector'[j] = conf
                             /\ j = k /\ j \in Present => vector'[j] = conf
    <3> HIDE DEF conf, k
    <3> QED BY <1>1, <1>2, <2>2, <2>4, <2>5
  <2>7. RowFrame
    <3>1. OneSpace'
      BY <1>2, <2>4, <2>6 DEF OneSpace
    <3>2. IndexGoesOn
      BY <1>1, <2>2, <2>6 DEF IndexGoesOn
    <3> QED BY <1>1, <1>2, <2>6, <3>1, <3>2 DEF RowFrame
  <2>8. /\ DOMAIN rows \subseteq Chunks /\ DOMAIN rows = Pending \ {k}
        /\ \A j \in DOMAIN rows : rows[j] \in {None, conf}
    BY <1>1, <1>2 DEF Pending
  <2>9. ASSUME NEW r \in Retrievals, r = Head(queue),
               NEW j \in (retrieval[r].wanted \ DOMAIN rows) \cap Present
        PROVE  vector'[j] # None
    <3>1. j \in Chunks
      BY DEF Present
    <3>2. CASE j = k
      BY <2>2, <2>6, <3>1, <3>2
    <3>3. CASE j # k
      <4>1. vector[j] # None
        BY <2>4, <2>8, <2>9, <3>3 DEF PassComplete, Complete
      <4> QED BY <2>2, <2>6, <3>1, <4>1
    <3> QED BY <3>2, <3>3
  <2>10. InUse(conf)
    BY <2>3 DEF InUse, Ready
  <2> HIDE DEF rows, k
  <2> QED BY <1>1, <2>1, <2>4, <2>6, <2>7, <2>8, <2>9, <2>10, TakesRowKeeps
<1> QED BY <1>3, <1>4

LEMMA PassStepKeeps == ASSUME IInv, PassStep PROVE IInv'
BY PassStartsKeeps, PassReadsKeeps, PassEmbedsKeeps, PassWritesKeeps, PassThrowsKeeps
   DEF PassStep

-----------------------------------------------------------------------------
(* Steps of a retrieval *)

\* What a step of a retrieval whose pass is over leaves alone.
SearchFrame(r) ==
    /\ retrieval[r].at # "waits"
    /\ UNCHANGED <<config, provision, reset, chunk, queue, pass, op, changes, life>>
    /\ Fails \/ UNCHANGED failures
    /\ UNCHANGED calls \/ Calls1(r) \/ calls' = [calls EXCEPT ![r] = None]
    /\ UNCHANGED get \/ Asks1(r)
    /\ IndexGoesOn /\ OneSpace' /\ vector' \in [Chunks -> Vectors] /\ meta' \in Vectors

LEMMA RetrievalMoves ==
    ASSUME IInv, NEW r \in Retrievals, SearchFrame(r),
           NEW x \in RetrievalStates, retrieval' = [retrieval EXCEPT ![r] = x],
           QueueSound(r)' => RetrievalSound(r)', FoundSound(r)'
    PROVE  IInv'
<1> USE DEF IInv, CanonSound
<1>1. /\ SharedTypeOK /\ SharedSound /\ queue \in Seq(Users) /\ Indexer \in Callers /\ r # Indexer
      /\ retrieval \in [Retrievals -> RetrievalStates] /\ r \in Callers
      /\ \A s \in Retrievals : /\ s \in Callers /\ s # Indexer /\ retrieval[s] \in RetrievalStates
                               /\ retrieval[s].wanted \in SUBSET Chunks
                               /\ RetrievalSound(s) /\ FoundSound(s) /\ QueueSound(s)
      /\ pass.provider \in Providers \cup {None}
  BY CanonTypes DEF RetrievalSound
<1>2. /\ UNCHANGED <<config, provision, reset, chunk, queue, pass, op, changes, life>>
      /\ IndexGoesOn
  BY DEF SearchFrame
<1>3. retrieval'[r] = x /\ \A s \in Retrievals : s # r => retrieval'[s] = retrieval[s]
  BY <1>1
<1>4. \A i \in 1..Len(queue) : queue[i] # r
  BY <1>1 DEF QueueSound, SearchFrame
<1>5. SharedTypeOK' /\ SharedSound'
  <2>1. config' \in Configurations /\ UNCHANGED <<provision, reset>>
    BY <1>1, <1>2, SharedTypes
  <2> QED BY <1>1, <2>1, BorrowerStep DEF SearchFrame
<1>6. ConfigsStay /\ ChunksGoOn
  BY <1>2 DEF ConfigsStay, ChunksGoOn, provision
<1>7. ASSUME NEW g \in Callers, g # r PROVE Waiting(g)
  <2>1. get'[g] = get[g]
    BY <1>1, <1>7, SharedTypes DEF SearchFrame, Asks1
  <2>2. calls'[g] = calls[g]
    BY <1>1, <1>7, SharedTypes DEF SearchFrame, Calls1, CallBegins, CallEnds
  <2> QED BY <1>2, <2>1, <2>2 DEF Waiting
<1>8. PassShape' /\ PassSound'
  <2>1. pass.at # "idle" => queue' # <<>> /\ Head(queue') = Head(queue)
    BY <1>2 DEF PassSound
  <2>2. queue # <<>> => Head(queue) # r
    <3>1. queue # <<>> => 1 \in 1..Len(queue) /\ Head(queue) = queue[1]
      BY <1>1
    <3> QED BY <1>4, <3>1
  <2>3. \A s \in Retrievals : queue # <<>> /\ s = Head(queue) =>
           retrieval'[s].wanted = retrieval[s].wanted
    BY <1>3, <2>2
  <2> QED BY <1>1, <1>2, <1>6, <1>7, <2>1, <2>3, PassStays
<1>9. ASSUME NEW s \in Retrievals PROVE RetrievalSound(s)' /\ FoundSound(s)'
  <2>1. CASE s # r
    <3>1. retrieval'[s] = retrieval[s] /\ QueueSound(s)' /\ Waiting(s)
      BY <1>1, <1>2, <1>3, <1>7, <2>1 DEF QueueSound
    <3> QED BY <1>1, <1>2, <1>6, <3>1, RetrievalStays
  <2>2. CASE s = r
    BY <1>2, <1>4, <2>2 DEF QueueSound
  <2> QED BY <2>1, <2>2
<1>10. TypeOK'
  <2>1. IndexTyped' /\ RequestsTyped' /\ PassTyped' /\ queue' \in Seq(Users)
    BY <1>1, <1>2, TypeParts DEF SearchFrame, IndexTyped, RequestsTyped, PassTyped
  <2>2. RetrievalsTyped'
    BY <1>1 DEF RetrievalsTyped
  <2> QED BY <1>5, <2>1, <2>2, TypePartsNext
<1>11. (\A o \in Ops : OpSound(o)') /\ OneSpace'
  BY <1>2 DEF OpSound, SearchFrame
<1> QED BY <1>5, <1>8, <1>9, <1>10, <1>11

LEMMA SearchIdles ==
    ASSUME IInv, NEW r \in Retrievals, retrieval[r].at # "waits",
           UNCHANGED <<config, provision, reset, index, queue, pass, op, changes, life>>,
           Fails \/ UNCHANGED failures,
           UNCHANGED calls \/ Calls1(r) \/ calls' = [calls EXCEPT ![r] = None],
           UNCHANGED get \/ Asks1(r)
    PROVE  SearchFrame(r)
BY CanonTypes DEF IInv, CanonSound, SearchFrame, IndexGoesOn, OneSpace, index

LEMMA RetrievalLeaves ==
    ASSUME IInv, NEW r \in Retrievals, SearchFrame(r), Leaves(r), get'[r].phase = "idle"
    PROVE  IInv'
<1>1. NoRetrieval \in RetrievalStates /\ retrieval' = [retrieval EXCEPT ![r] = NoRetrieval]
  BY DEF NoRetrieval, RetrievalStates, Vectors, Leaves
<1>2. retrieval'[r] = NoRetrieval
  BY <1>1, CanonTypes DEF IInv
<1>3. QueueSound(r)' => RetrievalSound(r)'
  BY <1>2 DEF RetrievalSound, NoRetrieval
<1>4. FoundSound(r)'
  BY <1>2 DEF FoundSound, NoRetrieval
<1> QED BY <1>1, <1>3, <1>4, RetrievalMoves

\* What is known of a retrieval that has the provider.
LEMMA GotInUse ==
    ASSUME IInv, NEW r \in Retrievals, get[r].phase = "got", get[r].provider # None,
           NEW conf, NEW complete \in BOOLEAN, Expects(r, conf, complete),
           conf = ConfigOf(get[r].provider)
    PROVE  meta = conf /\ complete
<1>1. get[r].provider = service /\ Ready
  BY CanonTypes, ProviderFacts DEF IInv
<1> QED BY <1>1 DEF Expects, Doomed, InUse

LEMMA RetrievalEmbedsKeeps ==
    ASSUME IInv, NEW r \in Retrievals, RetrievalEmbeds(r) PROVE IInv'
<1> DEFINE p == get[r].provider
<1>1. /\ retrieval[r].at = "gets" /\ get[r].phase = "got" /\ get' = [get EXCEPT ![r] = NoGet]
      /\ UNCHANGED <<config, provision, reset, failures, chunk, queue, pass, op, changes, life>>
      /\ Asks1(r)
  BY DEF RetrievalEmbeds, Gets, Asks1
<1>2. /\ SharedTypeOK /\ SharedSound /\ r \in Callers /\ retrieval[r] \in RetrievalStates
      /\ retrieval \in [Retrievals -> RetrievalStates]
      /\ RetrievalSound(r) /\ get'[r].phase = "idle"
  BY <1>1, CanonTypes, SharedTypes DEF IInv, CanonSound, NoGet
<1>3. CASE ~IsOpen \/ p = None
  <2>1. Leaves(r) /\ UNCHANGED <<calls, vector, meta>>
    BY <1>3 DEF RetrievalEmbeds
  <2>2. SearchFrame(r)
    BY <1>1, <2>1, SearchIdles DEF index
  <2> QED BY <1>2, <2>1, <2>2, RetrievalLeaves
<1>4. CASE IsOpen /\ p # None
  <2>1. /\ Ensured(ConfigOf(p))
        /\ \/ /\ CallBegins(r, p)
              /\ retrieval' = [retrieval EXCEPT ![r].at = "embeds", ![r].provider = p]
           \/ Leaves(r) /\ UNCHANGED calls
    BY <1>4 DEF RetrievalEmbeds
  <2>2. /\ p = service /\ Ready /\ p \in Providers /\ providers[p].life # "none"
        /\ providers[p].config # None
    BY <1>1, <1>2, <1>4, ProviderFacts DEF Ready
  <2>3. /\ IndexGoesOn /\ OneSpace' /\ vector' \in [Chunks -> Vectors] /\ meta' \in Vectors
        /\ meta' = ConfigOf(p)
    BY <1>1, <2>1, <2>2, EnsuredFrame
  <2>4. UNCHANGED calls \/ Calls1(r) => SearchFrame(r)
    BY <1>1, <2>3 DEF SearchFrame
  <2>5. CASE Leaves(r) /\ UNCHANGED calls
    BY <1>2, <2>4, <2>5, RetrievalLeaves
  <2>6. CASE /\ CallBegins(r, p)
             /\ retrieval' = [retrieval EXCEPT ![r].at = "embeds", ![r].provider = p]
    <3> DEFINE s == retrieval[r]
               x == [[s EXCEPT !.at = "embeds"] EXCEPT !.provider = p]
    <3>1. retrieval' = [retrieval EXCEPT ![r] = x] /\ s \in RetrievalStates
      BY <1>2, <2>6
    <3>2. Calls1(r) /\ calls'[r] = p
      BY <1>2, <2>2, <2>6, SharedTypes DEF Calls1, CallBegins
    <3>3. ConfigOf(p) # None /\ p # None
      BY <1>4, <2>2 DEF ConfigOf
    <3>4. s.indexed = ConfigOf(p) => meta = ConfigOf(p) /\ Complete(s.wanted)
      <4>1. ASSUME s.indexed = ConfigOf(p)
            PROVE  /\ Expects(r, s.indexed, Complete(s.wanted))
                   /\ Complete(s.wanted) \in BOOLEAN
        BY <1>1, <1>2, <3>3, <4>1 DEF RetrievalSound, Complete
      <4> HIDE DEF s
      <4> QED BY <1>1, <3>3, <4>1, GotInUse
    <3>5. \A k \in s.wanted : chunk[k] # "new" /\ k \in Chunks
      BY <1>2 DEF RetrievalSound, RetrievalStates
    <3> HIDE DEF s
    <3>6. /\ x \in RetrievalStates /\ x.at = "embeds" /\ x.provider = p
          /\ x.wanted = s.wanted /\ x.indexed = s.indexed
      <4> HIDE DEF p
      <4> QED BY <2>2, <3>1 DEF RetrievalStates
    <3> HIDE DEF x
    <3>7. retrieval'[r] = x
      BY <1>2, <3>1
    <3>8. /\ ConfigOf(retrieval[r].provider)' = ConfigOf(p) /\ providers' = providers
          /\ Fresh(r)' => s.indexed = ConfigOf(p)
      BY <1>1, <3>6, <3>7 DEF Fresh, ConfigOf, provision
    <3>9. Fresh(r)' => Complete(retrieval[r].wanted)'
      <4>1. ASSUME Fresh(r)', NEW k \in retrieval'[r].wanted, chunk'[k] = "present"
            PROVE  vector'[k] # None
        <5>1. k \in s.wanted /\ chunk[k] = "present" /\ k \in Chunks
          BY <1>1, <3>5, <3>6, <3>7, <4>1
        <5>2. vector[k] # None /\ meta' = meta
          BY <2>3, <3>4, <3>8, <4>1, <5>1 DEF Complete, Present
        <5> QED BY <2>3, <5>1, <5>2 DEF IndexGoesOn
      <4> QED BY <4>1 DEF Complete, Present
    <3>10. QueueSound(r)' => RetrievalSound(r)'
      <4>1. \A k \in retrieval'[r].wanted : chunk'[k] # "new"
        BY <1>1, <3>5, <3>6, <3>7
      <4> QED BY <1>2, <2>2, <2>3, <3>2, <3>3, <3>6, <3>7, <3>8, <3>9, <4>1 DEF RetrievalSound
    <3>11. FoundSound(r)'
      BY <3>6, <3>7 DEF FoundSound
    <3> QED BY <2>4, <3>1, <3>2, <3>6, <3>10, <3>11, RetrievalMoves
  <2> QED BY <2>1, <2>5, <2>6
<1> QED BY <1>3, <1>4

LEMMA RetrievalChecksKeeps ==
    ASSUME IInv, NEW r \in Retrievals, RetrievalChecks(r) PROVE IInv'
<1> DEFINE s == retrieval[r]
           p == s.provider
           conf == ConfigOf(p)
<1>1. /\ s.at = "embeds" /\ CallEnds(r) /\ UNCHANGED failures
      /\ UNCHANGED <<config, provision, reset, index, queue, pass, op, changes, life>>
  BY DEF RetrievalChecks
<1>2. /\ SharedTypeOK /\ SharedSound /\ r \in Callers /\ s \in RetrievalStates
      /\ retrieval \in [Retrievals -> RetrievalStates] /\ RetrievalSound(r)
  BY CanonTypes DEF IInv, CanonSound
<1>3. UNCHANGED get \/ Asks1(r) => SearchFrame(r)
  BY <1>1, SearchIdles DEF Calls1
<1>4. /\ get[r].phase = "idle" /\ calls[r] = p /\ calls[r] # None /\ meta = conf
      /\ Fresh(r) => Complete(s.wanted)
      /\ p # None /\ providers[p].life # "none" /\ \A k \in s.wanted : chunk[k] # "new"
  BY <1>1, <1>2 DEF RetrievalSound, CallEnds
<1>5. CASE ~IsOpen
  <2>1. Leaves(r) /\ UNCHANGED get
    BY <1>5 DEF RetrievalChecks
  <2> QED BY <1>3, <1>4, <2>1, RetrievalLeaves
<1>6. CASE IsOpen
  <2> DEFINE x == [s EXCEPT !.at = "checks"]
  <2>1. retrieval' = [retrieval EXCEPT ![r] = x] /\ get' = [get EXCEPT ![r] = Asked]
    BY <1>6 DEF RetrievalChecks
  <2>2. /\ x \in RetrievalStates /\ x.at = "checks" /\ x.provider = p
        /\ x.wanted = s.wanted /\ x.indexed = s.indexed
    BY <1>2 DEF RetrievalStates
  <2>3. retrieval'[r] = x
    BY <1>2, <2>1
  <2> HIDE DEF x
  <2>4. get'[r].phase = "waits"
    BY <1>2, <2>1, SharedTypes, AskedTyped
  <2>5. service = p /\ Ready
    BY <1>2, <1>4, ProviderFacts
  <2>6. /\ providers' = providers /\ service' = service /\ meta' = meta /\ chunk' = chunk
        /\ vector' = vector
    BY <1>1 DEF provision, index
  <2>7. /\ retrieval'[r].provider = p /\ retrieval'[r].wanted = s.wanted
        /\ retrieval'[r].indexed = s.indexed /\ retrieval'[r].at = "checks"
    BY <2>2, <2>3
  <2>8. /\ ConfigOf(retrieval[r].provider)' = conf /\ Fresh(r)' = Fresh(r)
        /\ Complete(retrieval[r].wanted)' = Complete(s.wanted)
    BY <2>6, <2>7 DEF ConfigOf, Fresh, Complete, Present
  <2>9. InUse(ConfigOf(retrieval[r].provider))'
    BY <2>5, <2>6, <2>7 DEF InUse, ConfigOf, Ready
  <2>10. Expects(r, ConfigOf(retrieval[r].provider),
                 Fresh(r) => Complete(retrieval[r].wanted))'
    BY <1>4, <2>6, <2>8, <2>9 DEF Expects
  <2>11. QueueSound(r)' => RetrievalSound(r)'
    <3> HIDE DEF s
    <3> QED BY <1>4, <2>4, <2>6, <2>7, <2>10 DEF RetrievalSound
  <2>12. FoundSound(r)'
    BY <2>7 DEF FoundSound
  <2>13. SearchFrame(r)
    BY <1>3, <2>1 DEF Asks1
  <2> QED BY <2>1, <2>2, <2>11, <2>12, <2>13, RetrievalMoves
<1> QED BY <1>5, <1>6

LEMMA RetrievalSearchesKeeps ==
    ASSUME IInv, NEW r \in Retrievals, RetrievalSearches(r) PROVE IInv'
<1> DEFINE s == retrieval[r]
           p == s.provider
           q == get[r].provider
           conf == ConfigOf(p)
<1>1. /\ s.at = "checks" /\ get[r].phase = "got" /\ get' = [get EXCEPT ![r] = NoGet]
      /\ UNCHANGED <<config, provision, calls, reset, failures, chunk, queue, pass, op, changes,
                     life>>
      /\ Asks1(r)
  BY DEF RetrievalSearches, Gets, Asks1
<1>2. /\ SharedTypeOK /\ SharedSound /\ r \in Callers /\ s \in RetrievalStates
      /\ retrieval \in [Retrievals -> RetrievalStates] /\ RetrievalSound(r)
      /\ get'[r].phase = "idle" /\ vector \in [Chunks -> Vectors] /\ OneSpace
  BY <1>1, CanonTypes, SharedTypes DEF IInv, CanonSound, NoGet
<1>3. /\ p # None /\ p \in Providers /\ providers[p].life # "none"
      /\ Expects(r, conf, Fresh(r) => Complete(s.wanted))
      /\ \A k \in s.wanted : chunk[k] # "new"
  BY <1>1, <1>2 DEF RetrievalSound, RetrievalStates
<1>4. conf # None /\ conf \in Configurations
  <2>1. conf = providers[p].config
    BY <1>3 DEF ConfigOf
  <2>2. providers[p].config \in Configurations
    BY <1>2, <1>3 DEF SharedSound, ProviderSound
  <2> QED BY <2>1, <2>2, NamesDiffer
<1>5. CASE ~(IsOpen /\ ConfigOf(q) = conf)
  <2>1. Leaves(r) /\ UNCHANGED <<vector, meta>>
    BY <1>5 DEF RetrievalSearches
  <2>2. SearchFrame(r)
    BY <1>1, <2>1, SearchIdles DEF index
  <2> QED BY <1>2, <2>1, <2>2, RetrievalLeaves
<1>6. CASE IsOpen /\ ConfigOf(q) = conf
  <2> DEFINE x == [[[s EXCEPT !.at = "found"]
                      EXCEPT !.found = {k \in Present : vector'[k] # None}]
                      EXCEPT !.searched = {vector'[k] : k \in Chunks} \ {None}]
  <2>1. Ensured(conf) /\ retrieval' = [retrieval EXCEPT ![r] = x]
    BY <1>6 DEF RetrievalSearches, Found
  <2>2. q # None
    BY <1>4, <1>6 DEF ConfigOf
  <2>3. meta = conf /\ (Fresh(r) => Complete(s.wanted))
    <3> DEFINE c == Fresh(r) => Complete(s.wanted)
    <3>1. c \in BOOLEAN /\ Expects(r, conf, c)
      BY <1>3
    <3> HIDE DEF c, conf
    <3>2. meta = conf /\ c
      BY <1>1, <1>6, <2>2, <3>1, GotInUse
    <3> QED BY <3>2 DEF c
  <2>4. meta' = meta /\ vector' = vector
    BY <2>1, <2>3 DEF Ensured
  <2>5. {vector'[k] : k \in Chunks} \ {None} \subseteq {conf}
    BY <1>2, <2>3, <2>4 DEF OneSpace
  <2>6. {k \in Present : vector'[k] # None} \in SUBSET Chunks
    BY DEF Present
  <2>7. {vector'[k] : k \in Chunks} \ {None} \in SUBSET Configurations
    BY <1>4, <2>5
  <2>8. /\ x \in RetrievalStates /\ x.at = "found" /\ x.provider = p
        /\ x.wanted = s.wanted /\ x.indexed = s.indexed
        /\ x.found = {k \in Present : vector'[k] # None}
        /\ x.searched = {vector'[k] : k \in Chunks} \ {None}
    <3> DEFINE f == {k \in Present : vector'[k] # None}
               d == {vector'[k] : k \in Chunks} \ {None}
    <3>1. f \in SUBSET Chunks /\ d \in SUBSET Configurations /\ s \in RetrievalStates
      BY <1>2, <2>6, <2>7
    <3> HIDE DEF f, d, s
    <3> QED BY <3>1 DEF RetrievalStates, f, d
  <2>9. retrieval'[r] = x
    BY <1>2, <2>1
  <2> HIDE DEF x
  <2>10. /\ providers' = providers /\ chunk' = chunk
         /\ ConfigOf(retrieval[r].provider)' = conf /\ (Fresh(r)' => Fresh(r))
    BY <1>1, <2>8, <2>9 DEF provision, ConfigOf, Fresh
  <2>11. QueueSound(r)' => RetrievalSound(r)'
    <3>1. /\ retrieval'[r].at = "found" /\ retrieval'[r].provider = p
          /\ retrieval'[r].wanted = s.wanted
      BY <2>8, <2>9
    <3> HIDE DEF s
    <3> QED BY <1>2, <1>3, <2>10, <3>1 DEF RetrievalSound
  <2>12. FoundSound(r)'
    <3>1. retrieval'[r].searched \subseteq {conf}
      BY <2>5, <2>8, <2>9
    <3>2. Fresh(r)' => retrieval'[r].wanted \cap Present' \subseteq retrieval'[r].found
      BY <2>3, <2>4, <2>8, <2>9, <2>10 DEF Complete, Present
    <3> HIDE DEF conf
    <3> QED BY <2>10, <3>1, <3>2 DEF FoundSound
  <2>13. SearchFrame(r)
    BY <1>1, <2>4, SearchIdles DEF index
  <2> QED BY <2>1, <2>8, <2>11, <2>12, <2>13, RetrievalMoves
<1> QED BY <1>5, <1>6

LEMMA RetrievalThrowsKeeps ==
    ASSUME IInv, NEW r \in Retrievals, RetrievalThrows(r) PROVE IInv'
<1>1. /\ UNCHANGED <<config, provision, reset, index, queue, pass, op, changes, life>>
      /\ get' = [get EXCEPT ![r] = NoGet] /\ Asks1(r) /\ Leaves(r)
      /\ Fails \/ UNCHANGED failures
      /\ UNCHANGED calls \/ Calls1(r)
  BY DEF RetrievalThrows, Asks1, Calls1
<1>2. retrieval[r].at # "waits"
  BY DEF RetrievalThrows, Gets, IInv, CanonSound, RetrievalSound
<1>3. get'[r].phase = "idle"
  BY <1>1, CanonTypes, SharedTypes DEF IInv, NoGet
<1> QED BY <1>1, <1>2, <1>3, SearchIdles, RetrievalLeaves

LEMMA RetrievalReturnsKeeps ==
    ASSUME IInv, NEW r \in Retrievals, RetrievalReturns(r) PROVE IInv'
<1>1. /\ retrieval[r].at = "found" /\ Leaves(r)
      /\ UNCHANGED <<config, provision, get, calls, reset, failures, index, queue, pass, op,
                     changes, life>>
  BY DEF RetrievalReturns, shared
<1>2. get'[r].phase = "idle"
  BY <1>1 DEF IInv, CanonSound, RetrievalSound
<1> QED BY <1>1, <1>2, SearchIdles, RetrievalLeaves

LEMMA RetrievalStepKeeps ==
    ASSUME IInv, NEW r \in Retrievals, RetrievalStep(r) PROVE IInv'
BY RetrievalEmbedsKeeps, RetrievalChecksKeeps, RetrievalSearchesKeeps, RetrievalThrowsKeeps,
   RetrievalReturnsKeeps DEF RetrievalStep

-----------------------------------------------------------------------------
(* Sources, settings and the close *)

LEMMA RequestKeeps ==
    ASSUME IInv, UNCHANGED <<providers, service, get, calls, vector, meta, pass>>,
           SharedTypeOK', SharedSound', ChunksGoOn,
           chunk' \in [Chunks -> {"new", "present", "removed"}], queue' \in Seq(Users),
           RetrievalsTyped', RequestsTyped', \A o \in Ops : OpSound(o)',
           queue # <<>> => queue' # <<>> /\ Head(queue') = Head(queue),
           \A r \in Retrievals :
              \/ retrieval'[r] = retrieval[r] /\ QueueSound(r)'
              \/ /\ RetrievalSound(r)' /\ FoundSound(r)'
                 /\ queue # <<>> => r # Head(queue)
    PROVE  IInv'
<1> USE DEF IInv, CanonSound
<1>1. /\ SharedTypeOK /\ SharedSound /\ Indexer \in Callers
      /\ \A r \in Retrievals : /\ r \in Callers /\ retrieval[r] \in RetrievalStates
                               /\ retrieval[r].wanted \in SUBSET Chunks
                               /\ RetrievalSound(r) /\ FoundSound(r)
      /\ pass.provider \in Providers \cup {None}
  BY CanonTypes
<1>2. ConfigsStay /\ IndexGoesOn /\ WarmUpsStay
  BY DEF ConfigsStay, IndexGoesOn, WarmUpsStay
<1>3. ASSUME NEW g \in Callers PROVE Waiting(g)
  <2>1. Going(g)
    BY DEF Going, Doomed, Follows, Woken
  <2> QED BY <1>2, <2>1 DEF Waiting
<1>4. PassShape' /\ PassSound'
  <2>1. pass.at # "idle" => queue' # <<>> /\ Head(queue') = Head(queue)
    BY DEF PassSound
  <2>2. \A r \in Retrievals : queue # <<>> /\ r = Head(queue) =>
           retrieval'[r].wanted = retrieval[r].wanted
    OBVIOUS
  <2>3. UNCHANGED pass
    OBVIOUS
  <2> QED BY <1>1, <1>2, <1>3, <2>1, <2>2, <2>3, PassStays
<1>5. \A r \in Retrievals : RetrievalSound(r)' /\ FoundSound(r)'
  BY <1>1, <1>2, <1>3, RetrievalStays
<1>6. TypeOK'
  <2>1. IndexTyped' /\ PassTyped'
    BY TypeParts DEF IndexTyped, PassTyped
  <2> QED BY <2>1, TypePartsNext
<1>7. OneSpace'
  BY DEF OneSpace
<1> QED BY <1>4, <1>5, <1>6, <1>7

\* Where the queue and the retrievals stay, or the queue grows by an indexing of its own.
LEMMA BackgroundKeeps ==
    ASSUME IInv, UNCHANGED retrieval, UNCHANGED queue \/ queue' = Append(queue, None)
    PROVE  /\ queue' \in Seq(Users) /\ RetrievalsTyped'
           /\ queue # <<>> => queue' # <<>> /\ Head(queue') = Head(queue)
           /\ \A r \in Retrievals : retrieval'[r] = retrieval[r] /\ QueueSound(r)'
<1>1. queue \in Seq(Users) /\ None \in Users /\ None \notin Retrievals /\ RetrievalsTyped
  BY CanonTypes, TypeParts DEF IInv, Users
<1>2. \A r \in Retrievals : QueueSound(r)
  BY DEF IInv, CanonSound, RetrievalSound
<1>3. RetrievalsTyped'
  BY <1>1 DEF RetrievalsTyped
<1>4. CASE UNCHANGED queue
  BY <1>1, <1>2, <1>3, <1>4 DEF QueueSound
<1>5. CASE queue' = Append(queue, None)
  <2>1. ASSUME NEW r \in Retrievals PROVE QueueSound(r)'
    BY <1>1, <1>2, <1>5, QueueGrows
  <2>2. queue' \in Seq(Users)
    BY <1>1, <1>5
  <2> QED BY <1>1, <1>3, <1>5, <2>1, <2>2, HeadStays
<1> QED BY <1>4, <1>5

\* Where the provider is left alone, except that the settings may change.
LEMMA ProviderIdles ==
    ASSUME IInv, UNCHANGED shared, config' \in Configurations
    PROVE  SharedTypeOK' /\ SharedSound'
<1>1. SharedTypeOK /\ SharedSound /\ Indexer \in Callers
  BY CanonTypes DEF IInv
<1> QED BY <1>1, BorrowerStep DEF shared

LEMMA RetrieveKeeps == ASSUME IInv, NEW r \in Retrievals, Retrieve(r) PROVE IInv'
<1> DEFINE x == [NoRetrieval EXCEPT !.at = "waits", !.wanted = Present]
<1>1. /\ retrieval[r].at = "idle" /\ queue' = Append(queue, r)
      /\ retrieval' = [retrieval EXCEPT ![r] = x]
      /\ UNCHANGED <<config, shared, index, pass, op, changes, life>>
  BY DEF Retrieve
<1>2. /\ queue \in Seq(Users) /\ r \in Users /\ retrieval \in [Retrievals -> RetrievalStates]
      /\ config \in Configurations /\ chunk \in [Chunks -> {"new", "present", "removed"}]
      /\ \A s \in Retrievals : RetrievalSound(s) /\ QueueSound(s)
  BY CanonTypes, SharedTypes DEF IInv, CanonSound, RetrievalSound, Users
<1>3. /\ x \in RetrievalStates /\ x.at = "waits" /\ x.wanted = Present
  BY DEF NoRetrieval, RetrievalStates, Present, Vectors
<1> HIDE DEF x
<1>4. retrieval'[r] = x /\ \A s \in Retrievals : s # r => retrieval'[s] = retrieval[s]
  BY <1>1, <1>2
<1>5. SharedTypeOK' /\ SharedSound'
  BY <1>1, <1>2, ProviderIdles
<1>6. /\ UNCHANGED <<providers, service, get, calls, vector, meta, pass, chunk>> /\ ChunksGoOn
  BY <1>1 DEF shared, provision, index, ChunksGoOn
<1>7. queue' \in Seq(Users) /\ (queue # <<>> => queue' # <<>> /\ Head(queue') = Head(queue))
  BY <1>1, <1>2, HeadStays
<1>8. ASSUME NEW s \in Retrievals PROVE QueueSound(s)'
  BY <1>1, <1>2, <1>3, <1>4, QueueGrows
<1>9. RetrievalsTyped' /\ RequestsTyped' /\ \A o \in Ops : OpSound(o)'
  BY <1>1, <1>2, <1>3, TypeParts
     DEF RetrievalsTyped, RequestsTyped, OpSound, IInv, CanonSound, shared
<1>10. RetrievalSound(r)' /\ FoundSound(r)'
  <2>1. get'[r].phase = "idle"
    BY <1>1, <1>2, <1>6 DEF RetrievalSound
  <2>2. \A k \in retrieval'[r].wanted : chunk'[k] # "new"
    BY <1>3, <1>4, <1>6 DEF Present
  <2> QED BY <1>3, <1>4, <1>8, <2>1, <2>2 DEF RetrievalSound, FoundSound
<1>11. queue # <<>> => r # Head(queue)
  <2>1. queue # <<>> => 1 \in 1..Len(queue) /\ Head(queue) = queue[1]
    BY <1>2
  <2> QED BY <1>1, <1>2, <2>1 DEF QueueSound
<1> QED BY <1>2, <1>4, <1>5, <1>6, <1>7, <1>8, <1>9, <1>10, <1>11, RequestKeeps

LEMMA SourceKeeps ==
    ASSUME IInv, NEW k \in Chunks, AddSource(k) \/ RemoveSource(k) PROVE IInv'
<1>1. /\ UNCHANGED <<config, shared, vector, meta, pass, retrieval, op, changes, life>>
      /\ UNCHANGED queue \/ queue' = Append(queue, None)
      /\ \/ chunk[k] = "new" /\ chunk' = [chunk EXCEPT ![k] = "present"]
         \/ chunk[k] = "present" /\ chunk' = [chunk EXCEPT ![k] = "removed"]
  BY DEF AddSource, RemoveSource
<1>2. chunk \in [Chunks -> {"new", "present", "removed"}] /\ config \in Configurations
  BY CanonTypes, SharedTypes DEF IInv
<1>3. chunk' \in [Chunks -> {"new", "present", "removed"}] /\ ChunksGoOn
  BY <1>1, <1>2 DEF ChunksGoOn
<1>4. SharedTypeOK' /\ SharedSound'
  BY <1>1, <1>2, ProviderIdles
<1>5. RequestsTyped' /\ (\A o \in Ops : OpSound(o)')
  BY <1>1, TypeParts DEF RequestsTyped, OpSound, IInv, CanonSound, shared
<1>6. UNCHANGED <<providers, service, get, calls, vector, meta, pass>>
  BY <1>1 DEF shared, provision
<1> QED BY <1>1, <1>3, <1>4, <1>5, <1>6, BackgroundKeeps, RequestKeeps

LEMMA ChangeKeeps ==
    ASSUME IInv, NEW o \in Ops, NEW setting \in Configurations, Change(o, setting) PROVE IInv'
<1>1. /\ op[o] = "idle" /\ changes < MaxChanges /\ changes' = changes + 1 /\ config' = setting
      /\ op' = [op EXCEPT ![o] = "saved"]
      /\ UNCHANGED <<shared, index, queue, pass, retrieval, life>>
  BY DEF Change
<1>2. UNCHANGED <<providers, service, get, calls, vector, meta, pass, chunk, reset>>
  BY <1>1 DEF shared, provision, index
<1>3. SharedTypeOK' /\ SharedSound'
  BY <1>1, ProviderIdles
<1>4. chunk' \in [Chunks -> {"new", "present", "removed"}] /\ ChunksGoOn
  BY <1>2, CanonTypes DEF IInv, ChunksGoOn
<1>5. RequestsTyped
  BY TypeParts DEF IInv
<1>6. RequestsTyped'
  BY <1>1, <1>5, CanonAssumption DEF RequestsTyped
<1>7. \A p \in Ops : OpSound(p)'
  BY <1>1, <1>2, <1>5 DEF OpSound, IInv, CanonSound, RequestsTyped
<1> QED BY <1>1, <1>2, <1>3, <1>4, <1>6, <1>7, BackgroundKeeps, RequestKeeps

LEMMA ChangeResetsKeeps ==
    ASSUME IInv, NEW o \in Ops, ChangeResets(o) PROVE IInv'
<1>1. /\ op[o] = "saved" /\ op' = [op EXCEPT ![o] = "resets"] /\ ResetBegins(o)
      /\ UNCHANGED <<config, providers, service, opening, disposed, get, calls, failures, queue,
                     pass, retrieval, changes, life, chunk, vector, meta>>
  BY DEF ChangeResets, index
<1>2. /\ SharedTypeOK /\ SharedSound /\ o \in Resetters /\ reset[o].at = "idle"
      /\ disposed \in BOOLEAN /\ RequestsTyped
  BY <1>1, CanonTypes, SharedTypes, TypeParts DEF IInv, CanonSound, OpSound
<1>3. SharedTypeOK' /\ SharedSound'
  BY <1>1, <1>2, ResetBeginsKeeps
<1>4. chunk' \in [Chunks -> {"new", "present", "removed"}] /\ ChunksGoOn
  BY <1>1, CanonTypes DEF IInv, ChunksGoOn
<1>5. RequestsTyped'
  BY <1>1, <1>2 DEF RequestsTyped
<1>6. \A p \in Resetters : p # o => reset'[p] = reset[p]
  BY <1>1, <1>2, SharedTypes DEF ResetBegins
<1>7. \A p \in Ops : OpSound(p)'
  BY <1>1, <1>2, <1>6, CanonTypes DEF OpSound, IInv, CanonSound, RequestsTyped
<1> QED BY <1>1, <1>3, <1>4, <1>5, <1>7, BackgroundKeeps, RequestKeeps

LEMMA ChangeEndsKeeps ==
    ASSUME IInv, NEW o \in Ops, ChangeEnds(o) PROVE IInv'
<1>1. /\ op[o] = "resets" /\ reset[o].at \in {"done", "failed"}
      /\ op' = [op EXCEPT ![o] = "idle"] /\ reset' = [reset EXCEPT ![o] = NoReset]
      /\ UNCHANGED queue \/ queue' = Append(queue, None)
      /\ UNCHANGED <<config, provision, get, calls, failures, pass, retrieval, changes, life,
                     chunk, vector, meta>>
  BY DEF ChangeEnds, index
<1>2. SharedTypeOK /\ SharedSound /\ o \in Resetters /\ RequestsTyped
  BY CanonTypes, TypeParts DEF IInv
<1>3. SharedTypeOK' /\ SharedSound'
  BY <1>1, <1>2, ResetLeaves
<1>4. chunk' \in [Chunks -> {"new", "present", "removed"}] /\ ChunksGoOn
  BY <1>1, CanonTypes DEF IInv, ChunksGoOn
<1>5. RequestsTyped'
  BY <1>1, <1>2 DEF RequestsTyped
<1>6. /\ reset'[o].at = "idle" /\ \A p \in Resetters : p # o => reset'[p] = reset[p]
  BY <1>1, <1>2, SharedTypes DEF NoReset
<1>7. \A p \in Ops : OpSound(p)'
  BY <1>1, <1>2, <1>6, CanonTypes DEF OpSound, IInv, CanonSound, RequestsTyped
<1>8. UNCHANGED <<providers, service>>
  BY <1>1 DEF provision
<1> QED BY <1>1, <1>3, <1>4, <1>5, <1>7, <1>8, BackgroundKeeps, RequestKeeps

LEMMA ClosingKeeps ==
    ASSUME IInv, Close \/ CloseEnds \/ UNCHANGED vars PROVE IInv'
<1>1. /\ UNCHANGED <<config, shared, index, queue, pass, retrieval, op, changes>>
      /\ life' \in {life, "closing", "closed"}
  BY DEF Close, CloseEnds, vars, own
<1>2. UNCHANGED <<providers, service, get, calls, reset, vector, meta, pass, chunk>>
  BY <1>1 DEF shared, provision, index
<1>3. SharedTypeOK' /\ SharedSound'
  BY <1>1, CanonTypes, SharedTypes, ProviderIdles DEF IInv
<1>4. chunk' \in [Chunks -> {"new", "present", "removed"}] /\ ChunksGoOn
  BY <1>2, CanonTypes DEF IInv, ChunksGoOn
<1>5. RequestsTyped'
  BY <1>1, TypeParts DEF RequestsTyped, IInv
<1>6. \A p \in Ops : OpSound(p)'
  BY <1>1, <1>2 DEF OpSound, IInv, CanonSound
<1> QED BY <1>1, <1>2, <1>3, <1>4, <1>5, <1>6, BackgroundKeeps, RequestKeeps

LEMMA NextKeeps == IInv /\ [Next]_vars => IInv'
<1> SUFFICES ASSUME IInv, [Next]_vars PROVE IInv'
  OBVIOUS
<1>1. CASE SharedStep /\ UNCHANGED <<config, own>>
  BY <1>1, SharedGoesOn
<1>2. CASE PassStep
  BY <1>2, PassStepKeeps
<1>3. CASE \E r \in Retrievals : Retrieve(r) \/ RetrievalStep(r)
  BY <1>3, RetrieveKeeps, RetrievalStepKeeps
<1>4. CASE \E k \in Chunks : AddSource(k) \/ RemoveSource(k)
  BY <1>4, SourceKeeps
<1>5. CASE \E o \in Ops : OpStep(o) \/ \E setting \in Configurations : Change(o, setting)
  BY <1>5, ChangeResetsKeeps, ChangeEndsKeeps, ChangeKeeps DEF OpStep
<1>6. CASE Close \/ CloseEnds \/ UNCHANGED vars
  BY <1>6, ClosingKeeps
<1> QED BY <1>1, <1>2, <1>3, <1>4, <1>5, <1>6 DEF Next

LEMMA InitSound == Init => IInv
<1> SUFFICES ASSUME Init PROVE IInv
  OBVIOUS
<1>1. /\ SharedInit /\ config \in Configurations /\ failures = 0
      /\ chunk = [k \in Chunks |-> "new"] /\ vector = [k \in Chunks |-> None] /\ meta = None
      /\ queue = <<>> /\ pass = NoPass /\ retrieval = [r \in Retrievals |-> NoRetrieval]
      /\ op = [o \in Ops |-> "idle"] /\ changes = 0 /\ life = "open"
  BY DEF Init
<1>2. SharedTypeOK /\ SharedSound
  BY <1>1, StartSound, SharedAssumption
<1>3. /\ Indexer \in Callers /\ Retrievals \subseteq Callers /\ Ops = Resetters
      /\ \A g \in Callers : get[g].phase = "idle"
      /\ \A o \in Resetters : reset[o].at = "idle"
  BY <1>1, CanonAssumption DEF SharedInit, NoGet, NoReset
<1>4. TypeOK
  <2>1. IndexTyped /\ RequestsTyped
    BY <1>1, CanonAssumption DEF IndexTyped, RequestsTyped, Vectors
  <2>2. PassTyped
    BY <1>1, EndedPass DEF PassTyped
  <2>3. RetrievalsTyped
    BY <1>1 DEF RetrievalsTyped, NoRetrieval, RetrievalStates, Vectors
  <2>4. queue \in Seq(Users)
    BY <1>1
  <2> QED BY <1>2, <2>1, <2>2, <2>3, <2>4, TypeParts
<1>5. PassShape /\ PassSound
  BY <1>1, <1>3, EndedPass DEF PassShape, PassSound
<1>6. \A r \in Retrievals : RetrievalSound(r) /\ FoundSound(r)
  BY <1>1, <1>3 DEF RetrievalSound, FoundSound, QueueSound, NoRetrieval
<1>7. (\A o \in Ops : OpSound(o)) /\ OneSpace
  BY <1>1, <1>3 DEF OpSound, OneSpace
<1> QED BY <1>2, <1>4, <1>5, <1>6, <1>7 DEF IInv, CanonSound

-----------------------------------------------------------------------------
(* Theorems *)

(* What the passes, the retrievals and the changes of the settings know of the     *)
(* index and of the provider at each of their awaits holds in every reachable      *)
(* state (canon/service.ts, indexChunks and retrieveHybrid).                       *)
THEOREM CanonSoundness == Spec => []IInv
<1>1. Init => IInv
  BY InitSound
<1>2. IInv /\ [Next]_vars => IInv'
  BY NextKeeps
<1> QED BY <1>1, <1>2, PTL DEF Spec

(* Every variable of the Canon index and of the provider under it holds a value    *)
(* the program can give it.                                                        *)
THEOREM CanonTyped == Spec => []TypeOK
<1>1. IInv => TypeOK
  BY DEF IInv
<1> QED BY <1>1, CanonSoundness, PTL

(* The vectors of the index are of one configuration, and a query is compared only *)
(* with vectors of the provider that embedded it, however many settings, changes   *)
(* of them, sources and retrievals there are (canon/service.ts, indexChunks and    *)
(* retrieveHybrid).                                                                *)
THEOREM VectorSpaceIsOne == Spec => []OneVectorSpace
<1>1. IInv => OneVectorSpace
  BY DEF IInv, CanonSound, OneSpace, FoundSound, OneVectorSpace
<1> QED BY <1>1, CanonSoundness, PTL

(* A retrieval whose provider is the one its pass indexed with finds every chunk   *)
(* that was there when it began and still is (canon/service.ts, retrieveHybrid).   *)
THEOREM SearchIsComplete == Spec => []SearchFindsAll
<1>1. IInv => SearchFindsAll
  BY DEF IInv, CanonSound, FoundSound, Fresh, SearchFindsAll
<1> QED BY <1>1, CanonSoundness, PTL

(* A retrieval and a pass look at the state of the service after each await: once  *)
(* it is closed no step of either touches the index (canon/service.ts, close).     *)
THEOREM ClosedStaysQuiet == Spec => ClosedIsQuiet
<1>1. ASSUME [Next]_vars, life = "closed" PROVE UNCHANGED <<vector, meta>>
  <2> ~IsOpen
    BY <1>1 DEF IsOpen
  <2>1. CASE SharedStep /\ UNCHANGED <<config, own>>
    BY <2>1 DEF own, index
  <2>2. CASE PassStep
    BY <2>2 DEF PassStep, PassStarts, PassReads, PassEmbeds, PassWrites, PassThrows, index
  <2>3. CASE \E r \in Retrievals : Retrieve(r) \/ RetrievalStep(r)
    BY <2>3 DEF Retrieve, RetrievalStep, RetrievalEmbeds, RetrievalChecks, RetrievalSearches,
       RetrievalThrows, RetrievalReturns, index
  <2>4. CASE \E k \in Chunks : AddSource(k) \/ RemoveSource(k)
    BY <2>4 DEF AddSource, RemoveSource
  <2>5. CASE \E o \in Ops : OpStep(o) \/ \E setting \in Configurations : Change(o, setting)
    BY <2>5 DEF OpStep, ChangeResets, ChangeEnds, Change, index
  <2>6. CASE Close \/ CloseEnds \/ UNCHANGED vars
    BY <2>6 DEF Close, CloseEnds, vars, own, index
  <2> QED BY <1>1, <2>1, <2>2, <2>3, <2>4, <2>5, <2>6 DEF Next
<1>2. [Next]_vars => [life = "closed" => UNCHANGED <<vector, meta>>]_vars
  BY <1>1
<1> QED BY <1>2, PTL DEF Spec, ClosedIsQuiet
=============================================================================
