----------------------- MODULE SharedEmbeddingProofs -----------------------
(***************************************************************************)
(* What holds of the shared embedding provider whoever borrows it: the     *)
(* invariant SharedSound and the lemmas that each of its operations, and   *)
(* every step of a borrower, keep it. Proved here once for any number of   *)
(* callers, resetters, providers and failures, and used by the theorems    *)
(* about the memories and about the Canon index.                           *)
(***************************************************************************)
EXTENDS SharedEmbedding, TLAPS

Live == {"open", "closing", "broken"}
Active == {"opening", "calls", "close"}

\* What is in use is what the promise of the opening is of.
OpeningSound ==
    /\ service = IF opening \in Providers THEN opening ELSE None
    /\ opening \in Providers => providers[opening].life # "none"

\* A provider that is not closed is the one in use.
ProviderSound(p) ==
    /\ providers[p].life # "none" => /\ providers[p].config \in Configurations
                                     /\ providers[p].warm # "none"
    /\ providers[p].life \in Live => service = p
    /\ providers[p].warm = "pending" => providers[p].life \in {"open", "closing"}

\* What a get() waits for, by the phase it is in.
Waits(g) == get[g].phase = "waits" => get[g].awaits \in {None, resetting}

Joins(g) == get[g].phase = "joins" =>
    /\ get[g].own \in Providers \cup {Off}
    /\ get[g].own \in Providers =>
         /\ providers[get[g].own].life # "none"
         /\ providers[get[g].own].warm # "failed" => service = get[g].own

Opens(g) == get[g].phase = "opens" =>
    /\ get[g].own \in Providers
    /\ providers[get[g].own].warm = "pending"
    /\ \A h \in Callers : get[h].phase = "opens" /\ get[h].own = get[g].own => h = g

CleansUp(g) == get[g].phase = "cleans" =>
    /\ get[g].own \in Providers
    /\ get[g].provider = get[g].own
    /\ providers[get[g].own].warm = "failed"
    /\ providers[get[g].own].life # "none"

Got(g) == get[g].phase = "got" /\ get[g].provider # None =>
    /\ get[g].provider = service
    /\ providers[get[g].provider].warm = "ready"

\* A call runs on a provider that is warm and open.
Calling(g) == calls[g] # None =>
    /\ providers[calls[g]].life = "open"
    /\ providers[calls[g]].warm = "ready"

\* One reset is under way at a time, and once it awaits the calls nobody is about
\* to join or to open.
ResetSound(o) ==
    /\ reset[o].at \in Active <=> resetting = o
    /\ reset[o].at = "joins" => resetting # None /\ reset[o].awaits = resetting
    /\ reset[o].at \in {"calls", "close"} => \A g \in Callers : ~Woken(g)
    /\ reset[o].at = "close" => /\ reset[o].awaits \in Providers \cup {None}
                                /\ service \in {reset[o].awaits, None}

GetSound(g) == Waits(g) /\ Joins(g) /\ Opens(g) /\ CleansUp(g) /\ Got(g) /\ Calling(g)

SharedSound ==
    /\ OpeningSound
    /\ \A p \in Providers : ProviderSound(p)
    /\ \A g \in Callers : GetSound(g)
    /\ \A o \in Resetters : ResetSound(o)
-----------------------------------------------------------------------------
(* Types *)

ProviderStates == [config : Configurations \cup {None},
                   warm : {"none", "pending", "ready", "failed"},
                   life : {"none", "open", "closing", "broken", "closed"}]
GetStates == [phase : {"idle", "waits", "joins", "opens", "cleans", "got", "failed"},
              awaits : Resetters \cup {None}, own : Providers \cup {None, Off},
              provider : Providers \cup {None}]
ResetStates == [at : {"idle", "opening", "calls", "close", "joins", "done", "failed"},
                awaits : Providers \cup Resetters \cup {None, Off}]

\* The names of the model are different things.
LEMMA NamesDiffer ==
    /\ None \notin Providers /\ Off \notin Providers /\ None # Off
    /\ None \notin Callers /\ None \notin Resetters /\ None \notin Configurations
    /\ Providers \subseteq Nat
<1>1. Providers \subseteq Nat
  BY SharedAssumption DEF Providers
<1> QED BY <1>1, SharedAssumption

LEMMA SharedTypes ==
    SharedTypeOK <=>
      /\ config \in Configurations
      /\ providers \in [Providers -> ProviderStates]
      /\ service \in Providers \cup {None} /\ opening \in Providers \cup {None, Off}
      /\ resetting \in Resetters \cup {None} /\ disposed \in BOOLEAN
      /\ get \in [Callers -> GetStates]
      /\ calls \in [Callers -> Providers \cup {None}]
      /\ reset \in [Resetters -> ResetStates]
      /\ failures \in 0..MaxFailures
BY DEF SharedTypeOK, ProviderStates, GetStates, ResetStates

LEMMA SharedTypesNext ==
    SharedTypeOK' <=>
      /\ config' \in Configurations
      /\ providers' \in [Providers -> ProviderStates]
      /\ service' \in Providers \cup {None} /\ opening' \in Providers \cup {None, Off}
      /\ resetting' \in Resetters \cup {None} /\ disposed' \in BOOLEAN
      /\ get' \in [Callers -> GetStates]
      /\ calls' \in [Callers -> Providers \cup {None}]
      /\ reset' \in [Resetters -> ResetStates]
      /\ failures' \in 0..MaxFailures
BY DEF SharedTypeOK, ProviderStates, GetStates, ResetStates

\* What the operations write is of its type.
LEMMA RecordsTyped ==
    /\ NoGet \in GetStates /\ NoReset \in ResetStates
    /\ \A p \in Providers \cup {None} :
          [NoGet EXCEPT !.phase = "got", !.provider = p] \in GetStates
    /\ [NoGet EXCEPT !.phase = "failed"] \in GetStates
    /\ \A x \in GetStates, p \in Providers \cup {None, Off}, f \in {"joins", "opens"} :
          [x EXCEPT !.phase = f, !.own = p] \in GetStates
    /\ \A x \in GetStates, p \in Providers \cup {None} :
          [x EXCEPT !.phase = "cleans", !.provider = p] \in GetStates
BY DEF NoGet, NoReset, GetStates, ResetStates

LEMMA ReturnedFields ==
    ASSUME NEW p
    PROVE  /\ [NoGet EXCEPT !.phase = "got", !.provider = p].phase = "got"
           /\ [NoGet EXCEPT !.phase = "got", !.provider = p].provider = p
BY DEF NoGet

LEMMA AskedTyped ==
    ASSUME resetting \in Resetters \cup {None}
    PROVE  /\ Asked \in GetStates
           /\ Asked.phase = "waits" /\ Asked.awaits = resetting
BY DEF Asked, NoGet, GetStates

\* A counted failure is within its bound.
LEMMA FailureCounted ==
    ASSUME failures \in 0..MaxFailures, Fails \/ UNCHANGED failures
    PROVE  failures' \in 0..MaxFailures
BY SharedAssumption DEF Fails

-----------------------------------------------------------------------------
(* Steps that change no more than who waits for what *)

\* Of a get() and the call of its caller: they are as before, or sound now.
GetChanges(g) ==
    \/ get'[g] = get[g]
    \/ /\ get'[g].phase # "opens"
       /\ get'[g].phase = "waits" => get'[g].awaits = resetting
       /\ Joins(g)' /\ CleansUp(g)' /\ Got(g)'
CallChanges(g) == calls'[g] = calls[g] \/ Calling(g)'

LEMMA BorrowersKeep ==
    ASSUME SharedTypeOK, SharedSound, UNCHANGED <<provision, reset>>,
           \A g \in Callers : GetChanges(g), \A g \in Callers : CallChanges(g)
    PROVE  SharedSound'
<1> USE DEF provision
<1>1. OpeningSound'
  BY DEF SharedSound, OpeningSound
<1>2. \A p \in Providers : ProviderSound(p)'
  BY DEF SharedSound, ProviderSound
<1>3. \A g \in Callers : GetSound(g)'
  <2> SUFFICES ASSUME NEW g \in Callers PROVE GetSound(g)'
    OBVIOUS
  <2>1. GetSound(g) /\ GetChanges(g) /\ CallChanges(g)
    BY DEF SharedSound
  <2>2. Waits(g)'
    BY <2>1 DEF GetSound, GetChanges, Waits
  <2>3. Joins(g)' /\ CleansUp(g)' /\ Got(g)'
    BY <2>1 DEF GetSound, GetChanges, Joins, CleansUp, Got
  <2>4. Calling(g)'
    BY <2>1 DEF GetSound, CallChanges, Calling
  <2>5. Opens(g)'
    <3> SUFFICES ASSUME get'[g].phase = "opens" PROVE Opens(g)'
      BY DEF Opens
    <3>1. \A h \in Callers : get'[h].phase = "opens" => get'[h] = get[h]
      BY DEF GetChanges
    <3> QED BY <2>1, <3>1 DEF GetSound, Opens
  <2> QED BY <2>2, <2>3, <2>4, <2>5 DEF GetSound
<1>4. \A o \in Resetters : ResetSound(o)'
  <2> SUFFICES ASSUME NEW o \in Resetters PROVE ResetSound(o)'
    OBVIOUS
  <2>1. ResetSound(o)
    BY DEF SharedSound
  <2>2. reset[o].at \in {"calls", "close"} => \A g \in Callers : ~Woken(g)'
    <3> SUFFICES ASSUME reset[o].at \in {"calls", "close"}, NEW g \in Callers
                 PROVE  ~Woken(g)'
      OBVIOUS
    <3>1. resetting = o /\ ~Woken(g) /\ o # None
      BY <2>1, NamesDiffer DEF ResetSound, Active
    <3> QED BY <3>1 DEF GetChanges, Woken
  <2> QED BY <2>1, <2>2 DEF ResetSound
<1> QED BY <1>1, <1>2, <1>3, <1>4 DEF SharedSound

\* What borrowers do: they ask for the provider, take what get() returned, and
\* begin and end calls.
Borrows ==
    /\ UNCHANGED <<provision, reset>>
    /\ \A g \in Callers : get'[g] \in {get[g], NoGet, Asked}
    /\ \A g \in Callers : \/ calls'[g] \in {calls[g], None}
                          \/ calls'[g] \in Providers /\ Usable(calls'[g])

LEMMA BorrowingKeeps ==
    ASSUME SharedTypeOK, SharedSound, Borrows
    PROVE  SharedSound'
<1>1. \A g \in Callers : GetChanges(g)
  <2> SUFFICES ASSUME NEW g \in Callers PROVE GetChanges(g)
    OBVIOUS
  <2>1. Asked.phase = "waits" /\ Asked.awaits = resetting /\ NoGet.phase = "idle"
    BY SharedTypes, AskedTyped DEF NoGet
  <2>2. resetting' = resetting
    BY DEF Borrows, provision
  <2>3. get'[g] \in {get[g], NoGet, Asked}
    BY DEF Borrows
  <2> QED BY <2>1, <2>2, <2>3 DEF GetChanges, Joins, CleansUp, Got
<1>2. \A g \in Callers : CallChanges(g)
  BY DEF Borrows, CallChanges, Calling, Usable, provision
<1> QED BY <1>1, <1>2, BorrowersKeep DEF Borrows

\* A borrower's step leaves its own get() and calls typed.
LEMMA BorrowerTyped ==
    ASSUME SharedTypeOK, NEW g \in Callers, NEW x \in GetStates,
           NEW p \in Providers \cup {None}
    PROVE  /\ [get EXCEPT ![g] = x] \in [Callers -> GetStates]
           /\ [calls EXCEPT ![g] = p] \in [Callers -> Providers \cup {None}]
BY SharedTypes

-----------------------------------------------------------------------------
(* get() *)

\* A get() that waited, or joined, goes on without opening anything.
LEMMA GetAdvances ==
    ASSUME SharedTypeOK, SharedSound, NEW g \in Callers, config' = config,
           GetRefused(g) \/ GetJoins(g) \/ CleaningFails(g) \/ JoinEnds(g)
    PROVE  SharedTypeOK' /\ SharedSound'
<1>1. GetSound(g) /\ OpeningSound
  BY DEF SharedSound
<1>2. get[g] \in GetStates /\ opening \in Providers \cup {None, Off}
  BY SharedTypes
<1>3. PICK x \in GetStates : /\ get' = [get EXCEPT ![g] = x]
                             /\ x.phase \notin {"opens", "waits", "cleans"}
                             /\ x.phase = "joins" => opening # None /\ x.own = opening
                             /\ x.phase = "got" => \/ x.provider = None
                                                   \/ /\ x.provider \in Providers
                                                      /\ service = x.provider
                                                      /\ providers[x.provider].warm = "ready"
  <2>1. CASE GetRefused(g) \/ CleaningFails(g)
    <3>1. get' = [get EXCEPT ![g] = [NoGet EXCEPT !.phase = "failed"]]
      BY <2>1 DEF GetRefused, CleaningFails, Throws
    <3> QED BY <3>1, RecordsTyped DEF NoGet
  <2>2. CASE GetJoins(g)
    <3>1. get' = [get EXCEPT ![g] = [get[g] EXCEPT !.phase = "joins", !.own = opening]]
      BY <2>2, SharedTypes DEF GetJoins
    <3>2. opening # None
      BY <2>2 DEF GetJoins
    <3>3. [get[g] EXCEPT !.phase = "joins", !.own = opening] \in GetStates
      BY <1>2, <3>2, RecordsTyped
    <3>4. /\ [get[g] EXCEPT !.phase = "joins", !.own = opening].phase = "joins"
          /\ [get[g] EXCEPT !.phase = "joins", !.own = opening].own = opening
      BY <1>2 DEF GetStates
    <3> QED BY <3>1, <3>2, <3>3, <3>4
  <2>3. CASE JoinEnds(g)
    <3>1. Joins(g) /\ get[g].phase = "joins" /\ Settled(get[g].own)
      BY <1>1, <2>3 DEF GetSound, JoinEnds
    <3>2. CASE get[g].own = Off
      <4> DEFINE y == [NoGet EXCEPT !.phase = "got", !.provider = None]
      <4>1. get' = [get EXCEPT ![g] = y]
        BY <2>3, <3>2 DEF JoinEnds, Returns
      <4>2. y \in GetStates
        BY RecordsTyped
      <4>3. y.phase = "got" /\ y.provider = None
        BY ReturnedFields
      <4> HIDE DEF y
      <4> QED BY <4>1, <4>2, <4>3
    <3>3. CASE get[g].own # Off /\ providers[get[g].own].warm = "ready"
      <4>1. get' = [get EXCEPT ![g] = [NoGet EXCEPT !.phase = "got", !.provider = get[g].own]]
        BY <2>3, <3>3 DEF JoinEnds, Returns
      <4>2. get[g].own \in Providers /\ service = get[g].own
        BY <3>1, <3>3 DEF Joins
      <4>3. [NoGet EXCEPT !.phase = "got", !.provider = get[g].own] \in GetStates
        BY <4>2, RecordsTyped
      <4> QED BY <4>1, <4>2, <4>3, <3>3, ReturnedFields
    <3>4. CASE get[g].own # Off /\ providers[get[g].own].warm # "ready"
      <4>1. get' = [get EXCEPT ![g] = [NoGet EXCEPT !.phase = "failed"]]
        BY <2>3, <3>4 DEF JoinEnds, Throws
      <4> QED BY <4>1, RecordsTyped DEF NoGet
    <3> QED BY <3>2, <3>3, <3>4
  <2> QED BY <2>1, <2>2, <2>3
<1>4. UNCHANGED <<provision, calls, reset, failures>>
  BY DEF GetRefused, GetJoins, CleaningFails, JoinEnds
<1>5. GetChanges(g)
  <2>1. get'[g] = x
    BY <1>3, SharedTypes
  <2>2. x.phase = "joins" => Joins(g)'
    <3> SUFFICES ASSUME x.phase = "joins" PROVE Joins(g)'
      OBVIOUS
    <3>1. x.own = opening /\ opening # None
      BY <1>3
    <3>2. opening \in Providers => service = opening /\ providers[opening].life # "none"
      BY <1>1 DEF OpeningSound
    <3>3. UNCHANGED <<providers, service>>
      BY <1>4 DEF provision
    <3> QED BY <1>2, <2>1, <3>1, <3>2, <3>3 DEF Joins
  <2> QED BY <1>3, <1>4, <2>1, <2>2 DEF GetChanges, Joins, CleansUp, Got, provision
<1>6. \A h \in Callers : GetChanges(h) /\ CallChanges(h)
  <2> SUFFICES ASSUME NEW h \in Callers PROVE GetChanges(h) /\ CallChanges(h)
    OBVIOUS
  <2>1. h # g => get'[h] = get[h]
    BY <1>3, SharedTypes
  <2> QED BY <1>4, <1>5, <2>1 DEF GetChanges, CallChanges
<1>7. SharedSound'
  BY <1>4, <1>6, BorrowersKeep
<1>8. get' \in [Callers -> GetStates]
  BY <1>3, SharedTypes
<1>9. SharedTypeOK'
  BY <1>4, <1>8, SharedTypes, SharedTypesNext DEF provision
<1> QED BY <1>7, <1>9

\* Switched off, the promise of the opening is kept at once.
LEMMA GetOffKeeps ==
    ASSUME SharedTypeOK, SharedSound, NEW g \in Callers, config' = config, GetOff(g)
    PROVE  SharedTypeOK' /\ SharedSound'
<1> DEFINE x == [NoGet EXCEPT !.phase = "got", !.provider = None]
<1>1. x \in GetStates /\ x.phase = "got" /\ x.provider = None
  <2>1. x \in GetStates
    BY RecordsTyped
  <2> QED BY <2>1, ReturnedFields
<1>2. get' = [get EXCEPT ![g] = x]
  BY DEF GetOff, Returns
<1> HIDE DEF x
<1>3. /\ get' \in [Callers -> GetStates]
      /\ get'[g] = x /\ \A h \in Callers : h # g => get'[h] = get[h]
  BY <1>1, <1>2, SharedTypes
<1>4. /\ UNCHANGED <<providers, service, resetting, disposed, calls, reset, failures>>
      /\ opening' = Off /\ Woken(g) /\ opening = None
  BY DEF GetOff
<1>5. SharedTypeOK'
  BY <1>3, <1>4, SharedTypes, SharedTypesNext
<1>6. OpeningSound'
  BY <1>4, NamesDiffer DEF SharedSound, OpeningSound
<1>7. \A p \in Providers : ProviderSound(p)'
  BY <1>4 DEF SharedSound, ProviderSound
<1>8. \A h \in Callers : GetSound(h)'
  <2> SUFFICES ASSUME NEW h \in Callers PROVE GetSound(h)'
    OBVIOUS
  <2>1. GetSound(h)
    BY DEF SharedSound
  <2>2. Opens(h)'
    BY <1>1, <1>3, <1>4, <2>1 DEF GetSound, Opens
  <2> QED BY <1>1, <1>3, <1>4, <2>1, <2>2
          DEF GetSound, Waits, Joins, CleansUp, Got, Calling
<1>9. \A o \in Resetters : ResetSound(o)'
  BY <1>1, <1>3, <1>4 DEF SharedSound, ResetSound, Woken
<1> QED BY <1>5, <1>6, <1>7, <1>8, <1>9 DEF SharedSound

\* A provider is opened: no other is there, for the promise of its opening would be.
LEMMA GetOpensKeeps ==
    ASSUME SharedTypeOK, SharedSound, NEW g \in Callers, config' = config, GetOpens(g)
    PROVE  SharedTypeOK' /\ SharedSound'
<1>1. /\ UNCHANGED <<resetting, disposed, calls, reset, failures>>
      /\ Woken(g) /\ opening = None /\ config # Off
  BY DEF GetOpens
<1>2. PICK p \in Providers :
         /\ providers[p].life = "none"
         /\ providers' = [providers EXCEPT ![p] = [config |-> config, warm |-> "pending",
                                                   life |-> "open"]]
         /\ service' = p /\ opening' = p
         /\ get' = [get EXCEPT ![g].phase = "opens", ![g].own = p]
  BY DEF GetOpens
<1>3. service = None /\ \A q \in Providers : providers[q].life \notin Live
  BY <1>1, NamesDiffer DEF SharedSound, OpeningSound, ProviderSound
<1>4. /\ providers'[p] = [config |-> config, warm |-> "pending", life |-> "open"]
      /\ \A q \in Providers : q # p => providers'[q] = providers[q]
      /\ providers' \in [Providers -> ProviderStates]
  <2>1. [config |-> config, warm |-> "pending", life |-> "open"] \in ProviderStates
    BY SharedTypes DEF ProviderStates
  <2> QED BY <1>2, <2>1, SharedTypes
<1>5. /\ get' \in [Callers -> GetStates]
      /\ get'[g].phase = "opens" /\ get'[g].own = p
      /\ \A h \in Callers : h # g => get'[h] = get[h]
  <2>1. get[g] \in GetStates /\ get' = [get EXCEPT ![g] = [get[g] EXCEPT !.phase = "opens",
                                                                        !.own = p]]
    BY <1>2, SharedTypes
  <2>2. [get[g] EXCEPT !.phase = "opens", !.own = p] \in GetStates
    BY <2>1, RecordsTyped
  <2>3. /\ [get[g] EXCEPT !.phase = "opens", !.own = p].phase = "opens"
        /\ [get[g] EXCEPT !.phase = "opens", !.own = p].own = p
    BY <2>1 DEF GetStates
  <2> QED BY <2>1, <2>2, <2>3, SharedTypes
<1>6. SharedTypeOK'
  BY <1>1, <1>2, <1>4, <1>5, SharedTypes, SharedTypesNext
<1>7. OpeningSound'
  BY <1>2, <1>4 DEF OpeningSound
<1>8. \A q \in Providers : ProviderSound(q)'
  <2> SUFFICES ASSUME NEW q \in Providers PROVE ProviderSound(q)'
    OBVIOUS
  <2>1. ProviderSound(q)
    BY DEF SharedSound
  <2>2. CASE q = p
    BY <1>2, <1>4, <2>2, SharedTypes DEF ProviderSound
  <2>3. CASE q # p
    BY <1>2, <1>3, <1>4, <2>1, <2>3 DEF ProviderSound
  <2> QED BY <2>2, <2>3
<1>9. \A h \in Callers : GetSound(h)'
  <2> SUFFICES ASSUME NEW h \in Callers PROVE GetSound(h)'
    OBVIOUS
  <2>1. GetSound(h)
    BY DEF SharedSound
  <2>2. \A f \in Callers : get[f].phase = "opens" => get[f].own # p
    BY <1>2, NamesDiffer DEF SharedSound, GetSound, Opens, ProviderSound
  <2>3. Opens(h)'
    <3>1. CASE h = g
      BY <1>4, <1>5, <2>2, <3>1 DEF Opens
    <3>2. CASE h # g
      BY <1>4, <1>5, <2>1, <2>2, <3>2 DEF Opens, GetSound
    <3> QED BY <3>1, <3>2
  <2>4. Waits(h)'
    BY <1>1, <1>5, <2>1 DEF GetSound, Waits
  <2>5. Joins(h)'
    <3> SUFFICES ASSUME get'[h].phase = "joins" PROVE Joins(h)'
      BY DEF Joins
    <3>1. h # g /\ get'[h] = get[h] /\ Joins(h) /\ get[h].phase = "joins"
      BY <1>5, <2>1 DEF GetSound
    <3>2. get[h].own \in Providers => get[h].own # p /\ providers[get[h].own].warm = "failed"
      BY <1>2, <1>3, <3>1, NamesDiffer DEF Joins
    <3> QED BY <1>4, <3>1, <3>2 DEF Joins
  <2>6. CleansUp(h)'
    BY <1>2, <1>4, <1>5, <2>1 DEF GetSound, CleansUp
  <2>7. Got(h)'
    <3> SUFFICES ASSUME get'[h].phase = "got", get'[h].provider # None PROVE FALSE
      BY DEF Got
    <3>1. get'[h] = get[h] /\ get[h].provider = service
      BY <1>5, <2>1 DEF GetSound, Got
    <3> QED BY <1>3, <3>1
  <2>8. Calling(h)'
    BY <1>1, <1>2, <1>3, <1>4, <2>1, SharedTypes DEF GetSound, Calling, Live
  <2> QED BY <2>3, <2>4, <2>5, <2>6, <2>7, <2>8 DEF GetSound
<1>10. \A o \in Resetters : ResetSound(o)'
  <2> SUFFICES ASSUME NEW o \in Resetters PROVE ResetSound(o)'
    OBVIOUS
  <2>1. ResetSound(o) /\ reset'[o] = reset[o]
    BY <1>1 DEF SharedSound
  <2>2. reset[o].at \notin {"calls", "close"}
    BY <1>1, <2>1 DEF ResetSound
  <2> QED BY <1>1, <2>1, <2>2 DEF ResetSound
<1> QED BY <1>6, <1>7, <1>8, <1>9, <1>10 DEF SharedSound

\* The warm-up is done, and the provider that is in use is the one that was warmed up.
LEMMA WarmsKeeps ==
    ASSUME SharedTypeOK, SharedSound, NEW g \in Callers, config' = config, Warms(g)
    PROVE  SharedTypeOK' /\ SharedSound'
<1>1. PICK p \in Providers : /\ p = get[g].own /\ providers[p].warm = "pending"
                             /\ providers[p].life = "open" /\ service = p
                             /\ get[g].phase = "opens"
  BY DEF Warms, SharedSound, GetSound, Opens, ProviderSound, Live
<1>2. /\ UNCHANGED <<service, opening, resetting, disposed, calls, reset, failures>>
      /\ providers' = [providers EXCEPT ![p].warm = "ready"]
      /\ get' = [get EXCEPT ![g] = [NoGet EXCEPT !.phase = "got", !.provider = p]]
  BY <1>1 DEF Warms, Returns
<1>3. /\ providers' \in [Providers -> ProviderStates]
      /\ providers'[p].warm = "ready"
      /\ \A q \in Providers : /\ providers'[q].life = providers[q].life
                              /\ providers'[q].config = providers[q].config
                              /\ q # p => providers'[q].warm = providers[q].warm
  BY <1>2, SharedTypes DEF ProviderStates
<1>4. /\ get' \in [Callers -> GetStates]
      /\ get'[g].phase = "got" /\ get'[g].provider = p
      /\ \A h \in Callers : h # g => get'[h] = get[h]
  <2>1. [NoGet EXCEPT !.phase = "got", !.provider = p] \in GetStates
    BY RecordsTyped
  <2>2. get'[g] = [NoGet EXCEPT !.phase = "got", !.provider = p]
    BY <1>2, SharedTypes
  <2> QED BY <1>2, <2>1, <2>2, ReturnedFields, SharedTypes
<1>5. SharedTypeOK'
  BY <1>2, <1>3, <1>4, SharedTypes, SharedTypesNext
<1>6. OpeningSound' /\ \A q \in Providers : ProviderSound(q)'
  BY <1>1, <1>2, <1>3 DEF SharedSound, OpeningSound, ProviderSound
<1>7. \A h \in Callers : GetSound(h)'
  <2> SUFFICES ASSUME NEW h \in Callers PROVE GetSound(h)'
    OBVIOUS
  <2>1. GetSound(h) /\ Opens(g)
    BY DEF SharedSound, GetSound
  <2>2. Waits(h)' /\ CleansUp(h)' /\ Joins(h)' /\ Got(h)'
    BY <1>1, <1>2, <1>3, <1>4, <2>1 DEF GetSound, Waits, CleansUp, Joins, Got
  <2>3. Opens(h)'
    BY <1>1, <1>2, <1>3, <1>4, <2>1 DEF GetSound, Opens
  <2>4. Calling(h)'
    BY <1>1, <1>2, <1>3, <2>1, SharedTypes DEF GetSound, Calling
  <2> QED BY <2>1, <2>2, <2>3, <2>4 DEF GetSound
<1>8. \A o \in Resetters : ResetSound(o)'
  <2> SUFFICES ASSUME NEW o \in Resetters PROVE ResetSound(o)'
    OBVIOUS
  <2>1. \A h \in Callers : Woken(h)' => Woken(h)
    BY <1>4 DEF Woken
  <2> QED BY <1>2, <2>1 DEF SharedSound, ResetSound
<1> QED BY <1>5, <1>6, <1>7, <1>8 DEF SharedSound

\* Closing what is in use changes the life of a provider that is open or broken.
LEMMA ServiceClosing ==
    ASSUME SharedTypeOK, SharedSound, NEW P \in [Providers -> ProviderStates],
           \A p \in Providers : P[p].life = providers[p].life /\ P[p].config = providers[p].config
    PROVE  /\ ServiceCloses(P) \in [Providers -> ProviderStates]
           /\ \A p \in Providers :
                 /\ ServiceCloses(P)[p].config = providers[p].config
                 /\ ServiceCloses(P)[p].warm = P[p].warm
                 /\ ServiceCloses(P)[p].life =
                       IF providers[p].life \in {"open", "broken"} THEN "closing"
                       ELSE providers[p].life
<1>1. \A p \in Providers : p \in Closing(service) <=> providers[p].life \in {"open", "broken"}
  BY NamesDiffer DEF Closing, SharedSound, ProviderSound, Live
<1> QED BY <1>1 DEF ServiceCloses, ProviderStates

\* The warm-up is over without success; what is closed is what was opened.
LEMMA WarmFailsKeeps ==
    ASSUME SharedTypeOK, SharedSound, NEW g \in Callers, config' = config, WarmFails(g)
    PROVE  SharedTypeOK' /\ SharedSound'
<1>1. PICK p \in Providers : /\ p = get[g].own /\ providers[p].warm = "pending"
                             /\ providers[p].life \in {"open", "closing"} /\ service = p
                             /\ get[g].phase = "opens"
  BY DEF WarmFails, SharedSound, GetSound, Opens, ProviderSound, Live
<1> DEFINE P == [providers EXCEPT ![p].warm = "failed"]
<1>2. /\ UNCHANGED <<service, opening, resetting, disposed, calls, reset>>
      /\ providers' = ServiceCloses(P)
      /\ get' = [get EXCEPT ![g].phase = "cleans", ![g].provider = p]
      /\ Fails \/ UNCHANGED failures
  BY <1>1 DEF WarmFails
<1>3. /\ P \in [Providers -> ProviderStates]
      /\ P[p].warm = "failed"
      /\ \A q \in Providers : /\ P[q].life = providers[q].life /\ P[q].config = providers[q].config
                              /\ q # p => P[q].warm = providers[q].warm
  BY SharedTypes DEF ProviderStates
<1> HIDE DEF P
<1>4. /\ providers' \in [Providers -> ProviderStates]
      /\ providers'[p].warm = "failed"
      /\ \A q \in Providers :
            /\ providers'[q].config = providers[q].config
            /\ q # p => providers'[q].warm = providers[q].warm
            /\ providers'[q].life = IF providers[q].life \in {"open", "broken"} THEN "closing"
                                    ELSE providers[q].life
  BY <1>2, <1>3, ServiceClosing
<1>5. /\ get' \in [Callers -> GetStates]
      /\ get'[g].phase = "cleans" /\ get'[g].provider = p /\ get'[g].own = p
      /\ \A h \in Callers : h # g => get'[h] = get[h]
  <2> DEFINE x == [get[g] EXCEPT !.phase = "cleans", !.provider = p]
  <2>1. get[g] \in GetStates /\ get' = [get EXCEPT ![g] = x]
    BY <1>2, SharedTypes
  <2>2. x \in GetStates
    BY <2>1, RecordsTyped
  <2>3. x.phase = "cleans" /\ x.provider = p /\ x.own = p
    BY <1>1, <2>1 DEF GetStates
  <2> HIDE DEF x
  <2> QED BY <2>1, <2>2, <2>3, SharedTypes
<1>6. SharedTypeOK'
  <2>1. failures' \in 0..MaxFailures
    BY <1>2, FailureCounted, SharedTypes
  <2> QED BY <1>2, <1>4, <1>5, <2>1, SharedTypes, SharedTypesNext
<1>7. OpeningSound' /\ \A q \in Providers : ProviderSound(q)'
  <2>1. OpeningSound'
    BY <1>2, <1>4 DEF SharedSound, OpeningSound
  <2>2. ASSUME NEW q \in Providers PROVE ProviderSound(q)'
    <3>1. ProviderSound(q)
      BY DEF SharedSound
    <3>2. providers'[q].warm = "pending" => providers[q].warm = "pending"
      BY <1>4
    <3> QED BY <1>2, <1>4, <3>1, <3>2 DEF ProviderSound, Live
  <2> QED BY <2>1, <2>2
<1>8. \A h \in Callers : GetSound(h)'
  <2> SUFFICES ASSUME NEW h \in Callers PROVE GetSound(h)'
    OBVIOUS
  <2>1. GetSound(h) /\ Opens(g)
    BY DEF SharedSound, GetSound
  <2>2. \A q \in Providers : providers[q].life # "none" => providers'[q].life # "none"
    BY <1>4
  <2>3. Waits(h)' /\ CleansUp(h)' /\ Joins(h)' /\ Got(h)'
    <3>1. Waits(h)'
      BY <1>2, <1>5, <2>1 DEF GetSound, Waits
    <3>2. CleansUp(h)'
      BY <1>1, <1>4, <1>5, <2>1, <2>2 DEF GetSound, CleansUp
    <3>3. Joins(h)'
      BY <1>2, <1>4, <1>5, <2>1, <2>2 DEF GetSound, Joins
    <3>4. Got(h)'
      BY <1>1, <1>2, <1>4, <1>5, <2>1 DEF GetSound, Got
    <3> QED BY <3>1, <3>2, <3>3, <3>4
  <2>4. Opens(h)'
    BY <1>1, <1>2, <1>4, <1>5, <2>1 DEF GetSound, Opens
  <2>5. Calling(h)'
    <3> SUFFICES ASSUME calls[h] # None PROVE Calling(h)'
      BY <1>2 DEF Calling
    <3>1. /\ calls[h] \in Providers /\ providers[calls[h]].life = "open"
          /\ providers[calls[h]].warm = "ready"
      BY <2>1, SharedTypes DEF GetSound, Calling
    <3>2. service = calls[h]
      BY <3>1 DEF SharedSound, ProviderSound, Live
    <3> QED BY <1>1, <3>1, <3>2
  <2> QED BY <2>3, <2>4, <2>5 DEF GetSound
<1>9. \A o \in Resetters : ResetSound(o)'
  <2> SUFFICES ASSUME NEW o \in Resetters PROVE ResetSound(o)'
    OBVIOUS
  <2>1. \A h \in Callers : Woken(h)' => Woken(h)
    BY <1>5 DEF Woken
  <2> QED BY <1>2, <2>1 DEF SharedSound, ResetSound
<1> QED BY <1>6, <1>7, <1>8, <1>9 DEF SharedSound

\* The provider whose warm-up failed is closed, and the next get() opens another.
LEMMA CleansKeeps ==
    ASSUME SharedTypeOK, SharedSound, NEW g \in Callers, config' = config, Cleans(g)
    PROVE  SharedTypeOK' /\ SharedSound'
<1>1. PICK p \in Providers : /\ p = get[g].own /\ p = get[g].provider
                             /\ providers[p].warm = "failed" /\ providers[p].life = "closed"
  BY NamesDiffer DEF Cleans, SharedSound, GetSound, CleansUp
<1> DEFINE x == [NoGet EXCEPT !.phase = "failed"]
<1>2. /\ UNCHANGED <<providers, resetting, disposed, calls, reset, failures>>
      /\ service' = IF service = p THEN None ELSE service
      /\ opening' = IF opening = p THEN None ELSE opening
      /\ get' = [get EXCEPT ![g] = x]
  BY <1>1 DEF Cleans, Throws
<1>3. x \in GetStates /\ x.phase = "failed"
  <2>1. x \in GetStates
    BY RecordsTyped
  <2> QED BY <2>1 DEF NoGet
<1> HIDE DEF x
<1>4. /\ get' \in [Callers -> GetStates]
      /\ get'[g].phase = "failed"
      /\ \A h \in Callers : h # g => get'[h] = get[h]
  BY <1>2, <1>3, SharedTypes
<1>5. SharedTypeOK'
  BY <1>2, <1>4, SharedTypes, SharedTypesNext
<1>6. OpeningSound'
  BY <1>1, <1>2, NamesDiffer, SharedTypes DEF SharedSound, OpeningSound
<1>7. \A q \in Providers : ProviderSound(q)'
  BY <1>1, <1>2 DEF SharedSound, ProviderSound, Live
<1>8. \A h \in Callers : GetSound(h)'
  <2> SUFFICES ASSUME NEW h \in Callers PROVE GetSound(h)'
    OBVIOUS
  <2>1. GetSound(h)
    BY DEF SharedSound
  <2>2. Opens(h)'
    BY <1>2, <1>4, <2>1 DEF GetSound, Opens
  <2>3. Waits(h)' /\ CleansUp(h)' /\ Joins(h)' /\ Got(h)' /\ Calling(h)'
    BY <1>1, <1>2, <1>4, <2>1 DEF GetSound, Waits, Joins, CleansUp, Got, Calling
  <2> QED BY <2>2, <2>3 DEF GetSound
<1>9. \A o \in Resetters : ResetSound(o)'
  <2> SUFFICES ASSUME NEW o \in Resetters PROVE ResetSound(o)'
    OBVIOUS
  <2>1. \A h \in Callers : Woken(h)' => Woken(h)
    BY <1>4 DEF Woken
  <2> QED BY <1>2, <2>1 DEF SharedSound, ResetSound
<1> QED BY <1>5, <1>6, <1>7, <1>8, <1>9 DEF SharedSound

LEMMA GetKeeps ==
    ASSUME SharedTypeOK, SharedSound, NEW g \in Callers, config' = config, GetStep(g)
    PROVE  SharedTypeOK' /\ SharedSound'
BY GetAdvances, GetOffKeeps, GetOpensKeeps, WarmsKeeps, WarmFailsKeeps, CleansKeeps DEF GetStep

-----------------------------------------------------------------------------
(* Providers and resets *)

\* A provider that closes is called by nobody, and nobody warms it up.
LEMMA ProviderKeeps ==
    ASSUME SharedTypeOK, SharedSound, NEW p \in Providers, config' = config,
           ProviderCloses(p) \/ ProviderBreaks(p)
    PROVE  SharedTypeOK' /\ SharedSound'
<1>1. PICK l \in {"closed", "broken"} : providers' = [providers EXCEPT ![p].life = l]
  BY DEF ProviderCloses, ProviderBreaks
<1>2. /\ providers[p].life = "closing" /\ providers[p].warm # "pending"
      /\ UNCHANGED <<service, opening, resetting, disposed, get, calls, reset>>
      /\ Fails \/ UNCHANGED failures
  BY DEF ProviderCloses, ProviderBreaks
<1>3. /\ providers' \in [Providers -> ProviderStates]
      /\ providers'[p].life = l
      /\ \A q \in Providers : /\ providers'[q].warm = providers[q].warm
                              /\ providers'[q].config = providers[q].config
                              /\ q # p => providers'[q].life = providers[q].life
  BY <1>1, SharedTypes DEF ProviderStates
<1>4. SharedTypeOK'
  <2>1. failures' \in 0..MaxFailures
    BY <1>2, FailureCounted, SharedTypes
  <2> QED BY <1>2, <1>3, <2>1, SharedTypes, SharedTypesNext
<1>5. OpeningSound'
  BY <1>2, <1>3 DEF SharedSound, OpeningSound
<1>6. \A q \in Providers : ProviderSound(q)'
  <2> SUFFICES ASSUME NEW q \in Providers PROVE ProviderSound(q)'
    OBVIOUS
  <2> QED BY <1>2, <1>3 DEF SharedSound, ProviderSound, Live
<1>7. \A h \in Callers : GetSound(h)'
  <2> SUFFICES ASSUME NEW h \in Callers PROVE GetSound(h)'
    OBVIOUS
  <2>1. GetSound(h)
    BY DEF SharedSound
  <2>2. \A q \in Providers : providers[q].life # "none" => providers'[q].life # "none"
    BY <1>3
  <2>3. Waits(h)' /\ CleansUp(h)' /\ Joins(h)' /\ Got(h)'
    BY <1>2, <1>3, <2>1, <2>2, SharedTypes DEF GetSound, Waits, Joins, CleansUp, Got
  <2>4. Opens(h)'
    BY <1>2, <1>3, <2>1 DEF GetSound, Opens
  <2>5. Calling(h)'
    BY <1>2, <1>3, <2>1, SharedTypes DEF GetSound, Calling
  <2> QED BY <2>3, <2>4, <2>5 DEF GetSound
<1>8. \A o \in Resetters : ResetSound(o)'
  BY <1>2 DEF SharedSound, ResetSound, Woken
<1> QED BY <1>4, <1>5, <1>6, <1>7, <1>8 DEF SharedSound

\* reset(), for somebody who has none under way.
LEMMA ResetBeginsKeeps ==
    ASSUME SharedTypeOK, SharedSound, NEW o \in Resetters, config' = config,
           reset[o].at = "idle", ResetBegins(o), disposed' \in BOOLEAN,
           UNCHANGED <<providers, service, opening, get, calls, failures>>
    PROVE  SharedTypeOK' /\ SharedSound'
<1>1. PICK x \in ResetStates : /\ reset' = [reset EXCEPT ![o] = x]
                               /\ resetting = None => x.at = "opening" /\ resetting' = o
                               /\ resetting # None => /\ x.at = "joins" /\ x.awaits = resetting
                                                      /\ resetting' = resetting
  <2>1. CASE resetting = None
    <3>1. [at |-> "opening", awaits |-> opening] \in ResetStates
      BY SharedTypes DEF ResetStates
    <3> QED BY <2>1, <3>1 DEF ResetBegins
  <2>2. CASE resetting # None
    <3>1. [at |-> "joins", awaits |-> resetting] \in ResetStates
      BY <2>2, SharedTypes DEF ResetStates
    <3> QED BY <2>2, <3>1 DEF ResetBegins
  <2> QED BY <2>1, <2>2
<1>2. /\ reset' \in [Resetters -> ResetStates] /\ reset'[o] = x
      /\ \A r \in Resetters : r # o => reset'[r] = reset[r]
  BY <1>1, SharedTypes
<1>3. SharedTypeOK'
  BY <1>1, <1>2, SharedTypes, SharedTypesNext
<1>4. OpeningSound' /\ \A p \in Providers : ProviderSound(p)'
  BY DEF SharedSound, OpeningSound, ProviderSound
<1>5. \A g \in Callers : GetSound(g)'
  <2> SUFFICES ASSUME NEW g \in Callers PROVE GetSound(g)'
    OBVIOUS
  <2>1. GetSound(g)
    BY DEF SharedSound
  <2>2. Waits(g)'
    BY <1>1, <2>1 DEF GetSound, Waits
  <2>3. Joins(g)' /\ Opens(g)' /\ CleansUp(g)' /\ Got(g)' /\ Calling(g)'
    BY <2>1 DEF GetSound, Joins, Opens, CleansUp, Got, Calling
  <2> QED BY <2>2, <2>3 DEF GetSound
<1>6. \A r \in Resetters : ResetSound(r)'
  <2> SUFFICES ASSUME NEW r \in Resetters PROVE ResetSound(r)'
    OBVIOUS
  <2>1. ResetSound(r) /\ ResetSound(o)
    BY DEF SharedSound
  <2>2. \A g \in Callers : Woken(g)' => Woken(g)
    BY DEF Woken
  <2>3. CASE r = o
    BY <1>1, <1>2, <2>1, <2>3, NamesDiffer DEF ResetSound, Active
  <2>4. CASE r # o
    BY <1>1, <1>2, <2>1, <2>2, <2>4, NamesDiffer DEF ResetSound, Active
  <2> QED BY <2>3, <2>4
<1> QED BY <1>3, <1>4, <1>5, <1>6 DEF SharedSound

LEMMA ResetPassesKeeps ==
    ASSUME SharedTypeOK, SharedSound, NEW o \in Resetters, config' = config, ResetPasses(o)
    PROVE  SharedTypeOK' /\ SharedSound'
<1> DEFINE x == [at |-> "calls", awaits |-> None]
<1>1. /\ UNCHANGED <<provision, get, calls, failures>>
      /\ reset[o].at = "opening" /\ \A g \in Callers : ~Woken(g)
      /\ reset' = [reset EXCEPT ![o] = x]
  BY DEF ResetPasses, Delivered
<1>2. x \in ResetStates
  BY DEF ResetStates
<1>3. /\ reset' \in [Resetters -> ResetStates] /\ reset'[o] = x
      /\ \A r \in Resetters : r # o => reset'[r] = reset[r]
  BY <1>1, <1>2, SharedTypes
<1> USE DEF provision
<1>4. SharedTypeOK'
  BY <1>1, <1>3, SharedTypes, SharedTypesNext
<1>5. OpeningSound' /\ \A p \in Providers : ProviderSound(p)'
  BY <1>1 DEF SharedSound, OpeningSound, ProviderSound
<1>6. \A g \in Callers : GetSound(g)'
  BY <1>1 DEF SharedSound, GetSound, Waits, Joins, Opens, CleansUp, Got, Calling
<1>7. \A r \in Resetters : ResetSound(r)'
  <2> SUFFICES ASSUME NEW r \in Resetters PROVE ResetSound(r)'
    OBVIOUS
  <2>1. ResetSound(r) /\ \A g \in Callers : Woken(g)' = Woken(g)
    BY <1>1 DEF SharedSound, Woken
  <2>2. CASE r = o
    BY <1>1, <1>3, <2>1, <2>2 DEF ResetSound, Active
  <2>3. CASE r # o
    BY <1>1, <1>3, <2>1, <2>3 DEF ResetSound, Active
  <2> QED BY <2>2, <2>3
<1> QED BY <1>4, <1>5, <1>6, <1>7 DEF SharedSound

\* The reset closes the provider when no call runs on it.
LEMMA ResetClosesKeeps ==
    ASSUME SharedTypeOK, SharedSound, NEW o \in Resetters, config' = config, ResetCloses(o)
    PROVE  SharedTypeOK' /\ SharedSound'
<1> DEFINE x == [at |-> "close", awaits |-> service]
<1>1. /\ UNCHANGED <<service, opening, resetting, disposed, get, calls, failures>>
      /\ reset[o].at = "calls" /\ \A g \in Callers : calls[g] = None
      /\ reset' = [reset EXCEPT ![o] = x]
      /\ providers' = ServiceCloses(providers)
  BY DEF ResetCloses
<1>2. x \in ResetStates
  BY SharedTypes DEF ResetStates
<1>3. /\ reset' \in [Resetters -> ResetStates] /\ reset'[o] = x
      /\ \A r \in Resetters : r # o => reset'[r] = reset[r]
  BY <1>1, <1>2, SharedTypes
<1>4. /\ providers' \in [Providers -> ProviderStates]
      /\ \A q \in Providers :
            /\ providers'[q].config = providers[q].config
            /\ providers'[q].warm = providers[q].warm
            /\ providers'[q].life = IF providers[q].life \in {"open", "broken"} THEN "closing"
                                    ELSE providers[q].life
  BY <1>1, ServiceClosing, SharedTypes
<1>5. SharedTypeOK'
  BY <1>1, <1>3, <1>4, SharedTypes, SharedTypesNext
<1>6. OpeningSound'
  BY <1>1, <1>4 DEF SharedSound, OpeningSound
<1>7. \A q \in Providers : ProviderSound(q)'
  BY <1>1, <1>4 DEF SharedSound, ProviderSound, Live
<1>8. \A g \in Callers : GetSound(g)'
  <2> SUFFICES ASSUME NEW g \in Callers PROVE GetSound(g)'
    OBVIOUS
  <2>1. GetSound(g)
    BY DEF SharedSound
  <2>2. \A q \in Providers : providers[q].life # "none" => providers'[q].life # "none"
    BY <1>4
  <2>3. Waits(g)' /\ Opens(g)' /\ Calling(g)'
    BY <1>1, <1>4, <2>1 DEF GetSound, Waits, Opens, Calling
  <2>4. Joins(g)' /\ CleansUp(g)' /\ Got(g)'
    BY <1>1, <1>4, <2>1, <2>2, SharedTypes DEF GetSound, Joins, CleansUp, Got
  <2> QED BY <2>3, <2>4 DEF GetSound
<1>9. \A r \in Resetters : ResetSound(r)'
  <2> SUFFICES ASSUME NEW r \in Resetters PROVE ResetSound(r)'
    OBVIOUS
  <2>1. ResetSound(r) /\ \A g \in Callers : Woken(g)' = Woken(g)
    BY <1>1 DEF SharedSound, Woken
  <2>2. CASE r = o
    BY <1>1, <1>3, <2>1, <2>2, SharedTypes DEF ResetSound, Active
  <2>3. CASE r # o
    BY <1>1, <1>3, <2>1, <2>3 DEF ResetSound, Active
  <2> QED BY <2>2, <2>3
<1> QED BY <1>5, <1>6, <1>7, <1>8, <1>9 DEF SharedSound

\* Who awaits the promise of a reset is told how it ends, and nobody else.
LEMMA SettlingKeeps ==
    ASSUME SharedTypeOK, SharedSound, NEW o \in Resetters, resetting = o,
           NEW at \in {"done", "failed"}, ResetSettles(o, at)
    PROVE  /\ get' \in [Callers -> GetStates] /\ reset' \in [Resetters -> ResetStates]
           /\ resetting' = None
           /\ \A g \in Callers :
                 \/ get[g].phase # "waits" /\ get'[g] = get[g]
                 \/ get[g].phase = "waits" /\ get'[g].phase = "failed"
                 \/ get[g].phase = "waits" /\ Woken(g)'
           /\ \A r \in Resetters : reset'[r].at \notin Active \cup {"joins"}
           /\ \A r \in Resetters : reset'[r] = reset[r] \/ reset'[r].at = at
<1>1. /\ resetting' = None
      /\ reset' = [r \in Resetters |->
                    IF r = o \/ (reset[r].at = "joins" /\ reset[r].awaits = o)
                    THEN [at |-> at, awaits |-> None] ELSE reset[r]]
      /\ get' = [g \in Callers |->
                  IF get[g].phase = "waits" /\ get[g].awaits = o
                  THEN [get[g] EXCEPT !.awaits = None,
                                      !.phase = IF at = "failed" THEN "failed" ELSE @]
                  ELSE get[g]]
  BY DEF ResetSettles
<1>2. [at |-> at, awaits |-> None] \in ResetStates
  BY DEF ResetStates
<1>3. \A g \in Callers :
        /\ get'[g] \in GetStates
        /\ \/ get[g].phase # "waits" /\ get'[g] = get[g]
           \/ get[g].phase = "waits" /\ get'[g].phase = "failed"
           \/ get[g].phase = "waits" /\ get'[g].phase = "waits" /\ get'[g].awaits = None
  <2> SUFFICES ASSUME NEW g \in Callers
               PROVE  /\ get'[g] \in GetStates
                      /\ \/ get[g].phase # "waits" /\ get'[g] = get[g]
                         \/ get[g].phase = "waits" /\ get'[g].phase = "failed"
                         \/ /\ get[g].phase = "waits" /\ get'[g].phase = "waits"
                            /\ get'[g].awaits = None
    OBVIOUS
  <2>1. get[g] \in GetStates /\ Waits(g)
    BY SharedTypes DEF SharedSound, GetSound
  <2>2. CASE get[g].phase = "waits" /\ get[g].awaits = o
    <3> DEFINE x == [get[g] EXCEPT !.awaits = None,
                                   !.phase = IF at = "failed" THEN "failed" ELSE @]
    <3>1. get'[g] = x
      BY <1>1, <2>2
    <3>2. x \in GetStates
      BY <2>1 DEF GetStates
    <3>3. x.awaits = None /\ x.phase = IF at = "failed" THEN "failed" ELSE get[g].phase
      BY <2>1 DEF GetStates
    <3> QED BY <2>2, <3>1, <3>2, <3>3
  <2>3. CASE ~(get[g].phase = "waits" /\ get[g].awaits = o)
    <3>1. get'[g] = get[g]
      BY <1>1, <2>3
    <3>2. get[g].phase = "waits" => get[g].awaits = None
      BY <2>1, <2>3 DEF Waits
    <3> QED BY <2>1, <3>1, <3>2
  <2> QED BY <2>2, <2>3
<1>4. \A r \in Resetters :
        /\ reset'[r] \in ResetStates /\ reset'[r].at \notin Active \cup {"joins"}
        /\ reset'[r] = reset[r] \/ reset'[r].at = at
  <2> SUFFICES ASSUME NEW r \in Resetters
               PROVE  /\ reset'[r] \in ResetStates /\ reset'[r].at \notin Active \cup {"joins"}
                      /\ reset'[r] = reset[r] \/ reset'[r].at = at
    OBVIOUS
  <2>1. ResetSound(r) /\ reset[r] \in ResetStates
    BY SharedTypes DEF SharedSound
  <2>2. CASE r = o \/ (reset[r].at = "joins" /\ reset[r].awaits = o)
    <3>1. reset'[r] = [at |-> at, awaits |-> None]
      BY <1>1, <2>2
    <3> QED BY <1>2, <3>1 DEF Active
  <2>3. CASE ~(r = o \/ (reset[r].at = "joins" /\ reset[r].awaits = o))
    <3>1. reset'[r] = reset[r]
      BY <1>1, <2>3
    <3> QED BY <2>1, <2>3, <3>1 DEF ResetSound, Active
  <2> QED BY <2>2, <2>3
<1>5. get' = [g \in Callers |-> get'[g]] /\ reset' = [r \in Resetters |-> reset'[r]]
  BY <1>1
<1> QED BY <1>1, <1>3, <1>4, <1>5 DEF Woken

\* A reset that ends, and what its end leaves in use.
LEMMA ResetEndsKeeps ==
    ASSUME SharedTypeOK, SharedSound, NEW o \in Resetters, config' = config,
           ResetClears(o) \/ ResetFails(o)
    PROVE  SharedTypeOK' /\ SharedSound'
<1>1. PICK at \in {"done", "failed"} : ResetSettles(o, at)
  BY DEF ResetClears, ResetFails
<1>2. /\ UNCHANGED <<providers, disposed, calls, failures>> /\ reset[o].at = "close"
      /\ reset[o].awaits \in Providers => providers[reset[o].awaits].life \in {"closed", "broken"}
      /\ \/ service' = service /\ opening' = opening
         \/ /\ service' = None /\ opening' = None
            /\ reset[o].awaits # None => providers[reset[o].awaits].life = "closed"
            /\ \A g \in Callers : ~Returned(g)
  BY NamesDiffer DEF ResetClears, ResetFails
<1>3. /\ resetting = o /\ reset[o].awaits \in Providers \cup {None}
      /\ service \in {reset[o].awaits, None}
      /\ \A g \in Callers : ~Woken(g)
  BY <1>2 DEF SharedSound, ResetSound, Active
<1>4. /\ get' \in [Callers -> GetStates] /\ reset' \in [Resetters -> ResetStates]
      /\ resetting' = None
      /\ \A g \in Callers :
            \/ get[g].phase # "waits" /\ get'[g] = get[g]
            \/ get[g].phase = "waits" /\ get'[g].phase = "failed"
            \/ get[g].phase = "waits" /\ Woken(g)'
      /\ \A r \in Resetters : reset'[r].at \notin Active \cup {"joins"}
  BY <1>1, <1>3, SettlingKeeps
<1>5. SharedTypeOK'
  BY <1>2, <1>4, SharedTypes, SharedTypesNext
<1>6. service' # service => \A p \in Providers : providers[p].life \notin Live
  <2> SUFFICES ASSUME service' # service, NEW p \in Providers, providers[p].life \in Live
               PROVE  FALSE
    OBVIOUS
  <2>1. service = p /\ reset[o].awaits = p
    BY <1>3, NamesDiffer DEF SharedSound, ProviderSound
  <2> QED BY <1>2, <2>1, NamesDiffer DEF Live
<1>7. OpeningSound'
  BY <1>2, NamesDiffer DEF SharedSound, OpeningSound
<1>8. \A p \in Providers : ProviderSound(p)'
  BY <1>2, <1>6 DEF SharedSound, ProviderSound
<1>9. \A g \in Callers : GetSound(g)'
  <2> SUFFICES ASSUME NEW g \in Callers PROVE GetSound(g)'
    OBVIOUS
  <2>1. GetSound(g)
    BY DEF SharedSound
  <2>2. Waits(g)'
    BY <1>4 DEF Waits, Woken
  <2>3. Calling(g)'
    BY <1>2, <2>1 DEF GetSound, Calling
  <2>4. \A h \in Callers : get'[h].phase \notin {"waits", "failed"} => get'[h] = get[h]
    BY <1>4 DEF Woken
  <2>5. Opens(g)' /\ CleansUp(g)'
    BY <1>2, <2>1, <2>4 DEF GetSound, Opens, CleansUp
  <2>6. Joins(g)'
    <3> SUFFICES ASSUME get'[g].phase = "joins" PROVE Joins(g)'
      BY DEF Joins
    <3>1. get'[g] = get[g] /\ Joins(g) /\ get[g].phase = "joins"
      BY <2>1, <2>4 DEF GetSound
    <3>2. CASE service' = service
      BY <1>2, <3>1, <3>2 DEF Joins
    <3>3. CASE service' # service
      <4>1. /\ ~Returned(g)
            /\ \A p \in Providers : providers[p].warm # "pending"
        BY <1>2, <1>6, <3>3 DEF SharedSound, ProviderSound, Live
      <4>2. get[g].own \in Providers => providers[get[g].own].warm \in {"none", "failed"}
        BY <3>1, <4>1, SharedTypes DEF Returned, ProviderStates
      <4>3. get[g].own \in Providers => providers[get[g].own].warm = "failed"
        BY <3>1, <4>2 DEF Joins, SharedSound, ProviderSound
      <4> QED BY <1>2, <3>1, <4>3 DEF Joins
    <3> QED BY <3>2, <3>3
  <2>7. Got(g)'
    BY <1>2, <2>1, <2>4 DEF GetSound, Got, Returned
  <2> QED BY <2>2, <2>3, <2>5, <2>6, <2>7 DEF GetSound
<1>10. \A r \in Resetters : ResetSound(r)'
  BY <1>4, NamesDiffer DEF ResetSound, Active
<1> QED BY <1>5, <1>7, <1>8, <1>9, <1>10 DEF SharedSound

\* Who asked for a reset that is over takes its result.
LEMMA ResetLeaves ==
    ASSUME SharedTypeOK, SharedSound, NEW o \in Resetters, config' = config,
           reset[o].at \in {"done", "failed"}, reset' = [reset EXCEPT ![o] = NoReset],
           UNCHANGED <<provision, get, calls, failures>>
    PROVE  SharedTypeOK' /\ SharedSound'
<1>1. /\ reset' \in [Resetters -> ResetStates] /\ reset'[o] = NoReset
      /\ \A r \in Resetters : r # o => reset'[r] = reset[r]
  BY RecordsTyped, SharedTypes
<1> USE DEF provision
<1>2. SharedTypeOK'
  BY <1>1, SharedTypes, SharedTypesNext
<1>3. OpeningSound' /\ \A p \in Providers : ProviderSound(p)'
  BY DEF SharedSound, OpeningSound, ProviderSound
<1>4. \A g \in Callers : GetSound(g)'
  BY DEF SharedSound, GetSound, Waits, Joins, Opens, CleansUp, Got, Calling
<1>5. \A r \in Resetters : ResetSound(r)'
  <2> SUFFICES ASSUME NEW r \in Resetters PROVE ResetSound(r)'
    OBVIOUS
  <2>1. ResetSound(r) /\ \A g \in Callers : Woken(g)' = Woken(g)
    BY DEF SharedSound, Woken
  <2>2. CASE r = o
    BY <1>1, <2>1, <2>2 DEF ResetSound, Active, NoReset
  <2>3. CASE r # o
    BY <1>1, <2>1, <2>3 DEF ResetSound
  <2> QED BY <2>2, <2>3
<1> QED BY <1>2, <1>3, <1>4, <1>5 DEF SharedSound

-----------------------------------------------------------------------------
(* The process, and all steps together *)

\* A process that starts has no provider.
LEMMA StartSound ==
    ASSUME SharedInit
    PROVE  /\ SharedSound
           /\ config \in Configurations /\ failures \in 0..MaxFailures => SharedTypeOK
<1>1. NoProvider \in ProviderStates /\ NoGet \in GetStates /\ NoReset \in ResetStates
  BY RecordsTyped DEF NoProvider, ProviderStates
<1>2. /\ \A p \in Providers : providers[p] = NoProvider
      /\ \A g \in Callers : get[g] = NoGet /\ calls[g] = None
      /\ \A o \in Resetters : reset[o] = NoReset
  BY DEF SharedInit
<1>3. OpeningSound /\ \A p \in Providers : ProviderSound(p)
  BY <1>2, NamesDiffer DEF SharedInit, OpeningSound, ProviderSound, NoProvider, Live
<1>4. \A g \in Callers : GetSound(g)
  BY <1>2 DEF GetSound, Waits, Joins, Opens, CleansUp, Got, Calling, NoGet
<1>5. \A o \in Resetters : ResetSound(o)
  BY <1>2, NamesDiffer DEF ResetSound, NoReset, Active, SharedInit
<1>6. config \in Configurations /\ failures \in 0..MaxFailures => SharedTypeOK
  BY <1>1, SharedTypes DEF SharedInit
<1> QED BY <1>3, <1>4, <1>5, <1>6 DEF SharedSound

Starts == SharedInit /\ config \in Configurations /\ failures \in 0..MaxFailures
LEMMA StartSoundNext == Starts' => SharedTypeOK' /\ SharedSound'
<1>1. Starts => SharedTypeOK /\ SharedSound
  BY StartSound DEF Starts
<1> QED BY <1>1, PTL

LEMMA SharedStepKeeps ==
    ASSUME SharedTypeOK, SharedSound, SharedStep, config' = config
    PROVE  SharedTypeOK' /\ SharedSound'
BY GetKeeps, ProviderKeeps, ResetPassesKeeps, ResetClosesKeeps, ResetEndsKeeps
   DEF SharedStep, ResetStep

\* What a provider was opened with stays, as long as the process lives.
LEMMA ConfigurationsStay ==
    ASSUME SharedTypeOK, SharedSound, SharedStep
    PROVE  \A p \in Providers : providers[p].life # "none" =>
              providers'[p].life # "none" /\ providers'[p].config = providers[p].config
<1>1. CASE \E g \in Callers : GetStep(g)
  <2> PICK g \in Callers : GetStep(g)
    BY <1>1
  <2>1. CASE UNCHANGED providers
    BY <2>1
  <2>2. CASE GetOpens(g)
    BY <2>2, SharedTypes DEF GetOpens
  <2>3. CASE Warms(g)
    BY <2>3, SharedTypes DEF Warms, ProviderStates
  <2>4. CASE WarmFails(g)
    <3> DEFINE P == [providers EXCEPT ![get[g].own].warm = "failed"]
    <3>1. providers' = ServiceCloses(P)
      BY <2>4 DEF WarmFails
    <3>2. /\ P \in [Providers -> ProviderStates]
          /\ \A q \in Providers : P[q].life = providers[q].life /\ P[q].config = providers[q].config
      BY SharedTypes DEF ProviderStates
    <3> HIDE DEF P
    <3> QED BY <3>1, <3>2, ServiceClosing
  <2> QED BY <2>1, <2>2, <2>3, <2>4 DEF GetStep, GetRefused, GetJoins, GetOff, Cleans,
          CleaningFails, JoinEnds, provision
<1>2. CASE \E p \in Providers : ProviderCloses(p) \/ ProviderBreaks(p)
  BY <1>2, SharedTypes DEF ProviderCloses, ProviderBreaks, ProviderStates
<1>3. CASE \E o \in Resetters : ResetStep(o)
  <2>1. providers' = providers \/ providers' = ServiceCloses(providers)
    BY <1>3 DEF ResetStep, ResetPasses, ResetCloses, ResetClears, ResetFails, provision
  <2> QED BY <2>1, ServiceClosing, SharedTypes
<1> QED BY <1>1, <1>2, <1>3 DEF SharedStep

-----------------------------------------------------------------------------
(* What the invariant is for *)

LEMMA SharedImplies ==
    ASSUME SharedTypeOK, SharedSound
    PROVE  CallsEndFirst /\ OneProvider
<1>1. CallsEndFirst
  BY DEF CallsEndFirst, SharedSound, GetSound, Calling
<1>2. OneProvider
  <2> SUFFICES ASSUME NEW p \in Providers, NEW q \in Providers,
                      {providers[p].life, providers[q].life} \cap {"none", "closed"} = {}
               PROVE  p = q
    BY DEF OneProvider
  <2>1. providers[p].life \in Live /\ providers[q].life \in Live
    BY SharedTypes DEF ProviderStates, Live
  <2> QED BY <2>1 DEF SharedSound, ProviderSound
<1> QED BY <1>1, <1>2

-----------------------------------------------------------------------------
(* For the modules that borrow the provider *)

LEMMA BorrowersStep ==
    ASSUME SharedTypeOK, SharedSound, Borrows,
           config' \in Configurations, Fails \/ UNCHANGED failures,
           get' = [g \in Callers |-> get'[g]], calls' = [g \in Callers |-> calls'[g]]
    PROVE  SharedTypeOK' /\ SharedSound'
<1>1. get' \in [Callers -> GetStates]
  <2>1. \A g \in Callers : get'[g] \in GetStates
    BY RecordsTyped, AskedTyped, SharedTypes DEF Borrows
  <2> QED BY <2>1
<1>2. calls' \in [Callers -> Providers \cup {None}]
  <2>1. \A g \in Callers : calls'[g] \in Providers \cup {None}
    BY SharedTypes DEF Borrows
  <2> QED BY <2>1
<1>3. failures' \in 0..MaxFailures
  BY FailureCounted, SharedTypes
<1>4. UNCHANGED <<provision, reset>>
  BY DEF Borrows
<1>5. SharedTypeOK'
  BY <1>1, <1>2, <1>3, <1>4, SharedTypes, SharedTypesNext DEF provision
<1> QED BY <1>5, BorrowingKeeps

\* What one borrower does in a step.
Asks1(g) == get' = [get EXCEPT ![g] = NoGet] \/ get' = [get EXCEPT ![g] = Asked]
Calls1(g) == CallEnds(g) \/ (\E p \in Providers \cup {None} : CallBegins(g, p))

LEMMA BorrowerStep ==
    ASSUME SharedTypeOK, SharedSound, NEW g \in Callers, UNCHANGED <<provision, reset>>,
           config' \in Configurations, Fails \/ UNCHANGED failures,
           UNCHANGED get \/ Asks1(g),
           UNCHANGED calls \/ Calls1(g) \/ calls' = [calls EXCEPT ![g] = None]
    PROVE  SharedTypeOK' /\ SharedSound'
<1>1. /\ get' = [h \in Callers |-> get'[h]]
      /\ \A h \in Callers : get'[h] \in {get[h], NoGet, Asked}
  <2>1. CASE UNCHANGED get
    BY <2>1, SharedTypes
  <2>2. CASE get' = [get EXCEPT ![g] = NoGet]
    BY <2>2, SharedTypes
  <2>3. CASE get' = [get EXCEPT ![g] = Asked]
    BY <2>3, SharedTypes
  <2> QED BY <2>1, <2>2, <2>3 DEF Asks1
<1>2. /\ calls' = [h \in Callers |-> calls'[h]]
      /\ \A h \in Callers : \/ calls'[h] \in {calls[h], None}
                            \/ calls'[h] \in Providers /\ Usable(calls'[h])
  <2>1. CASE UNCHANGED calls \/ CallEnds(g) \/ calls' = [calls EXCEPT ![g] = None]
    BY <2>1, SharedTypes DEF CallEnds
  <2>2. CASE \E p \in Providers \cup {None} : CallBegins(g, p)
    <3>1. PICK p \in Providers \cup {None} : Usable(p) /\ calls' = [calls EXCEPT ![g] = p]
      BY <2>2 DEF CallBegins
    <3>2. p \in Providers
      BY <3>1 DEF Usable
    <3>3. \A h \in Callers : calls'[h] = calls[h] \/ calls'[h] = p
      BY <3>1, SharedTypes
    <3> QED BY <3>1, <3>2, <3>3, SharedTypes
  <2> QED BY <2>1, <2>2 DEF Calls1
<1>3. Borrows
  BY <1>1, <1>2 DEF Borrows
<1> QED BY <1>1, <1>2, <1>3, BorrowersStep

\* Resets go on by themselves, and what is closed for good stays closed.
LEMMA ResetsGoOn ==
    ASSUME SharedTypeOK, SharedSound, SharedStep
    PROVE  /\ disposed' = disposed
           /\ disposed /\ service = None => service' = None
           /\ \A o \in Resetters : reset[o].at = "idle" => reset'[o].at = "idle"
           /\ \A o \in Resetters :
                 reset'[o].at = "done" => reset[o].at = "done" \/ service' = None
<1>1. CASE \E g \in Callers : GetStep(g)
  BY <1>1 DEF GetStep, GetRefused, GetJoins, GetOff, GetOpens, Warms, WarmFails, Cleans,
     CleaningFails, JoinEnds, provision
<1>2. CASE \E p \in Providers : ProviderCloses(p) \/ ProviderBreaks(p)
  BY <1>2 DEF ProviderCloses, ProviderBreaks
<1>3. CASE \E o \in Resetters : ResetStep(o)
  <2> PICK o \in Resetters : ResetStep(o)
    BY <1>3
  <2>1. CASE ResetPasses(o)
    BY <2>1, SharedTypes DEF ResetPasses, provision
  <2>2. CASE ResetCloses(o)
    BY <2>2, SharedTypes DEF ResetCloses
  <2>3. CASE ResetClears(o) \/ ResetFails(o)
    <3>1. /\ disposed' = disposed
          /\ service' = service \/ service' = None
          /\ \A r \in Resetters : reset'[r].at = "done" => reset[r].at = "done" \/ service' = None
      <4>1. CASE ResetClears(o)
        BY <4>1 DEF ResetClears
      <4>2. CASE ResetFails(o)
        <5>1. reset[o].at = "close" /\ ResetSettles(o, "failed")
              /\ UNCHANGED <<disposed, service>>
          BY <4>2 DEF ResetFails
        <5>2. resetting = o
          BY <5>1 DEF SharedSound, ResetSound, Active
        <5>3. \A r \in Resetters : reset'[r] = reset[r] \/ reset'[r].at = "failed"
          BY <5>1, <5>2, SettlingKeeps
        <5> QED BY <5>1, <5>3
      <4> QED BY <2>3, <4>1, <4>2
    <3>2. \A r \in Resetters : reset[r].at = "idle" => reset'[r].at = "idle"
      BY <2>3 DEF ResetClears, ResetFails, ResetSettles
    <3> QED BY <3>1, <3>2
  <2> QED BY <2>1, <2>2, <2>3 DEF ResetStep
<1> QED BY <1>1, <1>2, <1>3 DEF SharedStep
=============================================================================
