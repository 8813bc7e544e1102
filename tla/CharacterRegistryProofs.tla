----------------------- MODULE CharacterRegistryProofs -----------------------
(***************************************************************************)
(* Theorems about the registry of character runtimes, for any number of    *)
(* uses, operations, entries and failures.                                 *)
(***************************************************************************)
EXTENDS CharacterRegistry, FiniteSetTheorems, TLAPS

UsersOf(e) == {u \in Uses : use[u].entry = e}

Removal == {"opening", "stopping", "draining", "closing", "removing", "callback"}
Replacement == {"disposing", "applying"}

\* An entry with its users, its resource and its place in the map.
EntrySound(e) ==
  /\ e > made => entries[e] = ColdEntry
  /\ entries[e].users = Cardinality(UsersOf(e))
  /\ entries[e].resource \in {"open", "closing"} => current = e
  /\ entries[e].opening = "pending" =>
       /\ current = e
       /\ entries[e].users # 0
       /\ entries[e].resource \in {"none", "open"}
  /\ entries[e].opening = "cold" =>
       /\ entries[e].resource = "none"
       /\ e <= made => entries[e].blocked
  /\ entries[e].opening = "opened" => entries[e].resource # "none"
  /\ entries[e].resource \in {"closing", "closed"} => entries[e].blocked

UseSound(u) ==
  /\ use[u].pc = "idle" <=> use[u].entry = 0
  /\ use[u].entry <= made
  /\ use[u].pc = "running" =>
       /\ entries[use[u].entry].opening = "opened"
       /\ entries[use[u].entry].resource = "open"

OpSound(o) ==
  LET pc == op[o].pc
      e == op[o].entry
  IN
  /\ pc \in Removal \cup Replacement => e \in 1 .. made /\ entries[e].blocked
  /\ pc \in Removal => entries[e].closing = o
  /\ pc \in {"stopping", "draining", "closing"} =>
       entries[e].resource # "none" /\ entries[e].opening # "pending"
  /\ pc \in {"stopping", "draining"} =>
       entries[e].undrained \/ entries[e].users = 0
  /\ pc = "closing" => entries[e].resource \in {"closing", "closed"}
  /\ pc \in {"removing", "callback", "applying"} =>
       entries[e].resource \in {"none", "closed"} /\ entries[e].opening # "pending"
  /\ pc = "disposing" => entries[e].resource = "closing"

Sound ==
  /\ current <= made
  /\ \A e \in Ids : EntrySound(e)
  /\ \A u \in Uses : UseSound(u)
  /\ \A o \in Ops : OpSound(o)

IInv == TypeOK /\ Sound

-----------------------------------------------------------------------------
(* Users of an entry. *)

\* There are finitely many invocations, so any of them can be counted.
LEMMA UsesFinite == \A S \in SUBSET Uses : IsFiniteSet(S) /\ Cardinality(S) \in Nat
  BY RegistryAssumption, FS_Subset, FS_CardinalityType

\* An invocation that enters an entry is one more of its users, and of no other's.
LEMMA UserEnters ==
  ASSUME TypeOK, NEW u \in Uses, use[u].entry = 0, NEW f \in Ids, NEW s \in UseStates,
         s.entry = f, use' = [use EXCEPT ![u] = s]
  PROVE  /\ Cardinality(UsersOf(f)') = Cardinality(UsersOf(f)) + 1
         /\ \A e \in Ids : e # f => UsersOf(e)' = UsersOf(e)
<1>1. UsersOf(f)' = UsersOf(f) \cup {u} /\ u \notin UsersOf(f)
  BY RegistryAssumption DEF TypeOK, UsersOf, Ids
<1>2. \A e \in Ids : e # f => UsersOf(e)' = UsersOf(e)
  BY RegistryAssumption DEF TypeOK, UsersOf, Ids
<1>3. UsersOf(f) \in SUBSET Uses
  BY DEF UsersOf
<1>4. Cardinality(UsersOf(f) \cup {u}) = Cardinality(UsersOf(f)) + 1
  BY <1>1, <1>3, UsesFinite, FS_AddElement
<1> QED
  BY <1>1, <1>2, <1>4

\* An invocation that leaves its entry is one user less.
LEMMA UserLeaves ==
  ASSUME TypeOK, NEW u \in Uses, NEW f \in Ids, use[u].entry = f,
         use' = [use EXCEPT ![u] = IdleUse]
  PROVE  /\ Cardinality(UsersOf(f)') = Cardinality(UsersOf(f)) - 1
         /\ Cardinality(UsersOf(f)) # 0
         /\ \A e \in Ids : e # f => UsersOf(e)' = UsersOf(e)
<1>1. UsersOf(f)' = UsersOf(f) \ {u} /\ u \in UsersOf(f)
  BY RegistryAssumption DEF TypeOK, UsersOf, Ids, IdleUse
<1>2. \A e \in Ids : e # f => UsersOf(e)' = UsersOf(e)
  BY RegistryAssumption DEF TypeOK, UsersOf, Ids, IdleUse
<1>3. UsersOf(f) \in SUBSET Uses
  BY DEF UsersOf
<1>4. Cardinality(UsersOf(f)) # 0
  BY <1>1, <1>3, UsesFinite, FS_EmptySet
<1>5. Cardinality(UsersOf(f) \ {u}) = Cardinality(UsersOf(f)) - 1
  BY <1>1, <1>3, UsesFinite, FS_RemoveElement
<1> QED
  BY <1>1, <1>2, <1>4, <1>5

\* Without users an entry has no invocation.
LEMMA NoUsers ==
  ASSUME NEW e \in Ids, Cardinality(UsersOf(e)) = 0
  PROVE  \A u \in Uses : use[u].entry # e
<1>1. UsersOf(e) \in SUBSET Uses
  BY DEF UsersOf
<1>2. UsersOf(e) = {}
  BY <1>1, UsesFinite, FS_EmptySet
<1> QED
  BY <1>2 DEF UsersOf

-----------------------------------------------------------------------------
(* Initial states. *)

LEMMA InitSound == Init => IInv
<1> SUFFICES ASSUME Init PROVE IInv
  OBVIOUS
<1>1. ColdEntry \in Entry
  BY DEF ColdEntry, Entry
<1>2. TypeOK
  <2>1. IdleUse \in UseStates /\ IdleOp \in OpStates
    BY RegistryAssumption DEF UseStates, IdleUse, OpStates, IdleOp, Steps
  <2>2. 0 \in 0 .. MaxEntries /\ 0 \in 0 .. MaxFailures /\ 0 \in Nat
    BY RegistryAssumption
  <2> QED
    BY <1>1, <2>1, <2>2 DEF Init, TypeOK
<1>3. \A e \in Ids : EntrySound(e)
  <2> TAKE e \in Ids
  <2>1. UsersOf(e) = {}
    BY DEF UsersOf, Init, IdleUse, Ids
  <2> QED
    BY <2>1, FS_EmptySet DEF EntrySound, Init, ColdEntry, Ids
<1>4. \A u \in Uses : UseSound(u)
  BY DEF UseSound, Init, IdleUse
<1>5. \A o \in Ops : OpSound(o)
  BY DEF OpSound, Init, IdleOp, Removal, Replacement
<1> QED
  BY <1>2, <1>3, <1>4, <1>5 DEF IInv, Sound, Init

-----------------------------------------------------------------------------
(* A step that changes one entry. *)

\* y may take the place of the contents of f without changing its users.
Fits(f, y) ==
  /\ y.users = entries[f].users
  /\ y.resource \in {"open", "closing"} => current' = f
  /\ y.opening = "pending" =>
       entries[f].opening = "pending" /\ current' = f /\ y.resource \in {"none", "open"}
  /\ y.opening = "cold" => y.resource = "none" /\ y.blocked
  /\ y.opening = "opened" => y.resource # "none"
  /\ y.resource \in {"closing", "closed"} => y.blocked
  /\ entries[f].opening = "opened" /\ entries[f].resource = "open" /\ entries[f].users # 0 =>
       y.opening = "opened" /\ y.resource = "open"

\* If it does, entries and uses stay sound.
LEMMA EditKeeps ==
  ASSUME IInv, NEW f \in Ids, NEW y \in Entry, Fits(f, y),
         entries' = [entries EXCEPT ![f] = y], use' = use,
         made' \in {made, f}, made <= made', made' <= made + 1, f <= made',
         current' = current \/ current \in {0, f}
  PROVE  /\ entries' \in [Ids -> Entry]
         /\ \A e \in Ids : EntrySound(e)'
         /\ \A u \in Uses : UseSound(u)'
<1> USE RegistryAssumption DEF IInv, Sound
<1>1. entries' \in [Ids -> Entry] /\ entries'[f] = y
  BY DEF TypeOK
<1>2. made \in Nat /\ made' \in Nat
  BY DEF TypeOK, Ids
<1>3. \A e \in Ids : EntrySound(e)'
  <2> TAKE e \in Ids
  <2>1. UsersOf(e)' = UsersOf(e)
    BY DEF UsersOf
  <2>2. CASE e # f
    <3>1. entries'[e] = entries[e]
      BY <2>2 DEF TypeOK
    <3>2. current = e => current' = e
      BY <2>2 DEF Ids
    <3>3. e > made' => e > made
      BY <1>2 DEF Ids
    <3>4. e <= made => e <= made'
      BY <1>2 DEF Ids
    <3>5. e <= made' => e <= made
      BY <1>2, <2>2 DEF Ids
    <3> QED
      BY <2>1, <3>1, <3>2, <3>3, <3>4, <3>5 DEF EntrySound
  <2>3. CASE e = f
    <3>1. ~(e > made')
      BY <1>2, <2>3 DEF Ids
    <3>2. y.users = Cardinality(UsersOf(e)')
      BY <2>1, <2>3 DEF EntrySound, Fits
    <3>3. y.opening = "pending" => y.users # 0
      BY DEF EntrySound, Fits
    <3> QED
      BY <1>1, <2>3, <3>1, <3>2, <3>3 DEF EntrySound, Fits
  <2> QED
    BY <2>2, <2>3
<1>4. \A u \in Uses : UseSound(u)'
  <2> TAKE u \in Uses
  <2>1. use[u] \in UseStates
    BY DEF TypeOK
  <2>2. use[u].entry = f => entries[f].users # 0
    <3>1. Cardinality(UsersOf(f)) = 0 => use[u].entry # f
      BY NoUsers
    <3> QED
      BY <3>1 DEF EntrySound
  <2>3. use[u].pc = "running" => /\ entries'[use[u].entry].opening = "opened"
                                 /\ entries'[use[u].entry].resource = "open"
    <3>1. CASE use[u].entry = f
      BY <1>1, <2>2, <3>1 DEF UseSound, Fits
    <3>2. CASE use[u].entry # f
      BY <3>2 DEF UseSound, TypeOK
    <3> QED
      BY <3>1, <3>2
  <2>4. use[u].entry <= made'
    BY <1>2, <2>1 DEF UseSound, UseStates
  <2> QED
    BY <2>3, <2>4 DEF UseSound
<1> QED
  BY <1>1, <1>3, <1>4

\* An operation on another entry does not notice.
LEMMA BesideKeeps ==
  ASSUME IInv, NEW f \in Ids, NEW y \in Entry,
         entries' = [entries EXCEPT ![f] = y],
         made' \in Nat, made <= made',
         NEW o \in Ops, op'[o].pc = op[o].pc, op'[o].entry = op[o].entry,
         op[o].pc \in Removal \cup Replacement => op[o].entry # f
  PROVE  OpSound(o)'
<1> USE RegistryAssumption DEF IInv, Sound
<1>1. CASE op[o].pc \in Removal \cup Replacement
  <2>1. op[o].entry \in 1 .. made /\ made \in Nat
    BY <1>1 DEF OpSound, TypeOK
  <2>2. op[o].entry \in 1 .. made'
    BY <2>1
  <2>3. entries'[op[o].entry] = entries[op[o].entry]
    BY <1>1 DEF TypeOK
  <2> QED
    BY <2>2, <2>3 DEF OpSound
<1>2. CASE op[o].pc \notin Removal \cup Replacement
  BY <1>2 DEF OpSound, Removal, Replacement
<1> QED
  BY <1>1, <1>2

-----------------------------------------------------------------------------
(* use(). *)

\* New entries are entries.
LEMMA FreshTyped == ColdEntry \in Entry /\ OpeningEntry \in Entry
<1>1. <<>> \in Seq(Ops) /\ None \in Ops \cup {None}
  OBVIOUS
<1>2. ColdEntry \in Entry
  BY <1>1 DEF ColdEntry, Entry
<1> QED
  BY <1>2 DEF OpeningEntry, Entry

\* An admitted use finds an entry that accepts it, or makes one.
LEMMA UseKeeps ==
  ASSUME IInv, NEW u \in Uses, Use(u)
  PROVE  IInv'
<1> USE RegistryAssumption DEF IInv, Sound
<1> DEFINE x == FoundEntry(OpeningEntry)
<1>1. PICK f \in Ids : f = Found
  BY DEF TypeOK, Use, Makes, Found, Ids
<1>2. /\ made' \in 0 .. MaxEntries
      /\ current' = f
      /\ f <= made'
      /\ made <= made'
  BY <1>1 DEF TypeOK, Use, Makes, Found, Ids
<1>3. x \in Entry
  BY FreshTyped DEF TypeOK, FoundEntry, Ids
<1>4. PICK y \in Entry : y = [x EXCEPT !.users = @ + 1]
  <2>1. [x EXCEPT !.users = @ + 1] \in Entry
    BY <1>3 DEF Entry
  <2> QED
    BY <2>1
<1>5. entries' = [entries EXCEPT ![f] = y]
  BY <1>1, <1>4 DEF Use
<1>6. use[u].entry = 0
  BY DEF Use, UseSound
<1>7. PICK s \in UseStates : s = [pc |-> "opening", entry |-> f]
  <2>1. [pc |-> "opening", entry |-> f] \in UseStates
    BY DEF UseStates, Ids
  <2> QED
    BY <2>1
<1>8. use' = [use EXCEPT ![u] = s]
  BY <1>1, <1>7 DEF Use
<1>9. TypeOK'
  <2>1. entries' \in [Ids -> Entry] /\ use' \in [Uses -> UseStates]
    BY <1>5, <1>8 DEF TypeOK
  <2>2. current' \in 0 .. MaxEntries
    BY <1>2 DEF Ids
  <2> QED
    BY <1>2, <2>1, <2>2 DEF TypeOK, Use
<1>10. /\ Cardinality(UsersOf(f)') = Cardinality(UsersOf(f)) + 1
       /\ \A e \in Ids : e # f => UsersOf(e)' = UsersOf(e)
  BY <1>6, <1>7, <1>8, UserEnters
<1>11. /\ y.users = entries[f].users + 1
       /\ y.opening = entries[f].opening \/ (entries[f].opening = "cold" /\ y.opening = "pending")
       /\ y.resource = entries[f].resource
       /\ y.blocked = entries[f].blocked
       /\ y.opening = "pending" => y.resource \in {"none", "open"}
       /\ y.opening = "cold" => current # 0
       /\ y.opening = "opened" => y.resource # "none"
  <2>1. CASE current = 0
    <3>1. f > made
      BY <1>1, <2>1 DEF Found, TypeOK
    <3>2. entries[f] = ColdEntry /\ x = OpeningEntry
      BY <2>1, <3>1 DEF EntrySound, FoundEntry
    <3>3. /\ OpeningEntry.opening = "pending"
          /\ OpeningEntry.resource = "none"
          /\ OpeningEntry.blocked = FALSE
          /\ OpeningEntry.users = 0
      BY DEF OpeningEntry, ColdEntry
    <3>4. /\ y.opening = x.opening
          /\ y.resource = x.resource
          /\ y.blocked = x.blocked
          /\ y.users = x.users + 1
      BY <1>3, <1>4 DEF Entry
    <3>5. /\ entries[f].users = 0
          /\ entries[f].opening = "cold"
          /\ entries[f].resource = "none"
          /\ entries[f].blocked = FALSE
      BY <3>2 DEF ColdEntry
    <3> QED
      BY <3>2, <3>3, <3>4, <3>5
  <2>2. CASE current # 0
    BY <1>1, <1>3, <1>4, <2>2 DEF TypeOK, EntrySound, Found, FoundEntry, Ids, Entry
  <2> QED
    BY <2>1, <2>2
<1>12. \A e \in Ids : EntrySound(e)'
  <2> TAKE e \in Ids
  <2>1. CASE e # f
    BY <2>1, <1>1, <1>2, <1>5, <1>10 DEF EntrySound, TypeOK, Use, Makes, Found, Ids
  <2>2. CASE e = f
    <3>1. entries'[e] = y
      BY <1>5, <2>2 DEF TypeOK
    <3>2. current # 0 => ~entries[f].blocked /\ f = current
      BY <1>1 DEF Use, Blocked, Found
    <3>3. entries[f].users \in Nat /\ f <= made'
      BY <1>2 DEF TypeOK, Entry
    <3>4. y.users = Cardinality(UsersOf(e)') /\ y.users # 0
      BY <2>2, <1>10, <1>11, <3>3 DEF EntrySound
    <3>5. y.resource \in {"closing", "closed"} => y.blocked
      BY <1>11 DEF EntrySound
    <3>6. y.opening # "cold"
      BY <1>11, <3>2, <1>1, <1>4 DEF EntrySound, TypeOK, Ids, Found, FoundEntry, Entry
    <3>7. ~(e > made')
      BY <2>2, <3>3, <1>2 DEF TypeOK, Ids
    <3> QED
      BY <2>2, <1>2, <1>11, <3>1, <3>4, <3>5, <3>6, <3>7 DEF EntrySound
  <2> QED
    BY <2>1, <2>2
<1>13. \A v \in Uses : UseSound(v)'
  <2> TAKE v \in Uses
  <2>1. CASE v = u
    BY <2>1, <1>2, <1>7, <1>8 DEF UseSound, TypeOK, Ids
  <2>2. CASE v # u
    <3>1. use'[v] = use[v] /\ use[v] \in UseStates
      BY <2>2, <1>8 DEF TypeOK
    <3>2. use[v].pc = "running" => /\ entries'[use[v].entry].opening = "opened"
                                   /\ entries'[use[v].entry].resource = "open"
      <4>1. CASE use[v].entry = f
        <5>1. entries'[use[v].entry] = y
          BY <4>1, <1>5 DEF TypeOK
        <5> QED
          BY <4>1, <5>1, <1>11 DEF UseSound
      <4>2. CASE use[v].entry # f
        BY <4>2, <1>5 DEF UseSound, TypeOK
      <4> QED
        BY <4>1, <4>2
    <3> QED
      BY <1>2, <3>1, <3>2 DEF UseSound, TypeOK, UseStates
  <2> QED
    BY <2>1, <2>2
<1>14. \A o \in Ops : OpSound(o)'
  <2> TAKE o \in Ops
  <2>1. op[o].pc \in Removal \cup Replacement => op[o].entry # f
    BY <1>1 DEF OpSound, Use, Blocked, Found, Makes, TypeOK, Ids
  <2>2. op'[o] = op[o]
    BY DEF Use
  <2> QED
    BY <2>1, <2>2, <1>2, <1>5 DEF OpSound, TypeOK, Ids, Removal, Replacement
<1> QED
  BY <1>2, <1>9, <1>12, <1>13, <1>14

\* The construction of a resource ends or hands one over.
LEMMA ConstructKeeps ==
  ASSUME IInv, NEW f \in Ids, Construct(f)
  PROVE  IInv'
<1> USE RegistryAssumption DEF IInv, Sound
<1> DEFINE x == entries[f]
<1>1. x \in Entry /\ made \in Nat /\ f <= made
  BY DEF TypeOK, Construct, Retain, OpenSucceeds, OpenFails, EntrySound, Ids
<1>2. x.opening = "pending" /\ x.resource \in {"none", "open"} /\ current = f
  BY DEF Construct, Retain, OpenSucceeds, OpenFails, EntrySound
<1>3. PICK y \in Entry :
        /\ entries' = [entries EXCEPT ![f] = y]
        /\ Fits(f, y)
        /\ y.closing = x.closing
        /\ x.blocked => y.blocked
        /\ made' = made /\ use' = use /\ op' = op
        /\ current' = current \/ current' = 0
  <2>1. CASE Retain(f)
    <3> DEFINE y == [x EXCEPT !.resource = "open"]
    <3>1. y \in Entry
      BY <1>1 DEF Entry
    <3>2. entries' = [entries EXCEPT ![f] = y]
      BY <2>1 DEF Retain
    <3>3. Fits(f, y) /\ y.closing = x.closing /\ y.blocked = x.blocked
      BY <1>1, <1>2, <2>1 DEF Fits, Retain, Entry
    <3> QED
      BY <2>1, <3>1, <3>2, <3>3 DEF Retain
  <2>2. CASE OpenSucceeds(f)
    <3> DEFINE y == [x EXCEPT !.opening = "opened"]
    <3>1. y \in Entry
      BY <1>1 DEF Entry
    <3>2. entries' = [entries EXCEPT ![f] = y]
      BY <2>2 DEF OpenSucceeds
    <3>3. Fits(f, y) /\ y.closing = x.closing /\ y.blocked = x.blocked
      BY <1>1, <1>2, <2>2 DEF Fits, OpenSucceeds, Entry
    <3> QED
      BY <2>2, <3>1, <3>2, <3>3 DEF OpenSucceeds
  <2>3. CASE OpenFails(f)
    <3> DEFINE retained == x.resource # "none"
               y == [x EXCEPT !.opening = "failed", !.blocked = @ \/ retained]
    <3>1. y \in Entry
      BY <1>1 DEF Entry
    <3>2. entries' = [entries EXCEPT ![f] = y]
      BY <2>3 DEF OpenFails
    <3>3. retained => current' = f
      BY <1>2, <2>3 DEF OpenFails
    <3>4. /\ y.opening = "failed" /\ y.resource = x.resource /\ y.users = x.users
          /\ y.closing = x.closing
          /\ x.blocked => y.blocked
      BY <1>1 DEF Entry
    <3>5. Fits(f, y)
      BY <1>2, <3>3, <3>4 DEF Fits
    <3> QED
      BY <2>3, <3>1, <3>2, <3>4, <3>5 DEF OpenFails
  <2> QED
    BY <2>1, <2>2, <2>3 DEF Construct
<1>e. /\ made' \in {made, f} /\ made <= made' /\ made' <= made + 1 /\ f <= made'
      /\ made' \in Nat
      /\ current' = current \/ current \in {0, f}
  BY <1>1, <1>2, <1>3
<1>4. /\ entries' \in [Ids -> Entry]
      /\ \A e \in Ids : EntrySound(e)'
      /\ \A u \in Uses : UseSound(u)'
  BY <1>3, <1>e, EditKeeps
<1>5. TypeOK'
  <2>1. failures' \in 0 .. MaxFailures /\ shuttingDown' = shuttingDown /\ unfinished' = unfinished /\ changes' = changes
    BY DEF Construct, Retain, OpenSucceeds, OpenFails, Fails, TypeOK
  <2>2. current' \in 0 .. MaxEntries
    BY <1>3 DEF TypeOK
  <2> QED
    BY <1>3, <1>4, <2>1, <2>2 DEF TypeOK
<1>6. \A o \in Ops : OpSound(o)'
  <2> TAKE o \in Ops
  <2>1. CASE op[o].pc \in Removal \cup Replacement /\ op[o].entry = f
    <3>1. op[o].pc = "opening"
      BY <1>2, <2>1 DEF OpSound, Removal, Replacement
    <3>2. entries'[f] = y
      BY <1>3 DEF TypeOK
    <3> QED
      BY <1>3, <2>1, <3>1, <3>2 DEF OpSound, Removal, Replacement
  <2>2. CASE op[o].pc \in Removal \cup Replacement => op[o].entry # f
    BY <1>3, <1>e, <2>2, BesideKeeps
  <2> QED
    BY <2>1, <2>2
<1>7. current' <= made'
  BY <1>1, <1>3
<1> QED
  BY <1>4, <1>5, <1>6, <1>7

\* An admitted use gets the resource.
LEMMA ProceedKeeps ==
  ASSUME IInv, NEW u \in Uses, UseProceeds(u)
  PROVE  IInv'
<1> USE RegistryAssumption DEF IInv, Sound
<1> DEFINE f == use[u].entry
<1>1. /\ entries' = entries /\ made' = made /\ current' = current /\ op' = op
      /\ use' = [use EXCEPT ![u].pc = "running"]
  BY DEF UseProceeds
<1>2. use[u] \in UseStates /\ f \in Ids
  BY DEF TypeOK, UseProceeds, UseSound, UseStates, Ids
<1>3. /\ use' \in [Uses -> UseStates]
      /\ \A v \in Uses : use'[v].entry = use[v].entry
      /\ \A v \in Uses : v # u => use'[v] = use[v]
      /\ use'[u].pc = "running"
  BY <1>1, <1>2 DEF TypeOK, UseStates
<1>4. \A e \in Ids : UsersOf(e)' = UsersOf(e)
  BY <1>3 DEF UsersOf
<1>5. entries[f].opening = "opened" /\ entries[f].resource = "open"
  BY <1>2 DEF UseProceeds, EntrySound, TypeOK, Entry
<1>6. TypeOK'
  BY <1>3 DEF TypeOK, UseProceeds
<1>7. \A e \in Ids : EntrySound(e)'
  BY <1>1, <1>4 DEF EntrySound
<1>8. \A v \in Uses : UseSound(v)'
  BY <1>1, <1>2, <1>3, <1>5 DEF UseSound, UseProceeds
<1>9. \A o \in Ops : OpSound(o)'
  BY <1>1 DEF OpSound
<1> QED
  BY <1>1, <1>6, <1>7, <1>8, <1>9

\* An invocation leaves its entry, and wakes who waits for the last one.
LEMMA LeaveKeeps ==
  ASSUME IInv, NEW u \in Uses, UseFails(u) \/ UseEnds(u)
  PROVE  IInv'
<1> USE RegistryAssumption DEF IInv, Sound
<1>1. PICK f \in Ids : f = use[u].entry
  BY DEF UseFails, UseEnds, UseSound, TypeOK, UseStates, Ids
<1> DEFINE x == entries[f]
<1>2. x \in Entry /\ x.users \in Nat /\ x.opening # "pending"
  BY <1>1 DEF TypeOK, Entry, UseFails, UseEnds, UseSound
<1>3. /\ use' = [use EXCEPT ![u] = IdleUse]
      /\ made' = made /\ current' = current /\ op' = op
  BY DEF UseFails, UseEnds, Leave
<1>4. /\ Cardinality(UsersOf(f)') = Cardinality(UsersOf(f)) - 1
      /\ Cardinality(UsersOf(f)) # 0
      /\ \A e \in Ids : e # f => UsersOf(e)' = UsersOf(e)
  BY <1>1, <1>3, UserLeaves
<1>5. x.users # 0 /\ x.users - 1 \in Nat
  BY <1>2, <1>4 DEF EntrySound
<1>6. PICK y \in Entry :
        /\ entries' = [entries EXCEPT ![f] = y]
        /\ y.users = x.users - 1
        /\ y.undrained = (x.undrained /\ x.users # 1)
        /\ y.opening = x.opening /\ y.resource = x.resource
        /\ y.blocked = x.blocked /\ y.closing = x.closing
  <2> DEFINE y == [x EXCEPT !.users = @ - 1, !.undrained = @ /\ x.users # 1]
  <2>1. y \in Entry
    BY <1>2, <1>5 DEF Entry
  <2>2. entries' = [entries EXCEPT ![f] = y]
    <3>1. Leave(u)
      BY DEF UseFails, UseEnds
    <3>2. entries' = [entries EXCEPT ![f].users = @ - 1, ![f].undrained = @ /\ x.users # 1]
      BY <1>1, <3>1 DEF Leave
    <3> QED
      BY <1>2, <3>2 DEF TypeOK, Entry
  <2>3. /\ y.users = x.users - 1
        /\ y.opening = x.opening /\ y.resource = x.resource
        /\ y.blocked = x.blocked /\ y.closing = x.closing
    BY <1>2 DEF Entry
  <2>4. y.undrained = (x.undrained /\ x.users # 1)
    BY <1>2 DEF Entry
  <2> QED
    BY <2>1, <2>2, <2>3, <2>4
<1>7. /\ entries' \in [Ids -> Entry]
      /\ entries'[f] = y
      /\ \A e \in Ids : e # f => entries'[e] = entries[e]
  BY <1>6 DEF TypeOK
<1>8. TypeOK'
  <2>1. IdleUse \in UseStates
    BY DEF UseStates, IdleUse
  <2>2. unfinished' \in BOOLEAN
    BY DEF UseFails, UseEnds, TypeOK
  <2>3. shuttingDown' = shuttingDown /\ changes' = changes /\ failures' = failures
    BY DEF UseFails, UseEnds, Leave
  <2>4. use' \in [Uses -> UseStates]
    BY <1>3, <2>1 DEF TypeOK
  <2> QED
    BY <1>3, <1>7, <2>2, <2>3, <2>4 DEF TypeOK
<1>9. \A e \in Ids : EntrySound(e)'
  <2> TAKE e \in Ids
  <2>1. CASE e # f
    BY <1>3, <1>4, <1>7, <2>1 DEF EntrySound
  <2>2. CASE e = f
    <3>1. ~(f > made)
      BY <1>1, <1>2 DEF UseSound, TypeOK, Ids
    <3>2. y.users = Cardinality(UsersOf(f)')
      BY <1>4, <1>6 DEF EntrySound
    <3> QED
      BY <1>2, <1>3, <1>6, <1>7, <2>2, <3>1, <3>2 DEF EntrySound
  <2> QED
    BY <2>1, <2>2
<1>10. \A v \in Uses : UseSound(v)'
  <2> TAKE v \in Uses
  <2>1. CASE v = u
    BY <1>3, <2>1 DEF UseSound, IdleUse, TypeOK
  <2>2. CASE v # u
    <3>1. use'[v] = use[v]
      BY <1>3, <2>2 DEF TypeOK
    <3>2. use[v].pc = "running" => use[v].entry \in Ids
      BY DEF UseSound, TypeOK, UseStates, Ids
    <3> QED
      BY <1>3, <1>6, <1>7, <3>1, <3>2 DEF UseSound
  <2> QED
    BY <2>1, <2>2
<1>11. \A o \in Ops : OpSound(o)'
  <2> TAKE o \in Ops
  <2>1. CASE op[o].pc \in Removal \cup Replacement /\ op[o].entry = f
    <3>1. op[o].pc \in {"stopping", "draining"} => x.undrained
      BY <1>5, <2>1 DEF OpSound
    <3>2. op[o].pc \in {"stopping", "draining"} => y.undrained \/ y.users = 0
      <4>1. CASE x.users = 1
        BY <1>6, <4>1
      <4>2. CASE x.users # 1
        BY <1>6, <3>1, <4>2, Zenon
      <4> QED
        BY <4>1, <4>2
    <3> QED
      BY <1>3, <1>6, <1>7, <2>1, <3>2 DEF OpSound
  <2>2. CASE op[o].pc \in Removal \cup Replacement => op[o].entry # f
    <3>1. made' \in Nat /\ made <= made'
      BY <1>3 DEF TypeOK
    <3> QED
      BY <1>3, <1>6, <2>2, <3>1, BesideKeeps
  <2> QED
    BY <2>1, <2>2
<1> QED
  BY <1>3, <1>8, <1>9, <1>10, <1>11

-----------------------------------------------------------------------------
(* remove(). *)

\* The removal that owns the closing promise of its entry takes a step.
LEMMA OwnerKeeps ==
  ASSUME IInv, NEW o \in Ops, op[o].pc \in Removal, NEW f, f = op[o].entry,
         NEW y \in Entry, Fits(f, y),
         entries' = [entries EXCEPT ![f] = y], use' = use, made' = made,
         current' = current \/ (current = f /\ current' = 0),
         y.opening = entries[f].opening, y.blocked = entries[f].blocked,
         \/ y.resource = entries[f].resource
         \/ entries[f].resource \in {"open", "closing"} /\ y.resource = "closing",
         \A p \in Ops : p # o =>
           \/ op'[p].pc = op[p].pc /\ op'[p].entry = op[p].entry
           \/ op'[p].pc = "over",
         OpSound(o)'
  PROVE  entries' \in [Ids -> Entry] /\ current' \in 0 .. MaxEntries /\ Sound'
<1> USE RegistryAssumption DEF IInv, Sound
<1>1. f \in Ids /\ f <= made /\ entries[f].closing = o /\ made \in Nat
  BY DEF OpSound, TypeOK, Ids
<1>2. /\ made' \in {made, f} /\ made <= made' /\ made' <= made + 1 /\ f <= made'
      /\ made' \in Nat
      /\ current' = current \/ current \in {0, f}
  BY <1>1
<1>3. /\ entries' \in [Ids -> Entry]
      /\ \A e \in Ids : EntrySound(e)'
      /\ \A u \in Uses : UseSound(u)'
  BY <1>1, <1>2, EditKeeps
<1>4. \A p \in Ops : OpSound(p)'
  <2> TAKE p \in Ops
  <2>1. CASE p = o
    BY <2>1
  <2>2. CASE p # o /\ op'[p].pc = "over"
    BY <2>2 DEF OpSound, Removal, Replacement
  <2>3. CASE p # o /\ op'[p].pc = op[p].pc /\ op'[p].entry = op[p].entry
    <3>1. CASE op[p].pc \in Removal \cup Replacement /\ op[p].entry = f
      <4>1. op[p].pc \notin Removal
        BY <1>1, <2>3, <3>1 DEF OpSound
      <4>2. entries'[f] = y
        BY <1>1 DEF TypeOK
      <4> QED
        BY <1>1, <2>3, <3>1, <4>1, <4>2 DEF OpSound, Removal, Replacement
    <3>2. CASE op[p].pc \in Removal \cup Replacement => op[p].entry # f
      BY <1>1, <1>2, <2>3, <3>2, BesideKeeps
    <3> QED
      BY <3>1, <3>2
  <2> QED
    BY <2>1, <2>2, <2>3
<1>5. current' \in 0 .. MaxEntries /\ current' <= made'
  BY <1>1 DEF TypeOK
<1> QED
  BY <1>3, <1>4, <1>5

\* The records of operations.
LEMMA OpTyped ==
  /\ \A k \in AllKinds, pc \in Steps, e \in 0 .. MaxEntries : Started(k, pc, e) \in OpStates
  /\ \A k \in AllKinds, r \in {"none", "done", "failed"} : Over(k, r) \in OpStates
  /\ \A k, pc, e : Started(k, pc, e).pc = pc /\ Started(k, pc, e).entry = e
  /\ \A k, r : Over(k, r).pc = "over"
<1>1. IdleOp \in OpStates
  BY RegistryAssumption DEF IdleOp, OpStates, Steps
<1> QED
  BY <1>1, RegistryAssumption DEF Started, Over, OpStates, Steps, AllKinds, IdleOp

\* Two entries that differ only in their removals.
Alike(x, y) ==
  /\ x.opening = y.opening
  /\ x.resource = y.resource
  /\ x.users = y.users
  /\ x.blocked = y.blocked
  /\ x.undrained = y.undrained
  /\ x.closing = y.closing

\* An operation joins the removal of an entry or becomes it.
LEMMA RemovesKeeps ==
  ASSUME IInv, NEW o \in Ops, op[o].pc = "idle", NEW k \in AllKinds, NEW f \in Ids,
         NEW x \in Entry, Alike(x, entries[f]), Removes(o, k, f, x), use' = use,
         made' \in {made, f}, made <= made', made' <= made + 1, f <= made',
         current \in {0, f}, current' = f
  PROVE  entries' \in [Ids -> Entry] /\ op' \in [Ops -> OpStates] /\ Sound'
<1> USE RegistryAssumption DEF IInv, Sound
<1>1. made' \in Nat /\ made \in Nat
  BY DEF TypeOK, Ids
<1>2. f > made => entries[f] = ColdEntry
  BY DEF EntrySound
<1>3. entries[f] \in Entry
  BY DEF TypeOK
<1>4. CASE x.closing # None
  <2>1. entries' = [entries EXCEPT ![f] = x] /\ op' = [op EXCEPT ![o] = Started(k, "joined", f)]
    BY <1>4 DEF Removes
  <2>2. f <= made
    BY <1>1, <1>2, <1>4 DEF Alike, ColdEntry, Ids
  <2>3. Fits(f, x)
    BY <2>2 DEF Fits, Alike, EntrySound
  <2>4. /\ entries' \in [Ids -> Entry]
        /\ \A e \in Ids : EntrySound(e)'
        /\ \A u \in Uses : UseSound(u)'
    BY <2>1, <2>3, EditKeeps
  <2>5. op' \in [Ops -> OpStates]
    <3>1. Started(k, "joined", f) \in OpStates
      BY OpTyped DEF Steps, Ids
    <3> QED
      BY <2>1, <3>1 DEF TypeOK
  <2>6. \A p \in Ops : OpSound(p)'
    <3> TAKE p \in Ops
    <3>1. CASE p = o
      <4>1. op'[p].pc = "joined"
        BY <2>1, <3>1, OpTyped DEF TypeOK
      <4> QED
        BY <4>1 DEF OpSound, Removal, Replacement
    <3>2. CASE p # o
      <4>1. op'[p] = op[p]
        BY <2>1, <3>2 DEF TypeOK
      <4>2. CASE op[p].pc \in Removal \cup Replacement /\ op[p].entry = f
        <5>1. entries'[f] = x
          BY <2>1 DEF TypeOK
        <5> QED
          BY <1>1, <4>1, <4>2, <5>1 DEF OpSound, Alike, Ids
      <4>3. CASE op[p].pc \in Removal \cup Replacement => op[p].entry # f
        BY <1>1, <2>1, <4>1, <4>3, BesideKeeps
      <4> QED
        BY <4>2, <4>3
    <3> QED
      BY <3>1, <3>2
  <2> QED
    BY <2>4, <2>5, <2>6
<1>5. CASE x.closing = None
  <2>1. PICK y \in Entry :
          /\ y = [x EXCEPT !.blocked = TRUE, !.closing = o]
          /\ Alike([y EXCEPT !.blocked = x.blocked, !.closing = x.closing], x)
          /\ y.opening = x.opening /\ y.resource = x.resource /\ y.users = x.users
          /\ y.undrained = x.undrained /\ y.blocked = TRUE /\ y.closing = o
    <3> DEFINE y == [x EXCEPT !.blocked = TRUE, !.closing = o]
    <3>1. y \in Entry
      BY DEF Entry
    <3>2. /\ y.opening = x.opening /\ y.resource = x.resource /\ y.users = x.users
          /\ y.undrained = x.undrained /\ y.blocked = TRUE /\ y.closing = o
      BY DEF Entry
    <3>3. Alike([y EXCEPT !.blocked = x.blocked, !.closing = x.closing], x)
      BY DEF Entry, Alike
    <3> QED
      BY <3>1, <3>2, <3>3
  <2>2. /\ entries' = [entries EXCEPT ![f] = y]
        /\ op' = [op EXCEPT ![o] = Started(k, "opening", f)]
    BY <1>5, <2>1 DEF Removes
  <2>3. Fits(f, y)
    BY <2>1 DEF Fits, Alike, EntrySound
  <2>4. /\ entries' \in [Ids -> Entry]
        /\ \A e \in Ids : EntrySound(e)'
        /\ \A u \in Uses : UseSound(u)'
    BY <2>2, <2>3, EditKeeps
  <2>5. op' \in [Ops -> OpStates]
    <3>1. Started(k, "opening", f) \in OpStates
      BY OpTyped DEF Steps, Ids
    <3> QED
      BY <2>2, <3>1 DEF TypeOK
  <2>6. entries'[f] = y /\ f \in 1 .. made' /\ y.blocked
    BY <1>1, <2>1, <2>2 DEF TypeOK, Ids
  <2>7. \A p \in Ops : OpSound(p)'
    <3> TAKE p \in Ops
    <3>1. CASE p = o
      <4>1. op'[p].pc = "opening" /\ op'[p].entry = f
        BY <2>2, <3>1, OpTyped DEF TypeOK
      <4> QED
        BY <2>1, <2>6, <3>1, <4>1 DEF OpSound, Removal, Replacement
    <3>2. CASE p # o
      <4>1. op'[p] = op[p]
        BY <2>2, <3>2 DEF TypeOK
      <4>2. CASE op[p].pc \in Removal \cup Replacement /\ op[p].entry = f
        <5>1. op[p].pc \notin Removal
          BY <1>5, <4>2 DEF OpSound, Alike
        <5>2. y.opening = entries[f].opening /\ y.resource = entries[f].resource
          BY <2>1 DEF Alike
        <5> QED
          BY <2>6, <4>1, <4>2, <5>1, <5>2 DEF OpSound, Removal, Replacement
      <4>3. CASE op[p].pc \in Removal \cup Replacement => op[p].entry # f
        BY <1>1, <2>2, <4>1, <4>3, BesideKeeps
      <4> QED
        BY <4>2, <4>3
    <3> QED
      BY <3>1, <3>2
  <2> QED
    BY <2>4, <2>5, <2>7
<1> QED
  BY <1>4, <1>5

\* close() and shutdown() begin.
LEMMA CloseKeeps ==
  ASSUME IInv, NEW o \in Ops, NEW k \in {"close", "shutdown"}, Close(o, k)
  PROVE  IInv'
<1> USE RegistryAssumption DEF IInv, Sound
<1>1. k \in AllKinds /\ shuttingDown' \in BOOLEAN
  BY DEF AllKinds, Close, TypeOK
<1>2. CASE current = 0
  <2>1. /\ op' = [op EXCEPT ![o] = Over(k, "done")]
        /\ entries' = entries /\ made' = made /\ current' = current /\ use' = use
    BY <1>2 DEF Close
  <2>2. op' \in [Ops -> OpStates]
    <3>1. Over(k, "done") \in OpStates
      BY <1>1, OpTyped
    <3> QED
      BY <2>1, <3>1 DEF TypeOK
  <2>3. TypeOK'
    BY <1>1, <2>1, <2>2 DEF TypeOK, Close
  <2>4. \A e \in Ids : EntrySound(e)'
    BY <2>1 DEF EntrySound, UsersOf
  <2>5. \A u \in Uses : UseSound(u)'
    BY <2>1 DEF UseSound
  <2>6. \A p \in Ops : OpSound(p)'
    <3> TAKE p \in Ops
    <3>1. op'[p] = op[p] \/ op'[p].pc = "over"
      BY <2>1, OpTyped DEF TypeOK
    <3> QED
      BY <2>1, <3>1 DEF OpSound, Removal, Replacement
  <2> QED
    BY <2>1, <2>3, <2>4, <2>5, <2>6
<1>3. CASE current # 0
  <2>1. PICK f \in Ids : f = current
    BY <1>3 DEF TypeOK, Ids
  <2>2. /\ made' \in {made, f} /\ made <= made' /\ made' <= made + 1 /\ f <= made'
        /\ current \in {0, f} /\ current' = f /\ use' = use
    BY <2>1 DEF Close, TypeOK
  <2>3. entries[f] \in Entry /\ Alike(entries[f], entries[f]) /\ Removes(o, k, f, entries[f])
    BY <1>3, <2>1 DEF Close, TypeOK, Alike
  <2>4. op[o].pc = "idle"
    BY DEF Close
  <2>5. entries' \in [Ids -> Entry] /\ op' \in [Ops -> OpStates] /\ Sound'
    BY <1>1, <2>2, <2>3, <2>4, RemovesKeeps
  <2> QED
    BY <1>1, <2>5 DEF TypeOK, Close
<1> QED
  BY <1>2, <1>3

\* deleteRuntime() begins.
LEMMA DeleteKeeps ==
  ASSUME IInv, NEW o \in Ops, Delete(o)
  PROVE  IInv'
<1> USE RegistryAssumption DEF IInv, Sound
<1>1. PICK f \in Ids : f = Found
  BY DEF TypeOK, Delete, Makes, Found, Ids
<1>2. /\ made' \in {made, f} /\ made <= made' /\ made' <= made + 1 /\ f <= made'
      /\ made' \in 0 .. MaxEntries
      /\ current \in {0, f} /\ current' = f /\ use' = use
  BY <1>1 DEF TypeOK, Delete, Makes, Found, Ids
<1>3. FoundEntry(ColdEntry) = entries[f]
  <2>1. CASE current = 0
    <3>1. f > made
      BY <1>1, <2>1 DEF Found, TypeOK
    <3> QED
      BY <2>1, <3>1 DEF FoundEntry, EntrySound
  <2>2. CASE current # 0
    BY <1>1, <2>2 DEF FoundEntry, Found
  <2> QED
    BY <2>1, <2>2
<1>4. PICK x \in Entry :
        x = [entries[f] EXCEPT !.removals = Append(@, o)] /\ Alike(x, entries[f])
  <2>1. entries[f] \in Entry
    BY DEF TypeOK
  <2>2. Append(entries[f].removals, o) \in Seq(Ops)
    BY <2>1 DEF Entry
  <2>3. [entries[f] EXCEPT !.removals = Append(@, o)] \in Entry
    BY <2>1, <2>2 DEF Entry
  <2> QED
    BY <2>1, <2>3 DEF Alike, Entry
<1>5. Removes(o, "delete", f, x)
  BY <1>1, <1>3, <1>4 DEF Delete
<1>6. op[o].pc = "idle" /\ "delete" \in AllKinds
  BY DEF Delete, AllKinds
<1>7. entries' \in [Ids -> Entry] /\ op' \in [Ops -> OpStates] /\ Sound'
  BY <1>2, <1>4, <1>5, <1>6, RemovesKeeps
<1> QED
  BY <1>2, <1>7 DEF TypeOK, Delete, Ids

\* What an entry is to its users does not depend on who removes it.
LEMMA SameFits ==
  ASSUME IInv, NEW f \in Ids, f <= made, NEW y \in Entry,
         y.opening = entries[f].opening, y.resource = entries[f].resource,
         y.users = entries[f].users, y.blocked = entries[f].blocked,
         \/ current' = current
         \/ entries[f].resource \in {"none", "closed"} /\ entries[f].opening # "pending"
  PROVE  Fits(f, y)
BY DEF IInv, Sound, EntrySound, Fits

\* The closing promise settles: no operation but those it releases moves.
LEMMA SettlesKeeps ==
  ASSUME TypeOK, NEW o \in Ops, NEW r \in {"done", "failed"}, Settles(o, r)
  PROVE  /\ op' \in [Ops -> OpStates]
         /\ op'[o].pc = "over"
         /\ \A p \in Ops : op'[p] = op[p] \/ op'[p].pc = "over"
<1>1. \A p \in Ops : op[p] \in OpStates
  BY DEF TypeOK
<1>2. \A p \in Ops : [op[p] EXCEPT !.pc = "over", !.result = r, !.job = None] \in OpStates
  BY <1>1, RegistryAssumption DEF OpStates, Steps
<1>3. \A p \in Ops : [op[p] EXCEPT !.pc = "over", !.result = r, !.job = None].pc = "over"
  BY <1>1 DEF OpStates
<1> QED
  BY <1>1, <1>2, <1>3 DEF Settles

\* A removal that fails leaves its entry to its users, to be removed again.
LEMMA RemovalFailsKeeps ==
  ASSUME IInv, NEW o \in Ops, op[o].pc \in Removal, RemovalFails(o),
         failures' \in 0 .. MaxFailures, unfinished' \in BOOLEAN
  PROVE  IInv'
<1> USE RegistryAssumption DEF IInv, Sound
<1>1. PICK f \in Ids : f = op[o].entry /\ f <= made
  BY DEF OpSound, TypeOK, Ids
<1>2. entries[f] \in Entry /\ entries' = [entries EXCEPT ![f] = Unremoved(f)]
  BY <1>1 DEF TypeOK, RemovalFails
<1>3. PICK y \in Entry :
        /\ entries' = [entries EXCEPT ![f] = y]
        /\ y.opening = entries[f].opening /\ y.resource = entries[f].resource
        /\ y.users = entries[f].users /\ y.blocked = entries[f].blocked
  <2>1. <<>> \in Seq(Ops)
    OBVIOUS
  <2>2. Unremoved(f) \in Entry
    BY <1>2, <2>1 DEF Unremoved, Entry
  <2> QED
    BY <1>2, <2>2 DEF Unremoved, Entry
<1>4. use' = use /\ made' = made /\ current' = current
  BY DEF RemovalFails
<1>5. Fits(f, y)
  BY <1>1, <1>3, <1>4, SameFits
<1>6. /\ op' \in [Ops -> OpStates]
      /\ op'[o].pc = "over"
      /\ \A p \in Ops : op'[p] = op[p] \/ op'[p].pc = "over"
  BY SettlesKeeps DEF RemovalFails
<1>7. OpSound(o)'
  BY <1>6 DEF OpSound, Removal, Replacement
<1>8. \A p \in Ops : p # o =>
        \/ op'[p].pc = op[p].pc /\ op'[p].entry = op[p].entry
        \/ op'[p].pc = "over"
  BY <1>6
<1>9. entries' \in [Ids -> Entry] /\ current' \in 0 .. MaxEntries /\ Sound'
  BY <1>1, <1>3, <1>4, <1>5, <1>7, <1>8, OwnerKeeps
<1> QED
  BY <1>4, <1>6, <1>9 DEF TypeOK, RemovalFails

\* stop(), the verification and removeFiles() fail alike.
LEMMA FailureKeeps ==
  ASSUME IInv, NEW o \in Ops, StopFails(o) \/ RemovalRefused(o) \/ CallbackFails(o)
  PROVE  IInv'
<1>1. op[o].pc \in Removal /\ RemovalFails(o)
  BY DEF Removal, StopFails, RemovalRefused, CallbackFails
<1>2. failures' \in 0 .. MaxFailures
  BY RegistryAssumption
     DEF IInv, TypeOK, StopFails, RemovalRefused, CallbackFails, RemovalFails, Fails
<1>3. unfinished' \in BOOLEAN
  BY <1>1 DEF IInv, TypeOK, RemovalFails
<1> QED
  BY <1>1, <1>2, <1>3, RemovalFailsKeeps

\* An entry is ready for the step q of its removal.
Ready(y, q) ==
  /\ q \in {"stopping", "draining", "closing"} =>
       y.resource # "none" /\ y.opening # "pending"
  /\ q \in {"stopping", "draining"} => y.undrained \/ y.users = 0
  /\ q = "closing" => y.resource \in {"closing", "closed"}
  /\ q \in {"removing", "callback"} =>
       y.resource \in {"none", "closed"} /\ y.opening # "pending"

\* A removal goes on to its next step.
LEMMA AdvanceKeeps ==
  ASSUME IInv, NEW o \in Ops, op[o].pc \in Removal, NEW f, f = op[o].entry,
         NEW y \in Entry, Fits(f, y), NEW q \in Removal, Ready(y, q),
         entries' = [entries EXCEPT ![f] = y], use' = use, made' = made, current' = current,
         y.opening = entries[f].opening, y.blocked = entries[f].blocked,
         y.closing = entries[f].closing,
         \/ y.resource = entries[f].resource
         \/ entries[f].resource \in {"open", "closing"} /\ y.resource = "closing",
         op'[o].pc = q, \A p \in Ops : op'[p].entry = op[p].entry,
         \A p \in Ops : p # o => op'[p].pc = op[p].pc
  PROVE  entries' \in [Ids -> Entry] /\ Sound'
<1>1. f \in 1 .. made /\ f \in Ids /\ entries[f].blocked /\ entries[f].closing = o
  BY RegistryAssumption DEF IInv, Sound, OpSound, TypeOK, Ids
<1>2. entries'[f] = y
  BY <1>1 DEF IInv, TypeOK
<1>3. OpSound(o)'
  BY <1>1, <1>2 DEF OpSound, Ready, Removal, Replacement
<1> QED
  BY <1>3, OwnerKeeps

\* The opening is over: the removal stops the resource if there is one.
LEMMA OpenedKeeps ==
  ASSUME IInv, NEW o \in Ops, RemovalOpened(o)
  PROVE  IInv'
<1> USE RegistryAssumption DEF IInv, Sound
<1>1. PICK f \in Ids : f = op[o].entry /\ f <= made
  BY DEF OpSound, TypeOK, Ids, RemovalOpened, Removal
<1> DEFINE x == entries[f]
<1>2. PICK q \in {"removing", "stopping"} :
        q = IF x.resource = "none" THEN "removing" ELSE "stopping"
  OBVIOUS
<1>3. PICK y \in Entry :
        /\ entries' = [entries EXCEPT ![f] = y]
        /\ y.opening = x.opening /\ y.resource = x.resource /\ y.users = x.users
        /\ y.blocked = x.blocked /\ y.closing = x.closing
        /\ y.undrained = (x.users # 0)
  <2>1. x \in Entry
    BY DEF TypeOK
  <2>2. [x EXCEPT !.undrained = x.users # 0] \in Entry
    BY <2>1 DEF Entry
  <2>3. entries' = [entries EXCEPT ![f] = [x EXCEPT !.undrained = x.users # 0]]
    BY <1>1 DEF RemovalOpened
  <2> QED
    BY <2>1, <2>2, <2>3 DEF Entry
<1>4. use' = use /\ made' = made /\ current' = current /\ op' = [op EXCEPT ![o].pc = q]
  BY <1>1, <1>2 DEF RemovalOpened
<1>5. Fits(f, y)
  BY <1>1, <1>3, <1>4, SameFits
<1>6. /\ op' \in [Ops -> OpStates] /\ op'[o].pc = q
      /\ \A p \in Ops : op'[p].entry = op[p].entry
      /\ \A p \in Ops : p # o => op'[p].pc = op[p].pc
  BY <1>4 DEF TypeOK, OpStates, Steps
<1>7. Ready(y, q)
  <2>1. x.opening # "pending"
    BY <1>1 DEF RemovalOpened
  <2>2. y.undrained \/ y.users = 0
    BY <1>3
  <2> QED
    BY <1>2, <1>3, <2>1, <2>2 DEF Ready
<1>8. op[o].pc \in Removal /\ q \in Removal
  BY DEF RemovalOpened, Removal
<1> HIDE DEF IInv, Sound
<1>9. entries' \in [Ids -> Entry] /\ Sound'
  BY <1>1, <1>3, <1>4, <1>5, <1>6, <1>7, <1>8, AdvanceKeeps
<1> QED
  BY <1>4, <1>6, <1>9 DEF IInv, TypeOK, RemovalOpened

\* stop() succeeds.
LEMMA StoppedKeeps ==
  ASSUME IInv, NEW o \in Ops, StopSucceeds(o)
  PROVE  IInv'
<1> USE RegistryAssumption DEF IInv, Sound
<1>1. PICK f \in Ids : f = op[o].entry /\ f <= made
  BY DEF OpSound, TypeOK, Ids, StopSucceeds, Removal
<1> DEFINE x == entries[f]
<1>2. PICK y \in Entry :
        /\ entries' = [entries EXCEPT ![f] = y]
        /\ y.opening = x.opening /\ y.resource = x.resource /\ y.users = x.users
        /\ y.blocked = x.blocked /\ y.closing = x.closing
        /\ y.undrained = x.undrained
  <2>1. x \in Entry
    BY DEF TypeOK
  <2>2. [x EXCEPT !.stopped = TRUE] \in Entry
    BY <2>1 DEF Entry
  <2>3. entries' = [entries EXCEPT ![f] = [x EXCEPT !.stopped = TRUE]]
    BY <1>1 DEF StopSucceeds
  <2> QED
    BY <2>1, <2>2, <2>3 DEF Entry
<1>3. /\ use' = use /\ made' = made /\ current' = current
      /\ op' = [op EXCEPT ![o].pc = "draining"] /\ unfinished' \in BOOLEAN
  BY DEF StopSucceeds, TypeOK
<1>4. Fits(f, y)
  BY <1>1, <1>2, <1>3, SameFits
<1>5. /\ op' \in [Ops -> OpStates] /\ op'[o].pc = "draining"
      /\ \A p \in Ops : op'[p].entry = op[p].entry
      /\ \A p \in Ops : p # o => op'[p].pc = op[p].pc
  BY <1>3 DEF TypeOK, OpStates, Steps
<1>6. op[o].pc \in Removal /\ "draining" \in Removal
  BY DEF StopSucceeds, Removal
<1>7. Ready(y, "draining")
  <2>1. x.resource # "none" /\ x.opening # "pending"
    BY <1>1 DEF OpSound, StopSucceeds
  <2>2. x.undrained \/ x.users = 0
    BY <1>1 DEF OpSound, StopSucceeds
  <2>3. y.undrained \/ y.users = 0
    BY <1>2, <2>2, Zenon
  <2> QED
    BY <1>2, <2>1, <2>3 DEF Ready
<1> HIDE DEF IInv, Sound
<1>8. entries' \in [Ids -> Entry] /\ Sound'
  BY <1>1, <1>2, <1>3, <1>4, <1>5, <1>6, <1>7, AdvanceKeeps
<1> QED
  BY <1>3, <1>5, <1>8 DEF IInv, TypeOK, StopSucceeds

\* The users have left: the removal disposes of the resource.
LEMMA DrainedKeeps ==
  ASSUME IInv, NEW o \in Ops, RemovalDrained(o)
  PROVE  IInv'
<1> USE RegistryAssumption DEF IInv, Sound
<1>1. PICK f \in Ids : f = op[o].entry /\ f <= made
  BY DEF OpSound, TypeOK, Ids, RemovalDrained, Removal
<1> DEFINE x == entries[f]
<1>2. x \in Entry /\ x.resource # "none" /\ x.opening # "pending" /\ x.users = 0 /\ x.blocked
  BY <1>1 DEF OpSound, RemovalDrained, TypeOK, Removal
<1>3. PICK y \in Entry :
        /\ entries' = [entries EXCEPT ![f] = y]
        /\ y.opening = x.opening /\ y.users = x.users
        /\ y.blocked = x.blocked /\ y.closing = x.closing
        /\ y.resource = IF x.resource = "closed" THEN "closed" ELSE "closing"
  <2>1. Disposing(f) \in Entry
    BY <1>2 DEF Entry, Disposing
  <2>2. entries' = [entries EXCEPT ![f] = Disposing(f)]
    BY <1>1 DEF RemovalDrained
  <2> QED
    BY <1>2, <2>1, <2>2 DEF Entry, Disposing
<1>4. /\ use' = use /\ made' = made /\ current' = current
      /\ op' = [op EXCEPT ![o].pc = "closing"]
  BY DEF RemovalDrained
<1>5. x.resource \in {"open", "closing", "closed"}
  BY <1>2 DEF Entry
<1>6. Fits(f, y)
  BY <1>2, <1>3, <1>4, <1>5 DEF EntrySound, Fits
<1>7. /\ op' \in [Ops -> OpStates] /\ op'[o].pc = "closing"
      /\ \A p \in Ops : op'[p].entry = op[p].entry
      /\ \A p \in Ops : p # o => op'[p].pc = op[p].pc
  BY <1>4 DEF TypeOK, OpStates, Steps
<1>8. op[o].pc \in Removal /\ "closing" \in Removal
  BY DEF RemovalDrained, Removal
<1>9. Ready(y, "closing")
  BY <1>2, <1>3 DEF Ready
<1>10. \/ y.resource = x.resource
       \/ x.resource \in {"open", "closing"} /\ y.resource = "closing"
  BY <1>3, <1>5
<1> HIDE DEF IInv, Sound
<1>11. entries' \in [Ids -> Entry] /\ Sound'
  BY <1>1, <1>3, <1>4, <1>6, <1>7, <1>8, <1>9, <1>10, AdvanceKeeps
<1> QED
  BY <1>4, <1>7, <1>11 DEF IInv, TypeOK, RemovalDrained

\* Disposal is over: the removal turns to the files.
LEMMA ClosedKeeps ==
  ASSUME IInv, NEW o \in Ops, RemovalClosed(o)
  PROVE  IInv'
<1> USE RegistryAssumption DEF IInv, Sound
<1>1. PICK f \in Ids : f = op[o].entry /\ f <= made
  BY DEF OpSound, TypeOK, Ids, RemovalClosed, Removal
<1>2. use' = use /\ made' = made /\ current' = current /\ entries' = entries
  BY DEF RemovalClosed
<1>op. op' = [op EXCEPT ![o].pc = "removing"]
  BY DEF RemovalClosed
<1>3. PICK y \in Entry : y = entries[f] /\ entries' = [entries EXCEPT ![f] = y]
  BY <1>2 DEF TypeOK
<1>4. Fits(f, y)
  BY <1>1, <1>2, <1>3, SameFits
<1>5. /\ op' \in [Ops -> OpStates] /\ op'[o].pc = "removing"
      /\ \A p \in Ops : op'[p].entry = op[p].entry
      /\ \A p \in Ops : p # o => op'[p].pc = op[p].pc
  BY <1>op DEF TypeOK, OpStates, Steps
<1>6. op[o].pc \in Removal /\ "removing" \in Removal
  BY DEF RemovalClosed, Removal
<1>7. Ready(y, "removing")
  BY <1>1, <1>3 DEF Ready, RemovalClosed, OpSound
<1>8. /\ y.opening = entries[f].opening /\ y.blocked = entries[f].blocked
      /\ y.closing = entries[f].closing /\ y.resource = entries[f].resource
  BY <1>3
<1> HIDE DEF IInv, Sound
<1>9. entries' \in [Ids -> Entry] /\ Sound'
  BY <1>1, <1>2, <1>3, <1>4, <1>5, <1>6, <1>7, <1>8, AdvanceKeeps
<1> QED
  BY <1>2, <1>5, <1>9 DEF IInv, TypeOK, RemovalClosed

\* The next removeFiles() begins.
LEMMA CallbackKeeps ==
  ASSUME IInv, NEW o \in Ops, CallbackBegins(o)
  PROVE  IInv'
<1> USE RegistryAssumption DEF IInv, Sound
<1>1. PICK f \in Ids : f = op[o].entry /\ f <= made
  BY DEF OpSound, TypeOK, Ids, CallbackBegins, Removal
<1> DEFINE x == entries[f]
<1>2. x \in Entry /\ x.removals \in Seq(Ops) /\ x.removals # <<>>
  BY <1>1 DEF TypeOK, Entry, CallbackBegins
<1>3. PICK y \in Entry :
        /\ entries' = [entries EXCEPT ![f] = y]
        /\ y.opening = x.opening /\ y.resource = x.resource /\ y.users = x.users
        /\ y.blocked = x.blocked /\ y.closing = x.closing
  <2>1. Tail(x.removals) \in Seq(Ops)
    BY <1>2
  <2>2. [x EXCEPT !.removals = Tail(@)] \in Entry
    BY <1>2, <2>1 DEF Entry
  <2>3. entries' = [entries EXCEPT ![f] = [x EXCEPT !.removals = Tail(@)]]
    BY <1>1 DEF CallbackBegins
  <2> QED
    BY <1>2, <2>2, <2>3 DEF Entry
<1>4. PICK j \in Ops : j = Head(x.removals)
  BY <1>2
<1>5. /\ use' = use /\ made' = made /\ current' = current
      /\ op' = [op EXCEPT ![o].pc = "callback", ![o].job = j]
  BY <1>1, <1>4 DEF CallbackBegins
<1>6. Fits(f, y)
  BY <1>1, <1>3, <1>5, SameFits
<1>7. /\ op' \in [Ops -> OpStates] /\ op'[o].pc = "callback"
      /\ \A p \in Ops : op'[p].entry = op[p].entry
      /\ \A p \in Ops : p # o => op'[p].pc = op[p].pc
  <2> DEFINE s == [op[o] EXCEPT !.pc = "callback", !.job = j]
  <2>1. s \in OpStates /\ s.pc = "callback" /\ s.entry = op[o].entry
    BY DEF TypeOK, OpStates, Steps
  <2>2. op' = [op EXCEPT ![o] = s]
    BY <1>5
  <2> HIDE DEF s
  <2> QED
    BY <2>1, <2>2 DEF TypeOK
<1>8. op[o].pc \in Removal /\ "callback" \in Removal
  BY DEF CallbackBegins, Removal
<1>9. Ready(y, "callback")
  BY <1>1, <1>3 DEF Ready, CallbackBegins, OpSound
<1> HIDE DEF IInv, Sound
<1>10. entries' \in [Ids -> Entry] /\ Sound'
  BY <1>1, <1>3, <1>5, <1>6, <1>7, <1>8, <1>9, AdvanceKeeps
<1> QED
  BY <1>5, <1>7, <1>10 DEF IInv, TypeOK, CallbackBegins

\* A removeFiles() has succeeded.
LEMMA CallbackEndsKeeps ==
  ASSUME IInv, NEW o \in Ops, CallbackSucceeds(o)
  PROVE  IInv'
<1> USE RegistryAssumption DEF IInv, Sound
<1>1. PICK f \in Ids : f = op[o].entry /\ f <= made
  BY DEF OpSound, TypeOK, Ids, CallbackSucceeds, Removal
<1>2. /\ use' = use /\ made' = made /\ current' = current /\ entries' = entries
      /\ changes' = changes + 1
  BY DEF CallbackSucceeds
<1>3. PICK y \in Entry : y = entries[f] /\ entries' = [entries EXCEPT ![f] = y]
  BY <1>2 DEF TypeOK
<1>4. Fits(f, y)
  BY <1>1, <1>2, <1>3, SameFits
<1>5. /\ op' \in [Ops -> OpStates] /\ op'[o].pc = "removing"
      /\ \A p \in Ops : op'[p].entry = op[p].entry
      /\ \A p \in Ops : p # o => op'[p].pc = op[p].pc
  <2> DEFINE j == op[o].job
             mid == [op EXCEPT ![j].removed = @ + 1]
  <2>1. op' = [op EXCEPT ![j].removed = @ + 1, ![o].pc = "removing", ![o].job = None]
    BY DEF CallbackSucceeds
  <2>2. mid \in [Ops -> OpStates]
    <3>1. CASE j \in Ops
      <4>1. op[j] \in OpStates /\ op[j].removed + 1 \in Nat
        BY <3>1 DEF TypeOK, OpStates
      <4>2. [op[j] EXCEPT !.removed = @ + 1] \in OpStates
        BY <4>1 DEF OpStates
      <4> QED
        BY <3>1, <4>2 DEF TypeOK
    <3>2. CASE j \notin Ops
      BY <3>2 DEF TypeOK
    <3> QED
      BY <3>1, <3>2
  <2>3. \A p \in Ops : mid[p].entry = op[p].entry /\ mid[p].pc = op[p].pc
    BY DEF TypeOK, OpStates
  <2>4. op' = [mid EXCEPT ![o] = [mid[o] EXCEPT !.pc = "removing", !.job = None]]
    BY <2>1, <2>2
  <2>5. [mid[o] EXCEPT !.pc = "removing", !.job = None] \in OpStates
    <3>1. mid[o] \in OpStates
      BY <2>2
    <3> QED
      BY <3>1 DEF OpStates, Steps
  <2>6. op' \in [Ops -> OpStates]
    BY <2>2, <2>4, <2>5
  <2>7. op'[o].pc = "removing" /\ op'[o].entry = mid[o].entry
    BY <2>2, <2>4 DEF OpStates
  <2>8. \A p \in Ops : p # o => op'[p] = mid[p]
    BY <2>2, <2>4
  <2> QED
    BY <2>3, <2>6, <2>7, <2>8
<1>6. op[o].pc \in Removal /\ "removing" \in Removal
  BY DEF CallbackSucceeds, Removal
<1>7. Ready(y, "removing")
  BY <1>1, <1>3 DEF Ready, CallbackSucceeds, OpSound
<1> HIDE DEF IInv, Sound
<1>8. entries' \in [Ids -> Entry] /\ Sound'
  BY <1>1, <1>2, <1>3, <1>4, <1>5, <1>6, <1>7, AdvanceKeeps
<1>9. TypeOK'
  BY <1>2, <1>5, <1>8 DEF IInv, TypeOK, CallbackSucceeds
<1> QED
  BY <1>8, <1>9 DEF IInv

\* The removal is complete: its entry leaves the map.
LEMMA RemovalEndsKeeps ==
  ASSUME IInv, NEW o \in Ops, RemovalEnds(o)
  PROVE  IInv'
<1> USE RegistryAssumption DEF IInv, Sound
<1>1. PICK f \in Ids : f = op[o].entry /\ f <= made
  BY DEF OpSound, TypeOK, Ids, RemovalEnds, Removal
<1> DEFINE x == entries[f]
<1>2. x \in Entry /\ x.resource \in {"none", "closed"} /\ x.opening # "pending"
  BY <1>1 DEF TypeOK, OpSound, RemovalEnds
<1>3. PICK y \in Entry :
        /\ entries' = [entries EXCEPT ![f] = y]
        /\ y.opening = x.opening /\ y.resource = x.resource /\ y.users = x.users
        /\ y.blocked = x.blocked
  <2>1. [x EXCEPT !.closing = None] \in Entry
    BY <1>2 DEF Entry
  <2>2. entries' = [entries EXCEPT ![f] = [x EXCEPT !.closing = None]]
    BY <1>1 DEF RemovalEnds
  <2> QED
    BY <1>2, <2>1, <2>2 DEF Entry
<1>4. /\ use' = use /\ made' = made
      /\ current' = current \/ (current = f /\ current' = 0)
  BY <1>1 DEF RemovalEnds, Owned
<1>5. Fits(f, y)
  BY <1>1, <1>2, <1>3, SameFits
<1>6. /\ op' \in [Ops -> OpStates]
      /\ op'[o].pc = "over"
      /\ \A p \in Ops : op'[p] = op[p] \/ op'[p].pc = "over"
  BY SettlesKeeps DEF RemovalEnds
<1>7. OpSound(o)'
  BY <1>6 DEF OpSound, Removal, Replacement
<1>8. \A p \in Ops : p # o =>
        \/ op'[p].pc = op[p].pc /\ op'[p].entry = op[p].entry
        \/ op'[p].pc = "over"
  BY <1>6
<1>9. op[o].pc \in Removal
  BY DEF RemovalEnds, Removal
<1>10. entries' \in [Ids -> Entry] /\ current' \in 0 .. MaxEntries /\ Sound'
  BY <1>1, <1>3, <1>4, <1>5, <1>7, <1>8, <1>9, OwnerKeeps
<1> QED
  BY <1>4, <1>6, <1>10 DEF TypeOK, RemovalEnds

-----------------------------------------------------------------------------
(* replaceIdle() and disposal. *)

\* A package edit finds an idle entry or makes one, and blocks it.
LEMMA ReplaceKeeps ==
  ASSUME IInv, NEW o \in Ops, Replace(o)
  PROVE  IInv'
<1> USE RegistryAssumption DEF IInv, Sound
<1>1. PICK f \in Ids : f = Found
  BY DEF TypeOK, Replace, Makes, Found, Ids
<1>2. /\ made' \in {made, f} /\ made <= made' /\ made' <= made + 1 /\ f <= made'
      /\ made' \in 0 .. MaxEntries
      /\ current \in {0, f} /\ current' = f /\ use' = use
  BY <1>1 DEF TypeOK, Replace, Makes, Found, Ids
<1> DEFINE x == entries[f]
<1>3. FoundEntry(ColdEntry) = x /\ x \in Entry
  <2>1. CASE current = 0
    <3>1. f > made
      BY <1>1, <2>1 DEF Found, TypeOK
    <3> QED
      BY <2>1, <3>1 DEF FoundEntry, EntrySound, TypeOK
  <2>2. CASE current # 0
    BY <1>1, <2>2 DEF FoundEntry, Found, TypeOK
  <2> QED
    BY <2>1, <2>2
<1>4. \/ x = ColdEntry /\ f > made
      \/ ~x.blocked /\ x.users = 0 /\ x.resource = "open" /\ x.opening # "pending"
  <2>1. CASE current = 0
    <3>1. f > made
      BY <1>1, <2>1 DEF Found, TypeOK
    <3> QED
      BY <3>1 DEF EntrySound
  <2>2. CASE current # 0
    <3>1. Idle(x)
      BY <1>1, <2>2 DEF Replace, Found
    <3>2. ~x.blocked /\ x.users = 0 /\ x.resource # "none"
      BY <3>1 DEF Idle
    <3>3. x.resource \in {"none", "open", "closing", "closed"}
      BY <1>3 DEF Entry
    <3> QED
      BY <3>2, <3>3 DEF EntrySound
  <2> QED
    BY <2>1, <2>2
<1>5. PICK y \in Entry :
        /\ entries' = [entries EXCEPT ![f] = y]
        /\ y.opening = x.opening /\ y.users = x.users
        /\ y.blocked /\ y.closing = x.closing
        /\ y.resource = IF x.resource # "none" THEN "closing" ELSE x.resource
  <2> DEFINE y == [x EXCEPT !.blocked = TRUE,
                            !.resource = IF x.resource # "none" THEN "closing" ELSE @]
  <2>1. y \in Entry
    BY <1>3 DEF Entry
  <2>2. entries' = [entries EXCEPT ![f] = y]
    BY <1>1, <1>3 DEF Replace
  <2>3. /\ y.opening = x.opening /\ y.users = x.users
        /\ y.blocked /\ y.closing = x.closing
        /\ y.resource = IF x.resource # "none" THEN "closing" ELSE x.resource
    BY <1>3 DEF Entry
  <2> QED
    BY <2>1, <2>2, <2>3
<1>6. PICK q \in {"disposing", "applying"} :
        q = IF x.resource # "none" THEN "disposing" ELSE "applying"
  OBVIOUS
<1>7. op' = [op EXCEPT ![o] = Started("replace", q, f)]
  BY <1>1, <1>3, <1>6 DEF Replace
<1>8. /\ op' \in [Ops -> OpStates] /\ op'[o].pc = q /\ op'[o].entry = f
      /\ \A p \in Ops : p # o => op'[p] = op[p]
  <2>1. Started("replace", q, f) \in OpStates
    BY OpTyped DEF AllKinds, Steps, Ids
  <2> QED
    BY <1>7, <2>1, OpTyped DEF TypeOK
<1>9. /\ ColdEntry.opening = "cold" /\ ColdEntry.resource = "none" /\ ColdEntry.users = 0
  BY DEF ColdEntry
<1>10. Fits(f, y)
  BY <1>2, <1>4, <1>5, <1>9 DEF Fits, EntrySound
<1>11. /\ entries' \in [Ids -> Entry]
       /\ \A e \in Ids : EntrySound(e)'
       /\ \A u \in Uses : UseSound(u)'
  BY <1>2, <1>5, <1>10, EditKeeps
<1>12. \A p \in Ops : OpSound(p)'
  <2> TAKE p \in Ops
  <2>1. CASE p = o
    <3>1. entries'[f] = y /\ f \in 1 .. made'
      BY <1>2, <1>5 DEF TypeOK, Ids
    <3>2. q = "disposing" => y.resource = "closing"
      BY <1>5, <1>6
    <3>3. q = "applying" => y.resource = "none" /\ y.opening # "pending"
      BY <1>4, <1>5, <1>6, <1>9
    <3> QED
      BY <1>5, <1>8, <2>1, <3>1, <3>2, <3>3 DEF OpSound, Removal, Replacement
  <2>2. CASE p # o
    <3>1. op'[p] = op[p]
      BY <1>8, <2>2
    <3>2. op[p].pc \in Removal \cup Replacement => op[p].entry # f
      BY <1>4 DEF OpSound, TypeOK, Ids
    <3>3. made' \in Nat
      BY <1>2
    <3> QED
      BY <1>2, <1>5, <3>1, <3>2, <3>3, BesideKeeps
  <2> QED
    BY <2>1, <2>2
<1>13. current' <= made' /\ current' \in 0 .. MaxEntries
  BY <1>2 DEF Ids
<1> QED
  BY <1>2, <1>8, <1>11, <1>12, <1>13 DEF TypeOK, Replace

\* A refused edit leaves everything as it is.
LEMMA RefusedKeeps ==
  ASSUME IInv, NEW o \in Ops, ReplaceRefused(o)
  PROVE  IInv'
<1> USE DEF IInv, Sound
<1>1. /\ op' = [op EXCEPT ![o] = Over("replace", "failed")]
      /\ entries' = entries /\ made' = made /\ current' = current /\ use' = use
  BY DEF ReplaceRefused
<1>2. /\ op' \in [Ops -> OpStates]
      /\ \A p \in Ops : op'[p] = op[p] \/ op'[p].pc = "over"
  <2>1. Over("replace", "failed") \in OpStates /\ Over("replace", "failed").pc = "over"
    BY OpTyped DEF AllKinds
  <2> QED
    BY <1>1, <2>1 DEF TypeOK
<1>3. TypeOK'
  BY <1>1, <1>2 DEF TypeOK, ReplaceRefused
<1>4. \A e \in Ids : EntrySound(e)'
  BY <1>1 DEF EntrySound, UsersOf
<1>5. \A u \in Uses : UseSound(u)'
  BY <1>1 DEF UseSound
<1>6. \A p \in Ops : OpSound(p)'
  BY <1>1, <1>2 DEF OpSound, Removal, Replacement
<1> QED
  BY <1>1, <1>3, <1>4, <1>5, <1>6

\* apply() returns or throws: the entry is forgotten.
LEMMA ApplyKeeps ==
  ASSUME IInv, NEW o \in Ops, ApplySucceeds(o) \/ ApplyFails(o)
  PROVE  IInv'
<1> USE RegistryAssumption DEF IInv, Sound
<1>1. PICK r \in {"done", "failed"} : Applies(o, r)
  BY DEF ApplySucceeds, ApplyFails
<1>2. PICK f \in Ids : f = op[o].entry /\ f <= made
  BY <1>1 DEF OpSound, TypeOK, Ids, Applies, Replacement
<1>3. entries[f].resource \in {"none", "closed"} /\ entries[f].opening # "pending"
  BY <1>1, <1>2 DEF OpSound, Applies
<1>4. PICK y \in Entry : y = entries[f] /\ entries' = [entries EXCEPT ![f] = y]
  BY <1>1 DEF TypeOK, Applies
<1>5. /\ use' = use /\ made' = made /\ entries' = entries
      /\ current' = current \/ (current = f /\ current' = 0)
  BY <1>1, <1>2 DEF Applies, Owned
<1>6. Fits(f, y)
  BY <1>2, <1>3, <1>4, SameFits
<1>7. /\ made' \in {made, f} /\ made <= made' /\ made' <= made + 1 /\ f <= made'
      /\ current' = current \/ current \in {0, f}
  BY <1>2, <1>5 DEF TypeOK
<1>8. /\ entries' \in [Ids -> Entry]
      /\ \A e \in Ids : EntrySound(e)'
      /\ \A u \in Uses : UseSound(u)'
  BY <1>4, <1>5, <1>6, <1>7, EditKeeps
<1>9. /\ op' \in [Ops -> OpStates]
      /\ \A p \in Ops : op'[p] = op[p] \/ op'[p].pc = "over"
  <2>1. op[o] \in OpStates
    BY DEF TypeOK
  <2>2. PICK s \in OpStates :
          s = [op[o] EXCEPT !.pc = "over", !.result = r] /\ s.pc = "over"
    <3>1. [op[o] EXCEPT !.pc = "over", !.result = r] \in OpStates
      BY <2>1 DEF OpStates, Steps
    <3> QED
      BY <2>1, <3>1 DEF OpStates
  <2>3. op' = [op EXCEPT ![o] = s]
    BY <1>1, <2>2 DEF Applies, TypeOK
  <2> QED
    BY <2>2, <2>3 DEF TypeOK
<1>10. \A p \in Ops : OpSound(p)'
  BY <1>5, <1>9 DEF OpSound, Removal, Replacement
<1>11. current' <= made' /\ current' \in 0 .. MaxEntries
  BY <1>5 DEF TypeOK
<1>12. /\ shuttingDown' \in BOOLEAN /\ unfinished' \in BOOLEAN
       /\ changes' \in Nat /\ failures' \in 0 .. MaxFailures
  BY <1>1 DEF TypeOK, Applies, ApplySucceeds, ApplyFails, Fails
<1> QED
  BY <1>5, <1>8, <1>9, <1>10, <1>11, <1>12 DEF TypeOK

\* A resource is closed: a replacement that waited for it goes on.
LEMMA DisposedKeeps ==
  ASSUME IInv, NEW f \in Ids, DisposalEnds(f)
  PROVE  IInv'
<1> USE RegistryAssumption DEF IInv, Sound
<1> DEFINE x == entries[f]
<1>1. x \in Entry /\ x.resource = "closing" /\ x.opening # "pending" /\ x.blocked
  BY DEF TypeOK, DisposalEnds, EntrySound
<1>2. f <= made /\ made \in Nat
  <2>1. x # ColdEntry
    BY <1>1 DEF ColdEntry
  <2> QED
    BY <2>1 DEF EntrySound, TypeOK, Ids
<1>3. PICK y \in Entry :
        /\ entries' = [entries EXCEPT ![f] = y]
        /\ y.opening = x.opening /\ y.users = x.users
        /\ y.blocked = x.blocked /\ y.closing = x.closing
        /\ y.resource = "closed" /\ y.undrained = x.undrained
  <2>1. [x EXCEPT !.resource = "closed"] \in Entry
    BY <1>1 DEF Entry
  <2> QED
    BY <1>1, <2>1 DEF Entry, DisposalEnds
<1>4. /\ use' = use /\ made' = made /\ current' = current
      /\ op' = [p \in Ops |->
           IF op[p].pc = "disposing" /\ op[p].entry = f
           THEN [op[p] EXCEPT !.pc = "applying"] ELSE op[p]]
  BY DEF DisposalEnds
<1>5. Fits(f, y)
  BY <1>1, <1>3 DEF Fits, EntrySound
<1>6. /\ made' \in {made, f} /\ made <= made' /\ made' <= made + 1 /\ f <= made'
      /\ made' \in Nat
      /\ current' = current \/ current \in {0, f}
  BY <1>2, <1>4
<1>7. /\ entries' \in [Ids -> Entry]
      /\ \A e \in Ids : EntrySound(e)'
      /\ \A u \in Uses : UseSound(u)'
  BY <1>3, <1>4, <1>5, <1>6, EditKeeps
<1>8. op' \in [Ops -> OpStates]
  <2>1. \A p \in Ops : op[p] \in OpStates
    BY DEF TypeOK
  <2>2. \A p \in Ops : [op[p] EXCEPT !.pc = "applying"] \in OpStates
    BY <2>1 DEF OpStates, Steps
  <2> QED
    BY <1>4, <2>1, <2>2
<1>9. entries'[f] = y /\ f \in 1 .. made'
  BY <1>2, <1>3, <1>4 DEF TypeOK, Ids
<1>b. y.blocked
  BY <1>1, <1>3, Zenon
<1>10. \A p \in Ops : OpSound(p)'
  <2> TAKE p \in Ops
  <2>1. op[p] \in OpStates
    BY DEF TypeOK
  <2>2. CASE op[p].pc = "disposing" /\ op[p].entry = f
    <3>1. op'[p].pc = "applying" /\ op'[p].entry = f
      BY <1>4, <2>1, <2>2 DEF OpStates
    <3> QED
      BY <1>1, <1>3, <1>9, <1>b, <3>1 DEF OpSound, Removal, Replacement
  <2>3. CASE op[p].pc \in Removal \cup Replacement /\ op[p].entry = f /\ op[p].pc # "disposing"
    <3>1. op'[p] = op[p]
      BY <1>4, <2>3
    <3>2. op[p].pc \in {"stopping", "draining"} => y.undrained \/ y.users = 0
      <4>1. op[p].pc \in {"stopping", "draining"} => x.undrained \/ x.users = 0
        BY <2>3 DEF OpSound
      <4> QED
        BY <1>3, <4>1, Zenon
    <3> QED
      BY <1>1, <1>3, <1>9, <1>b, <2>3, <3>1, <3>2 DEF OpSound, Removal, Replacement
  <2>4. CASE op[p].pc \in Removal \cup Replacement => op[p].entry # f
    <3>1. op'[p] = op[p]
      BY <1>4, <2>4 DEF Replacement
    <3> QED
      BY <1>3, <1>6, <2>4, <3>1, BesideKeeps
  <2> QED
    BY <2>2, <2>3, <2>4
<1>11. current' <= made'
  BY <1>4
<1> QED
  BY <1>4, <1>7, <1>8, <1>10, <1>11 DEF TypeOK, DisposalEnds

\* A resource cannot be closed: the removal and the replacement that wait for it fail.
LEMMA DisposalFailsKeeps ==
  ASSUME IInv, NEW f \in Ids, DisposalFails(f)
  PROVE  IInv'
<1> USE RegistryAssumption DEF IInv, Sound
<1> DEFINE x == entries[f]
           removing == \E o \in Ops : op[o].pc = "closing" /\ op[o].entry = f
<1>1. x \in Entry /\ x.resource = "closing" /\ x.opening # "pending" /\ x.blocked /\ current = f
  BY DEF TypeOK, DisposalFails, EntrySound
<1>2. f <= made /\ made \in Nat
  BY <1>1 DEF TypeOK
<1>3. PICK y \in Entry :
        /\ entries' = [entries EXCEPT ![f] = y]
        /\ y.opening = x.opening /\ y.users = x.users
        /\ y.blocked = x.blocked /\ y.undrained = x.undrained
        /\ y.resource = "open"
        /\ ~removing => y.closing = x.closing
  <2>1. <<>> \in Seq(Ops)
    OBVIOUS
  <2>2. PICK z \in Entry :
          /\ z = IF removing THEN Unremoved(f) ELSE x
          /\ z.opening = x.opening /\ z.users = x.users
          /\ z.blocked = x.blocked /\ z.undrained = x.undrained
          /\ ~removing => z.closing = x.closing
    <3>1. Unremoved(f) \in Entry
      BY <1>1, <2>1 DEF Unremoved, Entry
    <3>2. /\ Unremoved(f).opening = x.opening /\ Unremoved(f).users = x.users
          /\ Unremoved(f).blocked = x.blocked /\ Unremoved(f).undrained = x.undrained
      BY <1>1 DEF Unremoved, Entry
    <3> QED
      BY <1>1, <3>1, <3>2
  <2>3. [z EXCEPT !.resource = "open"] \in Entry
    BY <2>2 DEF Entry
  <2>4. entries' = [entries EXCEPT ![f] = [z EXCEPT !.resource = "open"]]
    BY <2>2 DEF DisposalFails
  <2>5. /\ [z EXCEPT !.resource = "open"].opening = z.opening
        /\ [z EXCEPT !.resource = "open"].users = z.users
        /\ [z EXCEPT !.resource = "open"].blocked = z.blocked
        /\ [z EXCEPT !.resource = "open"].undrained = z.undrained
        /\ [z EXCEPT !.resource = "open"].closing = z.closing
        /\ [z EXCEPT !.resource = "open"].resource = "open"
    BY <2>2 DEF Entry
  <2> QED
    BY <2>2, <2>3, <2>4, <2>5
<1>4. use' = use /\ made' = made /\ current' = current
  BY DEF DisposalFails
<1>5. Fits(f, y)
  BY <1>1, <1>3, <1>4 DEF Fits, EntrySound
<1>6. /\ made' \in {made, f} /\ made <= made' /\ made' <= made + 1 /\ f <= made'
      /\ made' \in Nat
      /\ current' = current \/ current \in {0, f}
  BY <1>2, <1>4
<1>7. /\ entries' \in [Ids -> Entry]
      /\ \A e \in Ids : EntrySound(e)'
      /\ \A u \in Uses : UseSound(u)'
  BY <1>3, <1>4, <1>5, <1>6, EditKeeps
<1>8. \A p \in Ops :
        /\ op'[p] \in OpStates
        /\ op'[p] = op[p] \/ op'[p].pc = "over"
        /\ op[p].entry = f /\ op[p].pc = "disposing" => op'[p].pc = "over"
        /\ op[p].entry = f /\ op[p].pc = "closing" => ~removing \/ op'[p].pc = "over"
  <2> TAKE p \in Ops
  <2>1. op[p] \in OpStates
    BY DEF TypeOK
  <2>2. PICK s \in OpStates :
          s = [op[p] EXCEPT !.pc = "over", !.result = "failed"] /\ s.pc = "over"
    <3>1. [op[p] EXCEPT !.pc = "over", !.result = "failed"] \in OpStates
      BY <2>1 DEF OpStates, Steps
    <3> QED
      BY <2>1, <3>1 DEF OpStates
  <2>3. op'[p] =
          IF /\ op[p].entry = f
             /\ op[p].pc \in (IF removing THEN {"disposing", "closing", "joined"} ELSE {"disposing"})
          THEN s ELSE op[p]
    BY <2>2 DEF DisposalFails
  <2> QED
    BY <2>1, <2>2, <2>3
<1>9. op' \in [Ops -> OpStates]
  BY <1>8 DEF DisposalFails
<1>10. entries'[f] = y /\ f \in 1 .. made'
  BY <1>2, <1>3, <1>4 DEF TypeOK, Ids
<1>b. y.blocked
  BY <1>1, <1>3, Zenon
<1>11. \A p \in Ops : OpSound(p)'
  <2> TAKE p \in Ops
  <2>1. CASE op'[p].pc = "over"
    BY <2>1 DEF OpSound, Removal, Replacement
  <2>2. CASE op'[p] = op[p] /\ op[p].pc \in Removal \cup Replacement /\ op[p].entry = f
                /\ op[p].pc # "over"
    <3>1. op[p].pc # "disposing" /\ ~(removing /\ op[p].pc = "closing")
      <4>1. op'[p].pc # "over"
        BY <2>2
      <4>2. CASE op[p].pc = "disposing"
        BY <1>8, <2>2, <4>1, <4>2
      <4>3. CASE removing /\ op[p].pc = "closing"
        BY <1>8, <2>2, <4>1, <4>3
      <4> QED
        BY <4>2, <4>3
    <3>2. op[p].pc \notin {"removing", "callback", "applying"}
      BY <1>1, <2>2 DEF OpSound
    <3>3. op[p].pc \in Removal
      BY <2>2, <3>1, <3>2 DEF Replacement
    <3>4. ~removing
      <4>1. SUFFICES ASSUME NEW o \in Ops, op[o].pc = "closing", op[o].entry = f
                     PROVE  FALSE
        OBVIOUS
      <4>2. x.closing = o /\ x.closing = p
        BY <2>2, <3>3, <4>1 DEF OpSound, Removal
      <4>3. removing
        BY <4>1
      <4> QED
        BY <3>1, <4>1, <4>2, <4>3
    <3>5. op[p].pc # "closing"
      BY <2>2, <3>4
    <3>6. op[p].pc \in {"stopping", "draining"} => y.undrained \/ y.users = 0
      <4>1. op[p].pc \in {"stopping", "draining"} => x.undrained \/ x.users = 0
        BY <2>2 DEF OpSound
      <4> QED
        BY <1>3, <4>1, Zenon
    <3>7. x.closing = p
      BY <2>2, <3>3 DEF OpSound
    <3> QED
      BY <1>1, <1>3, <1>10, <1>b, <2>2, <3>2, <3>3, <3>4, <3>5, <3>6, <3>7
         DEF OpSound, Removal, Replacement
  <2>3. CASE op'[p] = op[p] /\ (op[p].pc \in Removal \cup Replacement => op[p].entry # f)
    BY <1>3, <1>6, <2>3, BesideKeeps
  <2>4. op[p].pc \in Removal \cup Replacement => op[p].pc # "over"
    BY DEF Removal, Replacement
  <2> QED
    BY <1>8, <2>1, <2>2, <2>3, <2>4
<1>12. current' <= made' /\ failures' \in 0 .. MaxFailures
  <2>1. Fails
    BY DEF DisposalFails
  <2> QED
    BY <1>4, <2>1 DEF Fails, TypeOK
<1> QED
  BY <1>4, <1>7, <1>9, <1>11, <1>12 DEF TypeOK, DisposalFails

-----------------------------------------------------------------------------
(* Theorems. *)

\* Every step of the registry keeps the invariant.
LEMMA StepKeeps == IInv /\ [Next]_vars => IInv'
<1> SUFFICES ASSUME IInv, [Next]_vars PROVE IInv'
  OBVIOUS
<1>1. ASSUME NEW u \in Uses, Use(u) \/ UseProceeds(u) \/ UseFails(u) \/ UseEnds(u)
      PROVE  IInv'
  BY <1>1, UseKeeps, ProceedKeeps, LeaveKeeps
<1>2. ASSUME NEW e \in Ids, Construct(e) \/ Dispose(e)
      PROVE  IInv'
  BY <1>2, ConstructKeeps, DisposedKeeps, DisposalFailsKeeps DEF Dispose
<1>3. ASSUME NEW o \in Ops, Invoke(o)
      PROVE  IInv'
  BY <1>3, CloseKeeps, DeleteKeeps, ReplaceKeeps, RefusedKeeps DEF Invoke
<1>4. ASSUME NEW o \in Ops, Continue(o)
      PROVE  IInv'
  BY <1>4, OpenedKeeps, StoppedKeeps, FailureKeeps, DrainedKeeps, ClosedKeeps, CallbackKeeps,
     CallbackEndsKeeps, RemovalEndsKeeps, ApplyKeeps DEF Continue
<1>5. CASE UNCHANGED vars
  BY <1>5 DEF vars, IInv, TypeOK, Sound, EntrySound, UseSound, OpSound, UsersOf
<1> QED
  BY <1>1, <1>2, <1>3, <1>4, <1>5 DEF Next

\* Entries, uses and operations agree about who owns, uses and removes what
\* (CharacterRuntimeRegistry with its Entry fields users, blocked, closing, drained).
THEOREM RegistrySound == Spec => []IInv
<1>1. Init => IInv
  BY InitSound
<1>2. IInv /\ [Next]_vars => IInv'
  BY StepKeeps
<1> QED
  BY <1>1, <1>2, PTL DEF Spec

\* The registry's fields keep their types.
THEOREM RegistryTyped == Spec => []TypeOK
<1>1. IInv => TypeOK
  BY DEF IInv
<1> QED
  BY <1>1, RegistrySound, PTL

\* A runtime that is not closed is the map's: the registry never loses sight of it
\* and never opens a second one beside it, whatever fails.
THEOREM RuntimeOwned == Spec => []OwnerKept
<1>1. IInv => OwnerKept
  BY DEF IInv, Sound, EntrySound, OwnerKept, Held, Owned
<1> QED
  BY <1>1, RegistrySound, PTL

\* Nobody begins to close a runtime before the operations admitted to it have left.
THEOREM RuntimeKept == Spec => []WorkKeepsResource
<1>1. IInv => WorkKeepsResource
  BY DEF IInv, Sound, UseSound, WorkKeepsResource, Working
<1> QED
  BY <1>1, RegistrySound, PTL

-----------------------------------------------------------------------------
(***************************************************************************)
(* What the resolved promises of the registry mean: theorems about         *)
(* deleteRuntime() and shutdown(), on the invariant above.                 *)
(***************************************************************************)

Queued(o, s) == \E i \in 1 .. Len(s) : s[i] = o
Distinct(s) == \A i, j \in 1 .. Len(s) : s[i] = s[j] => i = j

\* A call of remove() that has not returned.
Removing == Removal \cup {"joined"}

\* A deletion of entry e whose removeFiles() has not run.
Awaits(o, e) ==
  /\ op[o].kind = "delete"
  /\ op[o].entry = e
  /\ op[o].pc \in Removing
  /\ op[o].removed = 0

\* Its removeFiles() is running.
Called(o) ==
  \E q \in Ops : op[q].pc = "callback" /\ op[q].entry = op[o].entry /\ op[q].job = o

\* The callbacks left at an entry are of deletions that wait, each once, and a closing
\* promise is that of a removal under way.
EntryKeeps(e) ==
  /\ Distinct(entries[e].removals)
  /\ \A o \in Ops : Queued(o, entries[e].removals) => Awaits(o, e)
  /\ entries[e].closing # None =>
       /\ op[entries[e].closing].pc \in Removal
       /\ op[entries[e].closing].entry = e

OpKeeps(o) ==
  LET x == op[o] IN
  /\ x.pc \in {"idle"} \cup Replacement => x.kind \notin {"delete", "shutdown"}
  /\ x.pc = "joined" => x.entry \in Ids /\ entries[x.entry].closing # None
  /\ x.pc = "callback" =>
       /\ x.job \in Ops
       /\ Awaits(x.job, x.entry)
       /\ ~Queued(x.job, entries[x.entry].removals)
  /\ x.kind = "delete" =>
       /\ x.removed \in {0, 1}
       /\ x.result = "done" => x.removed = 1
       /\ x.pc # "over" /\ x.removed = 0 => Queued(o, entries[x.entry].removals) \/ Called(o)
  /\ x.kind = "shutdown" =>
       /\ shuttingDown
       /\ x.result = "done" => current = 0
       /\ x.pc # "over" => current \in {0, x.entry}

Promises ==
  /\ \A e \in Ids : EntryKeeps(e)
  /\ \A o \in Ops : OpKeeps(o)

PInv == IInv /\ Promises

-----------------------------------------------------------------------------
(* Callbacks at an entry. *)

\* One more callback is left.
LEMMA Appended ==
  ASSUME NEW s \in Seq(Ops), NEW o \in Ops, Distinct(s), ~Queued(o, s)
  PROVE  /\ Distinct(Append(s, o))
         /\ \A p \in Ops : Queued(p, Append(s, o)) <=> Queued(p, s) \/ p = o
<1>1. /\ Len(Append(s, o)) = Len(s) + 1 /\ Len(s) \in Nat
      /\ \A i \in 1 .. Len(s) : Append(s, o)[i] = s[i]
      /\ Append(s, o)[Len(s) + 1] = o
  OBVIOUS
<1>2. \A i \in 1 .. Len(s) : s[i] # o
  BY DEF Queued
<1>3. \A i \in 1 .. Len(s) + 1 : i \in 1 .. Len(s) \/ i = Len(s) + 1
  BY <1>1
<1>4. Distinct(Append(s, o))
  BY <1>1, <1>2, <1>3 DEF Distinct
<1>5. ASSUME NEW p \in Ops PROVE Queued(p, Append(s, o)) <=> Queued(p, s) \/ p = o
  <2>1. \A i \in 1 .. Len(s) : i \in 1 .. Len(s) + 1
    BY <1>1
  <2>2. Len(s) + 1 \in 1 .. Len(s) + 1
    BY <1>1
  <2> QED
    BY <1>1, <1>3, <2>1, <2>2 DEF Queued
<1> QED
  BY <1>4, <1>5

\* The first callback is taken.
LEMMA Taken ==
  ASSUME NEW s \in Seq(Ops), s # <<>>, Distinct(s)
  PROVE  /\ Head(s) \in Ops /\ Queued(Head(s), s)
         /\ Distinct(Tail(s))
         /\ \A p \in Ops : Queued(p, Tail(s)) <=> Queued(p, s) /\ p # Head(s)
<1>1. /\ Len(s) \in Nat \ {0} /\ Head(s) = s[1] /\ s[1] \in Ops
      /\ Len(Tail(s)) = Len(s) - 1
      /\ \A i \in 1 .. Len(s) - 1 : Tail(s)[i] = s[i + 1]
  OBVIOUS
<1>2. \A i \in 1 .. Len(s) - 1 : i + 1 \in 1 .. Len(s) /\ i + 1 # 1
  BY <1>1
<1>3. 1 \in 1 .. Len(s)
  BY <1>1
<1>4. \A i \in 1 .. Len(s) : i # 1 => i - 1 \in 1 .. Len(s) - 1 /\ (i - 1) + 1 = i
  BY <1>1
<1>5. Distinct(Tail(s))
  <2> SUFFICES ASSUME NEW i \in 1 .. Len(s) - 1, NEW j \in 1 .. Len(s) - 1,
                      Tail(s)[i] = Tail(s)[j]
               PROVE  i = j
    BY <1>1 DEF Distinct
  <2>1. s[i + 1] = s[j + 1]
    BY <1>1
  <2>2. i + 1 = j + 1
    BY <1>2, <2>1 DEF Distinct
  <2> QED
    BY <1>1, <2>2
<1>6. ASSUME NEW p \in Ops PROVE Queued(p, Tail(s)) <=> Queued(p, s) /\ p # Head(s)
  <2>1. ASSUME Queued(p, Tail(s)) PROVE Queued(p, s) /\ p # Head(s)
    <3>1. PICK i \in 1 .. Len(s) - 1 : s[i + 1] = p
      BY <1>1, <2>1 DEF Queued
    <3> QED
      BY <1>1, <1>2, <1>3, <3>1 DEF Queued, Distinct
  <2>2. ASSUME Queued(p, s), p # Head(s) PROVE Queued(p, Tail(s))
    <3>1. PICK i \in 1 .. Len(s) : s[i] = p
      BY <2>2 DEF Queued
    <3>2. i - 1 \in 1 .. Len(s) - 1 /\ Tail(s)[i - 1] = p
      BY <1>1, <1>4, <2>2, <3>1
    <3> QED
      BY <1>1, <3>2 DEF Queued
  <2> QED
    BY <2>1, <2>2
<1> QED
  BY <1>1, <1>3, <1>5, <1>6 DEF Queued

-----------------------------------------------------------------------------
(* Steps that leave the promises alone. *)

\* A removal under way has its entry's closing promise.
LEMMA RemovalOwns ==
  ASSUME IInv, NEW o \in Ops, op[o].pc \in Removal
  PROVE  op[o].entry \in Ids /\ entries[op[o].entry].closing = o
<1>1. op[o].entry \in 1 .. made /\ entries[op[o].entry].closing = o
  BY DEF IInv, Sound, OpSound
<1>2. made \in 0 .. MaxEntries
  BY DEF IInv, TypeOK
<1> QED
  BY <1>1, <1>2, RegistryAssumption DEF Ids

\* Nothing happens to a removal that its callers could tell.
Unmoved(x, y) ==
  /\ y.kind = x.kind /\ y.entry = x.entry /\ y.removed = x.removed
  /\ y.result = x.result /\ y.job = x.job
  /\ x.pc \in Removal <=> y.pc \in Removal
  /\ x.pc \in {"idle"} \cup Replacement <=> y.pc \in {"idle"} \cup Replacement
  /\ \A q \in {"joined", "callback", "over"} : x.pc = q <=> y.pc = q

\* A package edit, or no operation.
Aside(x) == x.kind \notin {"delete", "shutdown"} /\ x.pc \notin Removing

Untouched(e) == /\ entries'[e].removals = entries[e].removals
                /\ entries'[e].closing = entries[e].closing

LEMMA BesideKept ==
  ASSUME PInv, \A e \in Ids : Untouched(e),
         \A p \in Ops : Unmoved(op[p], op'[p]) \/ (Aside(op[p]) /\ Aside(op'[p])),
         shuttingDown' = shuttingDown, current' \in {current, 0} \/ ~shuttingDown
  PROVE  Promises'
<1> USE DEF PInv, Promises
<1>1. \A p \in Ops, e \in Ids : Awaits(p, e) => Awaits(p, e)'
  BY DEF Awaits, Unmoved, Aside, Removing
<1>2. \A e \in Ids : EntryKeeps(e)'
  <2> TAKE e \in Ids
  <2>1. entries'[e].closing # None =>
          /\ op'[entries'[e].closing].pc \in Removal
          /\ op'[entries'[e].closing].entry = e
    <3> SUFFICES ASSUME entries[e].closing # None
                 PROVE  /\ op'[entries[e].closing].pc \in Removal
                        /\ op'[entries[e].closing].entry = e
      BY DEF Untouched
    <3>1. entries[e].closing \in Ops
      BY DEF IInv, TypeOK, Entry
    <3> QED
      BY <3>1 DEF EntryKeeps, Unmoved, Aside, Removing
  <2> QED
    BY <1>1, <2>1 DEF EntryKeeps, Untouched
<1>4. \A p \in Ops : op[p].kind \in {"delete", "shutdown"} /\ op[p].pc # "over" =>
        op[p].pc \in Removing
  BY DEF IInv, TypeOK, OpStates, Steps, OpKeeps, Removing, Removal, Replacement
<1>3. \A p \in Ops : OpKeeps(p)'
  <2> TAKE p \in Ops
  <2>1. CASE Aside(op[p]) /\ Aside(op'[p])
    BY <2>1 DEF OpKeeps, Aside, Removing, Removal, Replacement
  <2>2. CASE Unmoved(op[p], op'[p])
    <3>1. op'[p].pc = "joined" =>
            op'[p].entry \in Ids /\ entries'[op'[p].entry].closing # None
      <4>1. op'[p].pc = "joined" => op[p].pc = "joined" /\ op'[p].entry = op[p].entry
        BY <2>2 DEF Unmoved
      <4>2. op[p].pc = "joined" =>
              op[p].entry \in Ids /\ entries[op[p].entry].closing # None
        BY DEF OpKeeps
      <4> QED
        BY <4>1, <4>2 DEF Untouched
    <3>2. op[p].pc \in Removal => op[p].entry \in Ids
      BY RemovalOwns
    <3>3. op'[p].pc = "callback" =>
            /\ op'[p].job \in Ops
            /\ Awaits(op[p].job, op[p].entry)'
            /\ ~Queued(op'[p].job, entries'[op'[p].entry].removals)
      <4> SUFFICES ASSUME op[p].pc = "callback" PROVE op[p].job \in Ops /\ op[p].entry \in Ids
            /\ Awaits(op[p].job, op[p].entry)
            /\ ~Queued(op[p].job, entries[op[p].entry].removals)
        BY <1>1, <2>2 DEF Unmoved, Untouched
      <4> QED
        BY <3>2 DEF OpKeeps, Removal
    <3>4. op'[p].kind = "delete" =>
            /\ op'[p].removed \in {0, 1}
            /\ op'[p].result = "done" => op'[p].removed = 1
            /\ op'[p].pc # "over" /\ op'[p].removed = 0 =>
                 Queued(p, entries'[op'[p].entry].removals) \/ Called(p)'
      <4> SUFFICES ASSUME op[p].kind = "delete", op[p].pc # "over", op[p].removed = 0
                   PROVE  Queued(p, entries'[op[p].entry].removals) \/ Called(p)'
        BY <2>2 DEF Unmoved, OpKeeps
      <4>1. op[p].entry \in Ids
        <5>1. op[p].pc \in Removing
          BY <1>4 DEF OpKeeps
        <5> QED
          BY <3>2, <5>1 DEF Removing, OpKeeps
      <4>2. Called(p) => Called(p)'
        BY <2>2 DEF Called, Unmoved, Aside, Removing, Removal
      <4> QED
        BY <4>1, <4>2 DEF OpKeeps, Untouched
    <3>5. op'[p].kind = "shutdown" =>
            /\ shuttingDown'
            /\ op'[p].result = "done" => current' = 0
            /\ op'[p].pc # "over" => current' \in {0, op'[p].entry}
      BY <2>2 DEF Unmoved, OpKeeps
    <3>6. op'[p].pc \in {"idle"} \cup Replacement => op'[p].kind \notin {"delete", "shutdown"}
      BY <2>2 DEF Unmoved, OpKeeps
    <3> QED
      BY <3>1, <3>3, <3>4, <3>5, <3>6 DEF OpKeeps
  <2> QED
    BY <2>1, <2>2
<1> QED
  BY <1>2, <1>3

-----------------------------------------------------------------------------
(* The end of a removal. *)

\* The calls of remove() that the closing promise of o's removal settles.
Settled(o, p) == p = o \/ (op[p].pc = "joined" /\ op[p].entry = op[o].entry)

\* It leaves no callback: after a failure, or because all of them have run.
LEMMA EndKept ==
  ASSUME PInv, NEW o \in Ops, NEW f \in Ids, op[o].pc \in Removal, op[o].entry = f,
         entries'[f].removals = <<>>, entries'[f].closing = None,
         \A e \in Ids : e # f => Untouched(e),
         NEW r \in {"done", "failed"},
         r = "done" => /\ op[o].pc = "removing"
                       /\ entries[f].removals = <<>>
                       /\ current = f => current' = 0,
         \A p \in Ops : Settled(o, p) =>
           /\ op'[p].pc = "over" /\ op'[p].result = r
           /\ op'[p].kind = op[p].kind /\ op'[p].removed = op[p].removed,
         \A p \in Ops : ~Settled(o, p) =>
           Unmoved(op[p], op'[p]) \/ (Aside(op[p]) /\ Aside(op'[p])),
         shuttingDown' = shuttingDown, current' \in {current, 0}
  PROVE  Promises'
<1> USE DEF PInv, Promises
<1>1. \A p \in Ops : op[p].pc \in Removal => op[p].entry \in Ids /\ entries[op[p].entry].closing = p
  BY RemovalOwns
<1>2. \A p \in Ops : op[p].pc \in Removing /\ op[p].entry = f => Settled(o, p)
  BY <1>1 DEF Removing, Settled
<1>3. \A p \in Ops : ~Settled(o, p) /\ op[p].pc \in Removing =>
        op[p].entry # f /\ op[p].entry \in Ids /\ Unmoved(op[p], op'[p])
  BY <1>1, <1>2 DEF Removing, OpKeeps, Aside
<1>4. \A p \in Ops : Settled(o, p) => op[p].entry = f
  BY DEF Settled
<1>5. \A p \in Ops, e \in Ids : e # f /\ Awaits(p, e) => Awaits(p, e)'
  BY <1>3, <1>4 DEF Awaits, Unmoved, Removing
<1>6. \A e \in Ids : EntryKeeps(e)'
  <2> TAKE e \in Ids
  <2>1. CASE e = f
    BY <2>1 DEF EntryKeeps, Distinct, Queued
  <2>2. CASE e # f
    <3>1. entries'[e].closing # None =>
            /\ op'[entries'[e].closing].pc \in Removal
            /\ op'[entries'[e].closing].entry = e
      <4> DEFINE q == entries[e].closing
      <4> SUFFICES ASSUME q # None
                   PROVE  op'[q].pc \in Removal /\ op'[q].entry = e
        BY <2>2 DEF Untouched
      <4>1. q \in Ops
        BY DEF IInv, TypeOK, Entry
      <4>2. op[q].pc \in Removal /\ op[q].entry = e
        BY DEF EntryKeeps
      <4>3. ~Settled(o, q)
        BY <1>4, <2>2, <4>1, <4>2
      <4> QED
        BY <1>3, <4>1, <4>2, <4>3 DEF Unmoved, Removing
    <3> QED
      BY <1>5, <2>2, <3>1 DEF EntryKeeps, Untouched
  <2> QED
    BY <2>1, <2>2
<1>7. \A p \in Ops : op[p].kind \in {"delete", "shutdown"} /\ op[p].pc # "over" =>
        op[p].pc \in Removing
  BY DEF IInv, TypeOK, OpStates, Steps, OpKeeps, Removing, Removal, Replacement
<1>8. \A p \in Ops : OpKeeps(p)'
  <2> TAKE p \in Ops
  <2>1. CASE Settled(o, p)
    <3>1. op'[p].pc \notin {"idle", "joined", "callback"} \cup Replacement
      BY <2>1 DEF Replacement
    <3>2. op[p].pc \in Removing /\ op[p].entry = f
      BY <2>1 DEF Settled, Removing
    <3>3. op'[p].kind = "delete" /\ r = "done" => op'[p].removed = 1
      <4> SUFFICES ASSUME op[p].kind = "delete", r = "done" PROVE op[p].removed = 1
        BY <2>1
      <4>1. ~Queued(p, entries[f].removals)
        BY DEF Queued
      <4>2. ~Called(p)
        <5> SUFFICES ASSUME NEW q \in Ops, op[q].pc = "callback", op[q].entry = f PROVE FALSE
          BY <3>2 DEF Called
        <5>1. q = o
          BY <1>1 DEF Removal
        <5> QED
          BY <5>1
      <4>3. op[p].pc # "over"
        BY <3>2 DEF Removing, Removal
      <4> QED
        BY <3>2, <4>1, <4>2, <4>3 DEF OpKeeps
    <3>4. op'[p].kind = "shutdown" => shuttingDown' /\ (r = "done" => current' = 0)
      BY <2>1, <3>2 DEF OpKeeps, Removing, Removal
    <3>5. op'[p].kind = "delete" => op'[p].removed \in {0, 1}
      BY <2>1 DEF OpKeeps
    <3> QED
      BY <2>1, <3>1, <3>3, <3>4, <3>5 DEF OpKeeps
  <2>2. CASE ~Settled(o, p) /\ Aside(op[p]) /\ Aside(op'[p])
    BY <2>2 DEF OpKeeps, Aside, Removing, Removal, Replacement
  <2>3. CASE ~Settled(o, p) /\ Unmoved(op[p], op'[p])
    <3> DEFINE e == op[p].entry
    <3>1. op[p].pc \in Removing => e \in Ids /\ Untouched(e)
      BY <1>3, <2>3
    <3>2. op'[p].pc = "joined" => e \in Ids /\ entries'[e].closing # None
      <4>1. op'[p].pc = "joined" => op[p].pc = "joined"
        BY <2>3 DEF Unmoved
      <4> QED
        BY <3>1, <4>1 DEF OpKeeps, Untouched, Removing
    <3>3. op'[p].pc = "callback" =>
            /\ op'[p].job \in Ops
            /\ Awaits(op[p].job, op[p].entry)'
            /\ ~Queued(op'[p].job, entries'[e].removals)
      <4> SUFFICES ASSUME op[p].pc = "callback"
                   PROVE  /\ op[p].job \in Ops
                          /\ Awaits(op[p].job, op[p].entry)'
                          /\ ~Queued(op[p].job, entries'[e].removals)
        BY <2>3 DEF Unmoved
      <4>1. op[p].pc \in Removing
        BY DEF Removing, Removal
      <4>2. e # f /\ e \in Ids
        BY <1>3, <2>3, <4>1
      <4>3. PICK j \in Ops, i \in Ids :
              /\ j = op[p].job /\ i = op[p].entry
              /\ Awaits(j, i) /\ ~Queued(j, entries[i].removals)
        BY <4>2 DEF OpKeeps
      <4>4. Awaits(j, i)'
        BY <1>5, <4>2, <4>3
      <4>5. op'[p].job = j /\ op'[p].entry = i
        BY <2>3, <4>3 DEF Unmoved
      <4> QED
        BY <3>1, <4>1, <4>3, <4>4, <4>5 DEF Untouched
    <3>4. op[p].kind = "delete" /\ op[p].pc # "over" /\ op[p].removed = 0 =>
            Queued(p, entries'[e].removals) \/ Called(p)'
      <4> SUFFICES ASSUME op[p].kind = "delete", op[p].pc # "over", op[p].removed = 0
                   PROVE  Queued(p, entries'[e].removals) \/ Called(p)'
        OBVIOUS
      <4>1. op[p].pc \in Removing
        BY <1>7
      <4>2. ASSUME NEW q \in Ops, op[q].pc = "callback", op[q].entry = e, op[q].job = p
            PROVE  Called(p)'
        <5>1. op[q].pc \in Removing /\ e # f
          BY <1>3, <2>3, <4>1, <4>2 DEF Removing, Removal
        <5>2. ~Settled(o, q)
          BY <1>4, <4>2, <5>1
        <5>3. Unmoved(op[q], op'[q])
          BY <1>3, <5>1, <5>2
        <5> QED
          BY <2>3, <4>2, <5>3 DEF Called, Unmoved
      <4> QED
        BY <3>1, <4>1, <4>2 DEF OpKeeps, Untouched, Called
    <3>5. op[p].kind = "shutdown" =>
            /\ shuttingDown'
            /\ op'[p].result = "done" => current' = 0
            /\ op'[p].pc # "over" => current' \in {0, e}
      BY <2>3 DEF Unmoved, OpKeeps
    <3>6. op'[p].pc \in {"idle"} \cup Replacement => op'[p].kind \notin {"delete", "shutdown"}
      BY <2>3 DEF Unmoved, OpKeeps
    <3>7. /\ op'[p].kind = op[p].kind /\ op'[p].entry = e /\ op'[p].removed = op[p].removed
          /\ op'[p].result = op[p].result /\ op'[p].job = op[p].job
          /\ op'[p].pc = "over" <=> op[p].pc = "over"
      BY <2>3 DEF Unmoved
    <3>8. op[p].kind = "delete" =>
            op[p].removed \in {0, 1} /\ (op[p].result = "done" => op[p].removed = 1)
      BY DEF OpKeeps
    <3>9. op'[p].pc = "callback" =>
            /\ op'[p].job \in Ops
            /\ Awaits(op[p].job, op[p].entry)'
            /\ ~Queued(op'[p].job, entries'[op'[p].entry].removals)
      BY <2>3, <3>3 DEF Unmoved
    <3>10. op'[p].kind = "delete" =>
            /\ op'[p].removed \in {0, 1}
            /\ op'[p].result = "done" => op'[p].removed = 1
            /\ op'[p].pc # "over" /\ op'[p].removed = 0 =>
                 Queued(p, entries'[op'[p].entry].removals) \/ Called(p)'
      BY <3>4, <3>7, <3>8
    <3>11. op'[p].kind = "shutdown" =>
            /\ shuttingDown'
            /\ op'[p].result = "done" => current' = 0
            /\ op'[p].pc # "over" => current' \in {0, op'[p].entry}
      BY <3>5, <3>7
    <3>12. op'[p].pc = "joined" => op'[p].entry \in Ids /\ entries'[op'[p].entry].closing # None
      BY <3>2, <3>7
    <3> HIDE DEF e
    <3> QED
      BY <3>6, <3>9, <3>10, <3>11, <3>12 DEF OpKeeps
  <2> QED
    BY <2>1, <2>2, <2>3
<1> QED
  BY <1>6, <1>8

-----------------------------------------------------------------------------
(* Calls of remove(), and callbacks. *)

\* A call joins the removal of its entry or becomes it; a deletion leaves its callback.
LEMMA CallKept ==
  ASSUME PInv, NEW o \in Ops, op[o].pc = "idle", NEW f \in Ids,
         NEW k \in {"close", "shutdown", "delete"},
         entries'[f].removals = IF k = "delete" THEN Append(entries[f].removals, o)
                                ELSE entries[f].removals,
         entries'[f].closing = IF entries[f].closing = None THEN o ELSE entries[f].closing,
         \A e \in Ids : e # f => Untouched(e),
         NEW q \in {"joined", "opening"},
         q = "opening" <=> entries[f].closing = None,
         op' = [op EXCEPT ![o] = Started(k, q, f)],
         shuttingDown \/ k = "shutdown" => shuttingDown',
         shuttingDown => current' = current,
         k = "shutdown" => current' = f
  PROVE  Promises'
<1> USE DEF PInv, Promises
<1>1. /\ op'[o] = Started(k, q, f)
      /\ \A p \in Ops : p # o => op'[p] = op[p]
  BY DEF IInv, TypeOK
<1>2. /\ op'[o].kind = k /\ op'[o].pc = q /\ op'[o].entry = f
      /\ op'[o].removed = 0 /\ op'[o].result = "none"
  <2>1. /\ Started(k, q, f).kind = k /\ Started(k, q, f).pc = q /\ Started(k, q, f).entry = f
        /\ Started(k, q, f).removed = 0 /\ Started(k, q, f).result = "none"
    BY DEF Started, IdleOp
  <2> QED
    BY <1>1, <2>1
<1>3. \A e \in Ids : ~Awaits(o, e) /\ ~Queued(o, entries[e].removals)
  BY DEF Awaits, Removing, Removal, EntryKeeps
<1>4. \A p \in Ops, e \in Ids : Awaits(p, e) => Awaits(p, e)' /\ p # o
  BY <1>1, <1>3 DEF Awaits
<1>5. entries[f].removals \in Seq(Ops)
  BY DEF IInv, TypeOK, Entry
<1>6. /\ Distinct(entries'[f].removals)
      /\ \A p \in Ops : Queued(p, entries'[f].removals) <=>
           Queued(p, entries[f].removals) \/ (k = "delete" /\ p = o)
  <2>1. CASE k = "delete"
    BY <1>3, <1>5, <2>1, Appended DEF EntryKeeps
  <2>2. CASE k # "delete"
    BY <2>2 DEF EntryKeeps
  <2> QED
    BY <2>1, <2>2
<1>7. k = "delete" => Awaits(o, f)'
  BY <1>2 DEF Awaits, Removing, Removal
<1>8. \A e \in Ids : EntryKeeps(e)'
  <2> TAKE e \in Ids
  <2>1. entries'[e].closing # None =>
          /\ op'[entries'[e].closing].pc \in Removal
          /\ op'[entries'[e].closing].entry = e
    <3>1. CASE entries[e].closing # None
      <4> DEFINE c == entries[e].closing
      <4>1. c \in Ops
        BY <3>1 DEF IInv, TypeOK, Entry
      <4>2. op[c].pc \in Removal /\ op[c].entry = e
        BY <3>1 DEF EntryKeeps
      <4>3. op'[c] = op[c]
        BY <1>1, <4>1, <4>2 DEF Removal
      <4>4. entries'[e].closing = c
        BY <3>1 DEF Untouched
      <4> QED
        BY <4>2, <4>3, <4>4
    <3>2. CASE entries[e].closing = None /\ e = f
      BY <1>2, <3>2 DEF Removal
    <3>3. CASE entries[e].closing = None /\ e # f
      BY <3>3 DEF Untouched
    <3> QED
      BY <3>1, <3>2, <3>3
  <2>2. CASE e = f
    <3>1. \A p \in Ops : Queued(p, entries'[f].removals) => Awaits(p, f)'
      BY <1>4, <1>6, <1>7 DEF EntryKeeps
    <3> QED
      BY <1>6, <2>1, <2>2, <3>1 DEF EntryKeeps
  <2>3. CASE e # f
    BY <1>4, <2>1, <2>3 DEF EntryKeeps, Untouched
  <2> QED
    BY <2>2, <2>3
<1>9. OpKeeps(o)'
  <2>1. q = "joined" => entries'[f].closing # None
    OBVIOUS
  <2>2. k = "delete" => Queued(o, entries'[f].removals)
    BY <1>6
  <2>3. k = "shutdown" => shuttingDown' /\ current' = f
    OBVIOUS
  <2> QED
    BY <1>2, <2>1, <2>2, <2>3 DEF OpKeeps, Replacement
<1>10. ASSUME NEW p \in Ops, p # o PROVE OpKeeps(p)'
  <2>1. op'[p] = op[p]
    BY <1>1, <1>10
  <2>2. \A e \in Ids : entries[e].closing # None => entries'[e].closing # None
    BY DEF Untouched
  <2>3. \A e \in Ids, r \in Ops : r # o =>
          (Queued(r, entries'[e].removals) <=> Queued(r, entries[e].removals))
    BY <1>6 DEF Untouched
  <2>4. op[p].pc = "callback" =>
          /\ op[p].job \in Ops
          /\ Awaits(op[p].job, op[p].entry)'
          /\ ~Queued(op[p].job, entries'[op[p].entry].removals)
    <3> SUFFICES ASSUME op[p].pc = "callback"
                 PROVE  /\ op[p].job \in Ops
                        /\ Awaits(op[p].job, op[p].entry)'
                        /\ ~Queued(op[p].job, entries'[op[p].entry].removals)
      OBVIOUS
    <3>1. op[p].entry \in Ids
      BY RemovalOwns DEF Removal
    <3>2. PICK j \in Ops, i \in Ids :
            /\ j = op[p].job /\ i = op[p].entry
            /\ Awaits(j, i) /\ ~Queued(j, entries[i].removals)
      BY <3>1 DEF OpKeeps
    <3>3. Awaits(j, i)' /\ j # o
      BY <1>4, <3>2
    <3> QED
      BY <2>1, <2>3, <3>2, <3>3
  <2>5. op[p].kind = "delete" /\ op[p].pc # "over" /\ op[p].removed = 0 =>
          Queued(p, entries'[op[p].entry].removals) \/ Called(p)'
    <3> SUFFICES ASSUME op[p].kind = "delete", op[p].pc # "over", op[p].removed = 0
                 PROVE  Queued(p, entries'[op[p].entry].removals) \/ Called(p)'
      OBVIOUS
    <3>1. op[p].pc \in Removing
      BY DEF IInv, TypeOK, OpStates, Steps, OpKeeps, Removing, Removal, Replacement
    <3>2. op[p].entry \in Ids
      BY <3>1, RemovalOwns DEF Removing, OpKeeps
    <3>3. Called(p) => Called(p)'
      BY <1>1, <2>1 DEF Called
    <3> QED
      BY <1>10, <2>3, <3>2, <3>3 DEF OpKeeps
  <2>6. op[p].kind = "shutdown" =>
          /\ shuttingDown'
          /\ op[p].result = "done" => current' = 0
          /\ op[p].pc # "over" => current' \in {0, op[p].entry}
    BY DEF OpKeeps
  <2>7. op[p].pc = "joined" => op[p].entry \in Ids /\ entries'[op[p].entry].closing # None
    BY <2>2 DEF OpKeeps
  <2> QED
    BY <2>1, <2>4, <2>5, <2>6, <2>7 DEF OpKeeps
<1> QED
  BY <1>8, <1>9, <1>10

\* The first callback begins to run.
LEMMA BeginKept ==
  ASSUME PInv, NEW o \in Ops, CallbackBegins(o)
  PROVE  Promises'
<1> USE DEF PInv, Promises
<1>1. PICK f \in Ids : f = op[o].entry /\ entries[f].closing = o
  BY RemovalOwns DEF CallbackBegins, Removal
<1>2. PICK s \in Seq(Ops) : s = entries[f].removals /\ s # <<>>
  BY <1>1 DEF IInv, TypeOK, Entry, CallbackBegins
<1>3. /\ Head(s) \in Ops /\ Queued(Head(s), s)
      /\ Distinct(Tail(s))
      /\ \A p \in Ops : Queued(p, Tail(s)) <=> Queued(p, s) /\ p # Head(s)
  BY <1>2, Taken DEF EntryKeeps
<1>4. PICK j \in Ops : j = Head(s)
  BY <1>3
<1>5. Awaits(j, f)
  BY <1>2, <1>3, <1>4 DEF EntryKeeps
<1>6. /\ entries'[f].removals = Tail(s) /\ entries'[f].closing = o
      /\ \A e \in Ids : e # f => Untouched(e)
  <2>1. entries' = [entries EXCEPT ![f].removals = Tail(@)] /\ entries[f] \in Entry
    BY <1>1 DEF CallbackBegins, IInv, TypeOK
  <2> QED
    BY <1>1, <1>2, <2>1 DEF IInv, TypeOK, Entry, Untouched
<1>7. /\ op'[o].kind = op[o].kind /\ op'[o].entry = f /\ op'[o].removed = op[o].removed
      /\ op'[o].result = op[o].result /\ op'[o].job = j /\ op'[o].pc = "callback"
      /\ \A p \in Ops : p # o => op'[p] = op[p]
  <2>1. op' = [op EXCEPT ![o].pc = "callback", ![o].job = j] /\ op[o] \in OpStates
    BY <1>1, <1>2, <1>4 DEF CallbackBegins, IInv, TypeOK
  <2> QED
    BY <1>1, <2>1 DEF IInv, TypeOK, OpStates
<1>8. op[o].pc = "removing" /\ shuttingDown' = shuttingDown /\ current' = current
  BY DEF CallbackBegins
<1>9. \A p \in Ops, e \in Ids : Awaits(p, e) => Awaits(p, e)'
  BY <1>1, <1>7 DEF Awaits, Removing, Removal
<1>10. \A p \in Ops, e \in Ids :
         Queued(p, entries'[e].removals) <=>
           Queued(p, entries[e].removals) /\ ~(e = f /\ p = j)
  BY <1>2, <1>3, <1>4, <1>6 DEF Untouched
<1>11. \A e \in Ids : EntryKeeps(e)'
  <2> TAKE e \in Ids
  <2>1. Distinct(entries'[e].removals)
    BY <1>3, <1>6 DEF Untouched, EntryKeeps
  <2>2. \A p \in Ops : Queued(p, entries'[e].removals) => Awaits(p, e)'
    BY <1>9, <1>10 DEF EntryKeeps
  <2>3. entries'[e].closing = entries[e].closing
    BY <1>1, <1>6 DEF Untouched
  <2>4. entries[e].closing # None => entries[e].closing \in Ops
    BY DEF IInv, TypeOK, Entry
  <2>5. entries[e].closing # None =>
          /\ op'[entries[e].closing].pc \in Removal
          /\ op'[entries[e].closing].entry = e
    BY <1>1, <1>7, <2>4 DEF EntryKeeps, Removal
  <2> QED
    BY <2>1, <2>2, <2>3, <2>5 DEF EntryKeeps
<1>12. \A p \in Ops : op[p].pc \in Removing => op[p].entry \in Ids
  BY RemovalOwns DEF Removing, OpKeeps
<1>13. \A p \in Ops : op[p].kind = "delete" /\ op[p].pc # "over" /\ op[p].removed = 0 =>
         Queued(p, entries'[op[p].entry].removals) \/ Called(p)'
  <2> SUFFICES ASSUME NEW p \in Ops, op[p].kind = "delete", op[p].pc # "over", op[p].removed = 0
               PROVE  Queued(p, entries'[op[p].entry].removals) \/ Called(p)'
    OBVIOUS
  <2>1. op[p].pc \in Removing
    BY DEF IInv, TypeOK, OpStates, Steps, OpKeeps, Removing, Removal, Replacement
  <2>2. op'[p].entry = op[p].entry
    BY <1>1, <1>7
  <2>3. Called(p) => Called(p)'
    BY <1>7, <1>8, <2>2 DEF Called
  <2>4. op[p].entry = f /\ p = j => Called(p)'
    BY <1>7, <2>2 DEF Called
  <2> QED
    BY <1>10, <1>12, <2>1, <2>3, <2>4 DEF OpKeeps
<1>14. OpKeeps(o)'
  <2>1. Awaits(j, f)' /\ ~Queued(j, entries'[f].removals)
    BY <1>5, <1>9, <1>10
  <2>2. Awaits(op[o].job, op[o].entry)' /\ ~Queued(op'[o].job, entries'[op'[o].entry].removals)
    BY <1>7, <2>1
  <2>3. op[o].kind = "delete" /\ op[o].removed = 0 =>
          Queued(o, entries'[op[o].entry].removals) \/ Called(o)'
    BY <1>8, <1>13
  <2> QED
    BY <1>1, <1>7, <1>8, <2>2, <2>3 DEF OpKeeps, Replacement
<1>15. ASSUME NEW p \in Ops, p # o PROVE OpKeeps(p)'
  <2>1. op'[p] = op[p]
    BY <1>7, <1>15
  <2>2. op[p].pc = "joined" => op[p].entry \in Ids /\ entries'[op[p].entry].closing # None
    BY <1>1, <1>6 DEF OpKeeps, Untouched
  <2>3. op[p].pc = "callback" =>
          /\ op[p].job \in Ops
          /\ Awaits(op[p].job, op[p].entry)'
          /\ ~Queued(op[p].job, entries'[op[p].entry].removals)
    <3> SUFFICES ASSUME op[p].pc = "callback"
                 PROVE  /\ op[p].job \in Ops
                        /\ Awaits(op[p].job, op[p].entry)'
                        /\ ~Queued(op[p].job, entries'[op[p].entry].removals)
      OBVIOUS
    <3>1. op[p].entry \in Ids
      BY <1>12 DEF Removing, Removal
    <3>2. PICK i \in Ids, k \in Ops :
            /\ k = op[p].job /\ i = op[p].entry
            /\ Awaits(k, i) /\ ~Queued(k, entries[i].removals)
      BY <3>1 DEF OpKeeps
    <3>3. Awaits(k, i)' /\ ~Queued(k, entries'[i].removals)
      BY <1>9, <1>10, <3>2
    <3> QED
      BY <2>1, <3>2, <3>3
  <2>4. /\ op[p].pc \in {"idle"} \cup Replacement => op[p].kind \notin {"delete", "shutdown"}
        /\ op[p].kind = "delete" =>
              /\ op[p].removed \in {0, 1}
              /\ op[p].result = "done" => op[p].removed = 1
        /\ op[p].kind = "shutdown" =>
              /\ shuttingDown'
              /\ op[p].result = "done" => current' = 0
              /\ op[p].pc # "over" => current' \in {0, op[p].entry}
    BY <1>8 DEF OpKeeps
  <2> QED
    BY <1>13, <2>1, <2>2, <2>3, <2>4 DEF OpKeeps
<1> QED
  BY <1>11, <1>14, <1>15

\* The callback has run: its deletion has removed the files, and waits for the others.
LEMMA SuccessKept ==
  ASSUME PInv, NEW o \in Ops, CallbackSucceeds(o)
  PROVE  Promises'
<1> USE DEF PInv, Promises
<1>1. PICK f \in Ids : f = op[o].entry /\ entries[f].closing = o
  BY RemovalOwns DEF CallbackSucceeds, Removal
<1>2. PICK j \in Ops : j = op[o].job /\ Awaits(j, f) /\ ~Queued(j, entries[f].removals)
  BY <1>1 DEF CallbackSucceeds, OpKeeps
<1>3. /\ \A e \in Ids : Untouched(e)
      /\ entries' = entries /\ shuttingDown' = shuttingDown /\ current' = current
      /\ op[o].pc = "callback"
  BY DEF CallbackSucceeds, Untouched
<1>4. /\ \A p \in Ops : op'[p].kind = op[p].kind /\ op'[p].entry = op[p].entry
                       /\ op'[p].result = op[p].result
      /\ \A p \in Ops : p # o => op'[p].pc = op[p].pc /\ op'[p].job = op[p].job
      /\ op'[o].pc = "removing"
      /\ op'[j].removed = 1 /\ \A p \in Ops : p # j => op'[p].removed = op[p].removed
  <2> DEFINE mid == [op EXCEPT ![j].removed = @ + 1]
  <2>1. op' = [op EXCEPT ![j].removed = @ + 1, ![o].pc = "removing", ![o].job = None]
    BY <1>2 DEF CallbackSucceeds
  <2>2. op[j] \in OpStates /\ op[j].removed + 1 = 1
    BY <1>2 DEF IInv, TypeOK, Awaits
  <2>3. [op[j] EXCEPT !.removed = @ + 1] \in OpStates
    BY <2>2 DEF OpStates
  <2>4. mid \in [Ops -> OpStates]
    BY <2>3 DEF IInv, TypeOK
  <2>5. /\ \A p \in Ops : /\ mid[p].kind = op[p].kind /\ mid[p].entry = op[p].entry
                         /\ mid[p].result = op[p].result /\ mid[p].pc = op[p].pc
                         /\ mid[p].job = op[p].job
        /\ mid[j].removed = 1 /\ \A p \in Ops : p # j => mid[p].removed = op[p].removed
    BY <2>2 DEF IInv, TypeOK, OpStates
  <2>6. op' = [mid EXCEPT ![o] = [mid[o] EXCEPT !.pc = "removing", !.job = None]]
    BY <2>1, <2>4
  <2>7. /\ op'[o].pc = "removing" /\ op'[o].kind = mid[o].kind /\ op'[o].entry = mid[o].entry
        /\ op'[o].result = mid[o].result /\ op'[o].removed = mid[o].removed
    BY <2>4, <2>6 DEF OpStates
  <2>8. \A p \in Ops : p # o => op'[p] = mid[p]
    BY <2>4, <2>6
  <2> QED
    BY <2>5, <2>7, <2>8
<1>5. \A p \in Ops, e \in Ids : Awaits(p, e) /\ p # j => Awaits(p, e)'
  BY <1>3, <1>4 DEF Awaits, Removing, Removal
<1>6. \A e \in Ids : ~Queued(j, entries[e].removals)
  BY <1>2 DEF EntryKeeps, Awaits
<1>7. \A e \in Ids : EntryKeeps(e)'
  <2> TAKE e \in Ids
  <2>1. \A p \in Ops : Queued(p, entries[e].removals) => Awaits(p, e)'
    BY <1>5, <1>6 DEF EntryKeeps
  <2>2. entries[e].closing # None =>
          /\ op'[entries[e].closing].pc \in Removal
          /\ op'[entries[e].closing].entry = e
    <3>1. entries[e].closing # None => entries[e].closing \in Ops
      BY DEF IInv, TypeOK, Entry
    <3> QED
      BY <1>4, <3>1 DEF EntryKeeps, Removal
  <2> QED
    BY <1>3, <2>1, <2>2 DEF EntryKeeps
<1>8. \A p \in Ops : op[p].pc \in Removing => op[p].entry \in Ids
  BY RemovalOwns DEF Removing, OpKeeps
<1>9. \A p \in Ops : OpKeeps(p)'
  <2> TAKE p \in Ops
  <2>1. op'[p].pc \in {"idle"} \cup Replacement => op'[p].kind \notin {"delete", "shutdown"}
    BY <1>4 DEF OpKeeps, Replacement
  <2>2. op'[p].pc = "joined" =>
          op'[p].entry \in Ids /\ entries'[op'[p].entry].closing # None
    BY <1>3, <1>4 DEF OpKeeps
  <2>3. op'[p].pc = "callback" =>
          /\ op'[p].job \in Ops
          /\ Awaits(op[p].job, op[p].entry)'
          /\ ~Queued(op'[p].job, entries'[op'[p].entry].removals)
    <3> SUFFICES ASSUME op'[p].pc = "callback"
                 PROVE  /\ op'[p].job \in Ops
                        /\ Awaits(op[p].job, op[p].entry)'
                        /\ ~Queued(op'[p].job, entries'[op'[p].entry].removals)
      OBVIOUS
    <3>1. p # o /\ op[p].pc = "callback"
      BY <1>4
    <3>2. PICK i \in Ids : i = op[p].entry /\ entries[i].closing = p
      BY <3>1, RemovalOwns DEF Removal
    <3>3. i # f
      BY <1>1, <3>1, <3>2
    <3>4. PICK k \in Ops : k = op[p].job /\ Awaits(k, i) /\ ~Queued(k, entries[i].removals)
      BY <3>1, <3>2 DEF OpKeeps
    <3>5. k # j
      BY <1>2, <3>3, <3>4 DEF Awaits
    <3>6. Awaits(k, i)'
      BY <1>5, <3>4, <3>5
    <3> QED
      BY <1>3, <1>4, <3>1, <3>2, <3>4, <3>6
  <2>4. op'[p].kind = "delete" =>
          /\ op'[p].removed \in {0, 1}
          /\ op'[p].result = "done" => op'[p].removed = 1
          /\ op'[p].pc # "over" /\ op'[p].removed = 0 =>
               Queued(p, entries'[op'[p].entry].removals) \/ Called(p)'
    <3> SUFFICES ASSUME op[p].kind = "delete"
                 PROVE  /\ op'[p].removed \in {0, 1}
                        /\ op'[p].result = "done" => op'[p].removed = 1
                        /\ op'[p].pc # "over" /\ op'[p].removed = 0 =>
                             Queued(p, entries'[op'[p].entry].removals) \/ Called(p)'
      BY <1>4
    <3>1. CASE p = j
      BY <1>4, <3>1
    <3>2. CASE p # j
      <4>1. op'[p].pc # "over" => op[p].pc # "over"
        BY <1>3, <1>4
      <4>2. Called(p) => Called(p)'
        <5> SUFFICES ASSUME NEW q \in Ops, op[q].pc = "callback", op[q].entry = op[p].entry,
                            op[q].job = p
                     PROVE  Called(p)'
          BY DEF Called
        <5>1. q # o
          BY <1>2, <3>2
        <5> QED
          BY <1>4, <5>1 DEF Called
      <4> QED
        BY <1>3, <1>4, <3>2, <4>1, <4>2 DEF OpKeeps
    <3> QED
      BY <3>1, <3>2
  <2>5. op'[p].kind = "shutdown" =>
          /\ shuttingDown'
          /\ op'[p].result = "done" => current' = 0
          /\ op'[p].pc # "over" => current' \in {0, op'[p].entry}
    BY <1>3, <1>4 DEF OpKeeps
  <2> QED
    BY <2>1, <2>2, <2>3, <2>4, <2>5 DEF OpKeeps
<1> QED
  BY <1>7, <1>9

-----------------------------------------------------------------------------
(* The steps of the registry. *)

\* Two operations of the same contents are alike.
LEMMA SameUnmoved == \A p \in Ops : op'[p] = op[p] => Unmoved(op[p], op'[p])
BY DEF Unmoved

\* An entry that is edited elsewhere keeps its removals.
LEMMA EditUntouched ==
  ASSUME TypeOK, NEW f \in Ids, NEW y, entries' = [entries EXCEPT ![f] = y],
         y.removals = entries[f].removals, y.closing = entries[f].closing
  PROVE  \A e \in Ids : Untouched(e)
BY DEF TypeOK, Untouched

\* An entry yet to be made has no removals.
LEMMA FreshUntouched ==
  ASSUME IInv, current = 0, NEW f \in Ids, f = Found
  PROVE  entries[f].removals = <<>> /\ entries[f].closing = None
<1>1. f > made
  BY DEF IInv, TypeOK, Found
<1> QED
  BY <1>1 DEF IInv, Sound, EntrySound, ColdEntry

\* Found is an entry when one can be made.
LEMMA FoundInIds ==
  ASSUME TypeOK, Makes
  PROVE  Found \in Ids /\ current' = Found
BY RegistryAssumption DEF TypeOK, Makes, Found, Ids

\* use() does not touch the removals.
LEMMA UsePromises ==
  ASSUME PInv, NEW u \in Uses, Use(u) \/ UseProceeds(u) \/ UseFails(u) \/ UseEnds(u)
  PROVE  Promises'
<1>1. TypeOK /\ IInv
  BY DEF PInv, IInv
<1>2. op' = op /\ shuttingDown' = shuttingDown /\ (current' = current \/ ~shuttingDown)
  BY DEF Use, UseProceeds, UseFails, UseEnds, Leave
<1>3. \A p \in Ops : Unmoved(op[p], op'[p])
  BY <1>2, SameUnmoved
<1>4. \A e \in Ids : Untouched(e)
  <2>1. CASE Use(u)
    <3> DEFINE x == FoundEntry(OpeningEntry)
    <3>1. PICK f \in Ids : f = Found
      BY <1>1, <2>1, FoundInIds DEF Use
    <3>2. x \in Entry
      BY <1>1, FreshTyped DEF TypeOK, FoundEntry, Ids
    <3>3. PICK y : y = [x EXCEPT !.users = @ + 1]
      OBVIOUS
    <3>4. y.removals = x.removals /\ y.closing = x.closing
      BY <3>2, <3>3 DEF Entry
    <3>5. x.removals = entries[f].removals /\ x.closing = entries[f].closing
      <4>1. CASE current = 0
        BY <1>1, <3>1, <4>1, FreshUntouched DEF FoundEntry, OpeningEntry, ColdEntry
      <4>2. CASE current # 0
        BY <3>1, <4>2 DEF FoundEntry, Found
      <4> QED
        BY <4>1, <4>2
    <3>6. entries' = [entries EXCEPT ![f] = y]
      BY <2>1, <3>1, <3>3 DEF Use
    <3> HIDE DEF x
    <3> QED
      BY <1>1, <3>4, <3>5, <3>6, EditUntouched
  <2>2. CASE UseProceeds(u)
    BY <2>2 DEF UseProceeds, Untouched
  <2>3. CASE UseFails(u) \/ UseEnds(u)
    BY <1>1, <2>3 DEF UseFails, UseEnds, Leave, Untouched, TypeOK, Entry
  <2> QED
    BY <2>1, <2>2, <2>3
<1> QED
  BY <1>2, <1>3, <1>4, BesideKept

\* Nor does the construction of a resource.
LEMMA ConstructPromises ==
  ASSUME PInv, NEW f \in Ids, Construct(f)
  PROVE  Promises'
<1>1. TypeOK
  BY DEF PInv, IInv
<1>2. op' = op /\ shuttingDown' = shuttingDown /\ current' \in {current, 0}
  BY DEF Construct, Retain, OpenSucceeds, OpenFails
<1>3. \A p \in Ops : Unmoved(op[p], op'[p])
  BY <1>2, SameUnmoved
<1>4. \A e \in Ids : Untouched(e)
  <2>1. entries[f] \in Entry
    BY <1>1 DEF TypeOK
  <2>2. CASE Retain(f)
    BY <1>1, <2>1, <2>2 DEF Retain, Untouched, TypeOK, Entry
  <2>3. CASE OpenSucceeds(f)
    BY <1>1, <2>1, <2>3 DEF OpenSucceeds, Untouched, TypeOK, Entry
  <2>4. CASE OpenFails(f)
    BY <1>1, <2>1, <2>4 DEF OpenFails, Untouched, TypeOK, Entry
  <2> QED
    BY <2>2, <2>3, <2>4 DEF Construct
<1> QED
  BY <1>2, <1>3, <1>4, BesideKept

\* A removal that goes on to a step other than a callback.
LEMMA StepUnmoved ==
  ASSUME TypeOK, NEW o \in Ops, op[o].pc \in Removal \ {"callback"},
         NEW q \in Removal \ {"callback"}, op' = [op EXCEPT ![o].pc = q]
  PROVE  \A p \in Ops : Unmoved(op[p], op'[p])
<1> TAKE p \in Ops
<1>1. CASE p # o
  BY <1>1 DEF TypeOK, Unmoved
<1>2. CASE p = o
  <2>1. /\ op'[o].kind = op[o].kind /\ op'[o].entry = op[o].entry
        /\ op'[o].removed = op[o].removed /\ op'[o].result = op[o].result
        /\ op'[o].job = op[o].job /\ op'[o].pc = q
    BY DEF TypeOK, OpStates
  <2> QED
    BY <1>2, <2>1 DEF Unmoved, Removal, Replacement
<1> QED
  BY <1>1, <1>2

LEMMA AdvancePromises ==
  ASSUME PInv, NEW o \in Ops,
         RemovalOpened(o) \/ StopSucceeds(o) \/ RemovalDrained(o) \/ RemovalClosed(o)
  PROVE  Promises'
<1>1. TypeOK
  BY DEF PInv, IInv
<1>2. shuttingDown' = shuttingDown /\ current' = current
  BY DEF RemovalOpened, StopSucceeds, RemovalDrained, RemovalClosed
<1>3. op[o].pc \in Removal \ {"callback"}
  BY DEF RemovalOpened, StopSucceeds, RemovalDrained, RemovalClosed, Removal
<1>4. PICK q \in Removal \ {"callback"} : op' = [op EXCEPT ![o].pc = q]
  <2>1. {"removing", "stopping", "draining", "closing"} \subseteq Removal \ {"callback"}
    BY DEF Removal
  <2> QED
    BY <2>1 DEF RemovalOpened, StopSucceeds, RemovalDrained, RemovalClosed
<1>5. \A p \in Ops : Unmoved(op[p], op'[p])
  BY <1>1, <1>3, <1>4, StepUnmoved
<1>6. PICK f \in Ids : f = op[o].entry /\ entries[f] \in Entry
  BY <1>1, <1>3, RemovalOwns DEF PInv, TypeOK
<1>7. \A e \in Ids : Untouched(e)
  <2>1. CASE RemovalOpened(o)
    BY <1>1, <1>6, <2>1 DEF RemovalOpened, Untouched, TypeOK, Entry
  <2>2. CASE StopSucceeds(o)
    BY <1>1, <1>6, <2>2 DEF StopSucceeds, Untouched, TypeOK, Entry
  <2>3. CASE RemovalDrained(o)
    BY <1>1, <1>6, <2>3 DEF RemovalDrained, Disposing, Untouched, TypeOK, Entry
  <2>4. CASE RemovalClosed(o)
    BY <2>4 DEF RemovalClosed, Untouched
  <2> QED
    BY <2>1, <2>2, <2>3, <2>4
<1> QED
  BY <1>2, <1>5, <1>7, BesideKept

\* What the closing promise does to those who await it.
LEMMA SettlesUnmoved ==
  ASSUME TypeOK, NEW o \in Ops, NEW r \in {"done", "failed"}, Settles(o, r)
  PROVE  /\ \A p \in Ops : Settled(o, p) =>
              /\ op'[p].pc = "over" /\ op'[p].result = r
              /\ op'[p].kind = op[p].kind /\ op'[p].removed = op[p].removed
         /\ \A p \in Ops : ~Settled(o, p) => Unmoved(op[p], op'[p])
<1>1. \A p \in Ops : op[p] \in OpStates
  BY DEF TypeOK
<1>2. ASSUME NEW p \in Ops, Settled(o, p)
      PROVE  /\ op'[p].pc = "over" /\ op'[p].result = r
             /\ op'[p].kind = op[p].kind /\ op'[p].removed = op[p].removed
  <2>1. op'[p] = [op[p] EXCEPT !.pc = "over", !.result = r, !.job = None]
    BY <1>2 DEF Settles, Settled
  <2> QED
    BY <1>1, <2>1 DEF OpStates
<1>3. ASSUME NEW p \in Ops, ~Settled(o, p) PROVE Unmoved(op[p], op'[p])
  <2>1. op'[p] = op[p]
    BY <1>3 DEF Settles, Settled
  <2> QED
    BY <2>1, SameUnmoved
<1> QED
  BY <1>2, <1>3

LEMMA FailurePromises ==
  ASSUME PInv, NEW o \in Ops, StopFails(o) \/ RemovalRefused(o) \/ CallbackFails(o)
  PROVE  Promises'
<1>1. op[o].pc \in Removal /\ RemovalFails(o) /\ TypeOK
  BY DEF StopFails, RemovalRefused, CallbackFails, Removal, PInv, IInv
<1>2. PICK f \in Ids : f = op[o].entry /\ entries[f] \in Entry
  BY <1>1, RemovalOwns DEF PInv, TypeOK
<1>3. /\ entries'[f].removals = <<>> /\ entries'[f].closing = None
      /\ \A e \in Ids : e # f => Untouched(e)
  BY <1>1, <1>2 DEF RemovalFails, Unremoved, TypeOK, Entry, Untouched
<1>4. shuttingDown' = shuttingDown /\ current' = current /\ Settles(o, "failed")
  BY <1>1 DEF RemovalFails
<1>5. "failed" \in {"done", "failed"} /\ "failed" # "done"
  OBVIOUS
<1>6. PICK r \in {"done", "failed"} : r = "failed"
  BY <1>5
<1>7. /\ \A p \in Ops : Settled(o, p) =>
            /\ op'[p].pc = "over" /\ op'[p].result = r
            /\ op'[p].kind = op[p].kind /\ op'[p].removed = op[p].removed
      /\ \A p \in Ops : ~Settled(o, p) => Unmoved(op[p], op'[p])
  BY <1>1, <1>4, <1>6, SettlesUnmoved
<1> QED
  BY <1>1, <1>2, <1>3, <1>4, <1>6, <1>7, EndKept

LEMMA EndPromises ==
  ASSUME PInv, NEW o \in Ops, RemovalEnds(o)
  PROVE  Promises'
<1>1. op[o].pc = "removing" /\ op[o].pc \in Removal /\ TypeOK
  BY DEF RemovalEnds, Removal, PInv, IInv
<1>2. PICK f \in Ids : f = op[o].entry /\ entries[f] \in Entry
  BY <1>1, RemovalOwns DEF PInv, TypeOK
<1>3. /\ entries'[f].removals = <<>> /\ entries'[f].closing = None
      /\ entries[f].removals = <<>>
      /\ \A e \in Ids : e # f => Untouched(e)
  BY <1>1, <1>2 DEF RemovalEnds, TypeOK, Entry, Untouched
<1>4. /\ shuttingDown' = shuttingDown /\ current' \in {current, 0} /\ Settles(o, "done")
      /\ current = f => current' = 0
  BY <1>2 DEF RemovalEnds, Owned
<1>5. PICK r \in {"done", "failed"} : r = "done"
  OBVIOUS
<1>6. /\ \A p \in Ops : Settled(o, p) =>
            /\ op'[p].pc = "over" /\ op'[p].result = r
            /\ op'[p].kind = op[p].kind /\ op'[p].removed = op[p].removed
      /\ \A p \in Ops : ~Settled(o, p) => Unmoved(op[p], op'[p])
  BY <1>1, <1>4, <1>5, SettlesUnmoved
<1> QED
  BY <1>1, <1>2, <1>3, <1>4, <1>5, <1>6, EndKept

\* A disposal that fails takes the removal that awaits it with it.
LEMMA DisposePromises ==
  ASSUME PInv, NEW f \in Ids, Dispose(f)
  PROVE  Promises'
<1>1. TypeOK /\ entries[f] \in Entry /\ \A p \in Ops : op[p] \in OpStates
  BY DEF PInv, IInv, TypeOK
<1>2. shuttingDown' = shuttingDown /\ current' = current
  BY DEF Dispose, DisposalEnds, DisposalFails
<1>3. \A p \in Ops : op[p].pc \in Replacement => op[p].kind \notin {"delete", "shutdown"}
  BY DEF PInv, Promises, OpKeeps
<1>4. ASSUME NEW p \in Ops, op[p].pc = "disposing",
             \/ op'[p] = [op[p] EXCEPT !.pc = "applying"]
             \/ op'[p] = [op[p] EXCEPT !.pc = "over", !.result = "failed"]
      PROVE  Aside(op[p]) /\ Aside(op'[p])
  <2>1. op[p].kind \notin {"delete", "shutdown"}
    BY <1>3, <1>4 DEF Replacement
  <2>2. op'[p].kind = op[p].kind /\ op'[p].pc \in {"applying", "over"}
    BY <1>1, <1>4 DEF OpStates
  <2> QED
    BY <1>4, <2>1, <2>2 DEF Aside, Removing, Removal
<1>5. CASE DisposalEnds(f)
  <2>1. \A e \in Ids : Untouched(e)
    BY <1>1, <1>5 DEF DisposalEnds, Untouched, TypeOK, Entry
  <2>2. ASSUME NEW p \in Ops PROVE Unmoved(op[p], op'[p]) \/ (Aside(op[p]) /\ Aside(op'[p]))
    BY <1>4, <1>5, SameUnmoved DEF DisposalEnds
  <2> QED
    BY <1>2, <2>1, <2>2, BesideKept
<1>6. CASE DisposalFails(f) /\ ~\E o \in Ops : op[o].pc = "closing" /\ op[o].entry = f
  <2>1. entries' = [entries EXCEPT ![f] = [entries[f] EXCEPT !.resource = "open"]]
    BY <1>6 DEF DisposalFails
  <2>2. \A e \in Ids : Untouched(e)
    BY <1>1, <2>1 DEF Untouched, TypeOK, Entry
  <2>3. ASSUME NEW p \in Ops PROVE Unmoved(op[p], op'[p]) \/ (Aside(op[p]) /\ Aside(op'[p]))
    BY <1>4, <1>6, SameUnmoved DEF DisposalFails
  <2> QED
    BY <1>2, <2>2, <2>3, BesideKept
<1>7. ASSUME DisposalFails(f), NEW o \in Ops, op[o].pc = "closing", op[o].entry = f
      PROVE  Promises'
  <2>1. entries' = [entries EXCEPT ![f] = [Unremoved(f) EXCEPT !.resource = "open"]]
    BY <1>7 DEF DisposalFails
  <2>2. Unremoved(f) \in Entry
    <3>1. <<>> \in Seq(Ops)
      OBVIOUS
    <3> QED
      BY <1>1, <3>1 DEF Unremoved, Entry
  <2>3. Unremoved(f).removals = <<>> /\ Unremoved(f).closing = None
    BY <1>1 DEF Unremoved, Entry
  <2>4. /\ entries'[f].removals = <<>> /\ entries'[f].closing = None
        /\ \A e \in Ids : e # f => Untouched(e)
    <3>1. PICK y \in Entry : y = Unremoved(f) /\ y.removals = <<>> /\ y.closing = None
      BY <2>2, <2>3
    <3>2. entries'[f] = [y EXCEPT !.resource = "open"]
      BY <1>1, <2>1, <3>1 DEF TypeOK
    <3>3. entries'[f].removals = <<>> /\ entries'[f].closing = None
      BY <3>1, <3>2 DEF Entry
    <3>4. \A e \in Ids : e # f => Untouched(e)
      BY <1>1, <2>1 DEF TypeOK, Untouched
    <3> QED
      BY <3>3, <3>4
  <2>5. PICK r \in {"done", "failed"} : r = "failed" /\ r # "done"
    OBVIOUS
  <2>6. op[o].pc \in Removal
    BY <1>7 DEF Removal
  <2>7. \A p \in Ops : op'[p] =
          IF op[p].entry = f /\ op[p].pc \in {"disposing", "closing", "joined"}
          THEN [op[p] EXCEPT !.pc = "over", !.result = "failed"] ELSE op[p]
    BY <1>7 DEF DisposalFails
  <2>8. \A p \in Ops : op[p].pc = "closing" /\ op[p].entry = f => p = o
    BY <1>7, RemovalOwns DEF PInv, Removal
  <2>9. ASSUME NEW p \in Ops, Settled(o, p)
        PROVE  /\ op'[p].pc = "over" /\ op'[p].result = r
               /\ op'[p].kind = op[p].kind /\ op'[p].removed = op[p].removed
    <3>1. op'[p] = [op[p] EXCEPT !.pc = "over", !.result = "failed"]
      BY <1>7, <2>7, <2>9 DEF Settled
    <3> QED
      BY <1>1, <2>5, <3>1 DEF OpStates
  <2>10. ASSUME NEW p \in Ops, ~Settled(o, p)
         PROVE  Unmoved(op[p], op'[p]) \/ (Aside(op[p]) /\ Aside(op'[p]))
    <3>1. ~(op[p].entry = f /\ op[p].pc \in {"closing", "joined"})
      BY <1>7, <2>8, <2>10 DEF Settled
    <3>2. CASE op[p].entry = f /\ op[p].pc = "disposing"
      BY <1>4, <2>7, <3>2
    <3>3. CASE ~(op[p].entry = f /\ op[p].pc = "disposing")
      BY <2>7, <3>1, <3>3, SameUnmoved
    <3> QED
      BY <3>2, <3>3
  <2> QED
    BY <1>2, <1>7, <2>4, <2>5, <2>6, <2>9, <2>10, EndKept
<1> QED
  BY <1>5, <1>6, <1>7 DEF Dispose

\* A package edit is not a removal.
LEMMA ReplacePromises ==
  ASSUME PInv, NEW o \in Ops,
         Replace(o) \/ ReplaceRefused(o) \/ ApplySucceeds(o) \/ ApplyFails(o)
  PROVE  Promises'
<1>1. TypeOK /\ IInv /\ op[o] \in OpStates
  BY DEF PInv, IInv, TypeOK
<1>2. shuttingDown' = shuttingDown /\ (current' \in {current, 0} \/ ~shuttingDown)
  BY DEF Replace, ReplaceRefused, ApplySucceeds, ApplyFails, Applies
<1>3. Aside(op[o])
  BY DEF PInv, Promises, OpKeeps, Aside, Removing, Removal, Replacement,
         Replace, ReplaceRefused, ApplySucceeds, ApplyFails, Applies
<1>4. Aside(op'[o]) /\ \A p \in Ops : p # o => op'[p] = op[p]
  <2>1. CASE Replace(o)
    <3>1. PICK q \in {"disposing", "applying"} : op' = [op EXCEPT ![o] = Started("replace", q, Found)]
      BY <2>1 DEF Replace
    <3>2. Started("replace", q, Found).kind = "replace" /\ Started("replace", q, Found).pc = q
      BY DEF Started, IdleOp
    <3> QED
      BY <1>1, <3>1, <3>2 DEF TypeOK, Aside, Removing, Removal
  <2>2. CASE ReplaceRefused(o)
    <3>1. op' = [op EXCEPT ![o] = Over("replace", "failed")]
      BY <2>2 DEF ReplaceRefused
    <3>2. Over("replace", "failed").kind = "replace" /\ Over("replace", "failed").pc = "over"
      BY DEF Over, IdleOp
    <3> QED
      BY <1>1, <3>1, <3>2 DEF TypeOK, Aside, Removing, Removal
  <2>3. ASSUME NEW r, Applies(o, r)
        PROVE  Aside(op'[o]) /\ \A p \in Ops : p # o => op'[p] = op[p]
    <3>1. op' = [op EXCEPT ![o].pc = "over", ![o].result = r]
      BY <2>3 DEF Applies
    <3>2. op'[o].kind = op[o].kind /\ op'[o].pc = "over"
      BY <1>1, <3>1 DEF TypeOK, OpStates
    <3>3. \A p \in Ops : p # o => op'[p] = op[p]
      BY <1>1, <3>1 DEF TypeOK
    <3> QED
      BY <1>3, <3>2, <3>3 DEF Aside, Removing, Removal
  <2> QED
    BY <2>1, <2>2, <2>3 DEF ApplySucceeds, ApplyFails
<1>5. \A e \in Ids : Untouched(e)
  <2>1. CASE Replace(o)
    <3> DEFINE x == FoundEntry(ColdEntry)
    <3>1. PICK f \in Ids : f = Found
      BY <1>1, <2>1, FoundInIds DEF Replace
    <3>2. x \in Entry
      BY <1>1, FreshTyped DEF TypeOK, FoundEntry, Ids
    <3>3. PICK s \in {"none", "open", "closing", "closed"} :
            s = IF x.resource # "none" THEN "closing" ELSE x.resource
      BY <3>2 DEF Entry
    <3>4. PICK y : y = [x EXCEPT !.blocked = TRUE, !.resource = s]
      OBVIOUS
    <3>5. y.removals = x.removals /\ y.closing = x.closing
      BY <3>2, <3>4 DEF Entry
    <3>6. x.removals = entries[f].removals /\ x.closing = entries[f].closing
      <4>1. CASE current = 0
        BY <1>1, <3>1, <4>1, FreshUntouched DEF FoundEntry, ColdEntry
      <4>2. CASE current # 0
        BY <3>1, <4>2 DEF FoundEntry, Found
      <4> QED
        BY <4>1, <4>2
    <3>7. entries' = [entries EXCEPT ![f] = y]
      BY <2>1, <3>1, <3>3, <3>4 DEF Replace
    <3> HIDE DEF x
    <3> QED
      BY <1>1, <3>5, <3>6, <3>7, EditUntouched
  <2>2. CASE ~Replace(o)
    BY <2>2 DEF ReplaceRefused, ApplySucceeds, ApplyFails, Applies, Untouched
  <2> QED
    BY <2>1, <2>2
<1>6. \A p \in Ops : Unmoved(op[p], op'[p]) \/ (Aside(op[p]) /\ Aside(op'[p]))
  BY <1>3, <1>4, SameUnmoved
<1> QED
  BY <1>2, <1>5, <1>6, BesideKept

\* close() and shutdown() of an entry.
LEMMA ClosePromises ==
  ASSUME PInv, NEW o \in Ops, NEW k \in {"close", "shutdown"}, Close(o, k)
  PROVE  Promises'
<1>1. TypeOK /\ IInv /\ op[o].pc = "idle"
  BY DEF PInv, IInv, Close
<1>2. current' = current /\ shuttingDown' = (shuttingDown \/ k = "shutdown")
  BY DEF Close
<1>3. CASE current # 0
  <2>1. PICK f \in Ids : f = current
    BY <1>1, <1>3 DEF TypeOK, Ids
  <2>2. Removes(o, k, f, entries[f])
    BY <1>3, <2>1 DEF Close
  <2>3. PICK q \in {"joined", "opening"} :
          /\ q = "opening" <=> entries[f].closing = None
          /\ op' = [op EXCEPT ![o] = Started(k, q, f)]
    BY <2>2 DEF Removes
  <2>4. /\ entries'[f].removals = entries[f].removals
        /\ entries'[f].closing = IF entries[f].closing = None THEN o ELSE entries[f].closing
        /\ \A e \in Ids : e # f => Untouched(e)
    BY <1>1, <2>2 DEF Removes, TypeOK, Entry, Untouched
  <2>5. PICK j \in {"close", "shutdown", "delete"} : j = k /\ j # "delete"
    OBVIOUS
  <2> QED
    BY <1>1, <1>2, <2>1, <2>3, <2>4, <2>5, CallKept
<1>4. CASE current = 0
  <2>1. op' = [op EXCEPT ![o] = Over(k, "done")] /\ entries' = entries
    BY <1>4 DEF Close
  <2>2. /\ Over(k, "done").kind = k /\ Over(k, "done").pc = "over"
        /\ Over(k, "done").entry = 0 /\ Over(k, "done").result = "done"
    BY DEF Over, IdleOp
  <2>3. op'[o] = Over(k, "done") /\ \A p \in Ops : p # o => op'[p] = op[p]
    BY <1>1, <2>1 DEF TypeOK
  <2>4. \A p \in Ops, e \in Ids : Awaits(p, e) => Awaits(p, e)'
    BY <1>1, <2>3 DEF Awaits, Removing, Removal
  <2>5. \A e \in Ids : EntryKeeps(e)'
    <3> TAKE e \in Ids
    <3>1. entries[e].closing # None => entries[e].closing \in Ops
      BY <1>1 DEF TypeOK, Entry
    <3>2. entries[e].closing # None =>
            /\ op'[entries[e].closing].pc \in Removal
            /\ op'[entries[e].closing].entry = e
      BY <1>1, <2>3, <3>1 DEF PInv, Promises, EntryKeeps, Removal
    <3> QED
      BY <2>1, <2>4, <3>2 DEF PInv, Promises, EntryKeeps
  <2>6. OpKeeps(o)'
    BY <1>2, <1>4, <2>2, <2>3 DEF OpKeeps, Replacement
  <2>7. ASSUME NEW p \in Ops, p # o PROVE OpKeeps(p)'
    <3>1. op'[p] = op[p]
      BY <2>3, <2>7
    <3>2. OpKeeps(p)
      BY DEF PInv, Promises
    <3>3. Called(p) => Called(p)'
      BY <1>1, <2>3, <3>1 DEF Called
    <3>4. op[p].pc = "callback" => Awaits(op[p].job, op[p].entry)'
      <4> SUFFICES ASSUME op[p].pc = "callback" PROVE Awaits(op[p].job, op[p].entry)'
        OBVIOUS
      <4>1. op[p].entry \in Ids
        BY <1>1, RemovalOwns DEF Removal
      <4>2. PICK j \in Ops, i \in Ids : j = op[p].job /\ i = op[p].entry /\ Awaits(j, i)
        BY <3>2, <4>1 DEF OpKeeps
      <4> QED
        BY <2>4, <3>1, <4>2
    <3> QED
      BY <1>2, <2>1, <3>1, <3>2, <3>3, <3>4 DEF OpKeeps
  <2> QED
    BY <2>5, <2>6, <2>7 DEF Promises
<1> QED
  BY <1>3, <1>4

\* deleteRuntime() of an entry, or of one it makes.
LEMMA DeletePromises ==
  ASSUME PInv, NEW o \in Ops, Delete(o)
  PROVE  Promises'
<1>1. TypeOK /\ IInv /\ op[o].pc = "idle" /\ ~shuttingDown /\ shuttingDown' = shuttingDown
  BY DEF PInv, IInv, Delete
<1>2. PICK f \in Ids : f = Found
  BY <1>1, FoundInIds DEF Delete
<1>3. PICK z \in Entry : z = FoundEntry(ColdEntry)
  BY <1>1, FreshTyped DEF TypeOK, FoundEntry, Ids
<1>4. z.removals = entries[f].removals /\ z.closing = entries[f].closing
  <2>1. CASE current = 0
    BY <1>1, <1>2, <1>3, <2>1, FreshUntouched DEF FoundEntry, ColdEntry
  <2>2. CASE current # 0
    BY <1>2, <1>3, <2>2 DEF FoundEntry, Found
  <2> QED
    BY <2>1, <2>2
<1>5. PICK x \in Entry :
        /\ x = [z EXCEPT !.removals = Append(@, o)]
        /\ x.removals = Append(z.removals, o) /\ x.closing = z.closing
  <2>1. Append(z.removals, o) \in Seq(Ops)
    BY <1>3 DEF Entry
  <2>2. [z EXCEPT !.removals = Append(@, o)] \in Entry
    BY <1>3, <2>1 DEF Entry
  <2> QED
    BY <1>3, <2>2 DEF Entry
<1>6. Removes(o, "delete", f, x)
  BY <1>2, <1>3, <1>5 DEF Delete
<1>7. PICK q \in {"joined", "opening"} :
        /\ q = "opening" <=> entries[f].closing = None
        /\ op' = [op EXCEPT ![o] = Started("delete", q, f)]
  BY <1>4, <1>5, <1>6 DEF Removes
<1>8. /\ entries'[f].removals = Append(entries[f].removals, o)
      /\ entries'[f].closing = IF entries[f].closing = None THEN o ELSE entries[f].closing
      /\ \A e \in Ids : e # f => Untouched(e)
  <2>1. CASE x.closing # None
    BY <1>1, <1>4, <1>5, <1>6, <2>1 DEF Removes, TypeOK, Untouched
  <2>2. CASE x.closing = None
    <3>1. PICK y : y = [x EXCEPT !.blocked = TRUE, !.closing = o]
      OBVIOUS
    <3>2. y.removals = x.removals /\ y.closing = o
      BY <1>5, <3>1 DEF Entry
    <3>3. entries' = [entries EXCEPT ![f] = y]
      BY <1>6, <2>2, <3>1 DEF Removes
    <3> QED
      BY <1>1, <1>4, <1>5, <2>2, <3>2, <3>3 DEF TypeOK, Untouched
  <2> QED
    BY <2>1, <2>2
<1>9. PICK k \in {"close", "shutdown", "delete"} : k = "delete" /\ k # "shutdown"
  OBVIOUS
<1> QED
  BY <1>1, <1>7, <1>8, <1>9, CallKept

-----------------------------------------------------------------------------
(* Theorems. *)

LEMMA InitPromises == Init => PInv
<1> SUFFICES ASSUME Init PROVE Promises
  BY InitSound DEF PInv
<1>1. \A e \in Ids : EntryKeeps(e)
  BY DEF Init, EntryKeeps, ColdEntry, Distinct, Queued
<1>2. \A o \in Ops : OpKeeps(o)
  <2>1. IdleOp.pc = "idle" /\ IdleOp.kind = None
    BY DEF IdleOp
  <2> QED
    BY <2>1, RegistryAssumption DEF Init, OpKeeps, AllKinds
<1> QED
  BY <1>1, <1>2 DEF Promises

LEMMA StutterPromises == PInv /\ UNCHANGED vars => Promises'
<1> SUFFICES ASSUME PInv, UNCHANGED vars PROVE Promises'
  OBVIOUS
<1>1. /\ op' = op /\ entries' = entries /\ shuttingDown' = shuttingDown /\ current' = current
  BY DEF vars
<1>2. \A p \in Ops : Unmoved(op[p], op'[p])
  BY <1>1, SameUnmoved
<1>3. \A e \in Ids : Untouched(e)
  BY <1>1 DEF Untouched
<1> QED
  BY <1>1, <1>2, <1>3, BesideKept

LEMMA PromisesKept == PInv /\ [Next]_vars => PInv'
<1> SUFFICES ASSUME PInv, [Next]_vars PROVE PInv'
  OBVIOUS
<1>1. IInv'
  BY StepKeeps DEF PInv
<1>2. ASSUME NEW u \in Uses, Use(u) \/ UseProceeds(u) \/ UseFails(u) \/ UseEnds(u)
      PROVE  Promises'
  BY <1>2, UsePromises
<1>3. ASSUME NEW e \in Ids, Construct(e) \/ Dispose(e)
      PROVE  Promises'
  BY <1>3, ConstructPromises, DisposePromises
<1>4. ASSUME NEW o \in Ops, Invoke(o)
      PROVE  Promises'
  BY <1>4, ClosePromises, DeletePromises, ReplacePromises DEF Invoke
<1>5. ASSUME NEW o \in Ops, Continue(o)
      PROVE  Promises'
  BY <1>5, AdvancePromises, FailurePromises, BeginKept, SuccessKept, EndPromises,
     ReplacePromises DEF Continue
<1>6. ASSUME UNCHANGED vars
      PROVE  Promises'
  BY <1>6, StutterPromises
<1>7. Promises'
  BY <1>2, <1>3, <1>4, <1>5, <1>6 DEF Next
<1> QED
  BY <1>1, <1>7 DEF PInv

\* The closing promise of an entry, its callbacks and the calls that await them agree
\* (CharacterRuntimeRegistry.remove with Entry.closing and Entry.removals).
THEOREM PromisesSound == Spec => []PInv
<1>1. Init => PInv
  BY InitPromises
<1>2. PInv /\ [Next]_vars => PInv'
  BY PromisesKept
<1> QED
  BY <1>1, <1>2, PTL DEF Spec

\* deleteRuntime() resolves exactly for those whose own removeFiles() has run, once,
\* also when they joined a close or another deletion, and when one beside them failed.
THEOREM DeletionsHonoured == Spec => []DeletionHonoured
<1>1. PInv => DeletionHonoured
  BY DEF PInv, Promises, OpKeeps, DeletionHonoured
<1> QED
  BY <1>1, PromisesSound, PTL

\* When shutdown() has resolved, nothing is open and no operation runs: the map is
\* empty and stays so, because nobody is admitted any more.
THEOREM ShutdownsComplete == Spec => []ShutdownIsComplete
<1>1. PInv => ShutdownIsComplete
  <2> SUFFICES ASSUME PInv, NEW o \in Ops, op[o].kind = "shutdown", op[o].result = "done"
               PROVE  Held = {} /\ Working = {}
    BY DEF ShutdownIsComplete
  <2>1. current = 0
    BY DEF PInv, Promises, OpKeeps
  <2>2. Held = {}
    BY <2>1, RegistryAssumption DEF PInv, IInv, Sound, EntrySound, Held, Ids
  <2>3. Working = {}
    <3> SUFFICES ASSUME NEW u \in Uses, use[u].pc = "running" PROVE FALSE
      BY DEF Working
    <3>1. /\ use[u].entry # 0 /\ use[u].entry \in 0 .. MaxEntries
          /\ entries[use[u].entry].resource = "open"
      BY DEF PInv, IInv, Sound, UseSound, TypeOK, UseStates
    <3>2. use[u].entry \in Ids
      BY <3>1, RegistryAssumption DEF Ids
    <3> QED
      BY <2>2, <3>1, <3>2 DEF Held
  <2> QED
    BY <2>2, <2>3
<1> QED
  BY <1>1, PromisesSound, PTL

-----------------------------------------------------------------------------
(* The refinement: files change behind the fence, as long as deletions and package *)
(* edits are kept apart.                                                           *)

\* The entry whose files a deletion removes, or a package edit replaces, is the map's,
\* and a removal waits for the edit to end.
FenceKeeps(o) ==
  /\ op[o].kind = "delete" /\ op[o].pc \in Removing => current = op[o].entry
  /\ op[o].pc \in Replacement =>
       /\ current = op[o].entry
       /\ op[o].kind = "replace"
       /\ \A p \in Ops : op[p].pc \in Replacement => p = o
  /\ op[o].pc \in {"removing", "callback"} =>
       \A p \in Ops : op[p].pc \in Replacement => op[p].entry # op[o].entry

FInv ==
  /\ PInv
  /\ Apart
  /\ \A o \in Ops : FenceKeeps(o)

\* A deletion or a package edit under way.
Bound(x) == (x.kind = "delete" /\ x.pc \in Removing) \/ x.pc \in Replacement

\* What is bound is bound to the map's entry, which is blocked.
LEMMA BoundBlocked ==
  ASSUME FInv, NEW o \in Ops, Bound(op[o])
  PROVE  /\ op[o].entry \in Ids /\ current = op[o].entry
         /\ current # 0 /\ entries[current].blocked
<1>1. IInv
  BY DEF FInv, PInv
<1>2. current = op[o].entry
  BY DEF FInv, FenceKeeps, Bound
<1>3. \A p \in Ops : op[p].pc \in Removal \cup Replacement =>
        op[p].entry \in 1 .. made /\ entries[op[p].entry].blocked
  BY <1>1 DEF IInv, Sound, OpSound
<1>4. op[o].pc \in Removal \cup Replacement => op[o].entry \in Ids /\ entries[op[o].entry].blocked
  <2>1. made \in 0 .. MaxEntries
    BY <1>1 DEF IInv, TypeOK
  <2> QED
    BY <1>3, <2>1, RegistryAssumption DEF Ids
<1>5. op[o].pc = "joined" => op[o].entry \in Ids /\ entries[op[o].entry].blocked
  <2> SUFFICES ASSUME op[o].pc = "joined" PROVE op[o].entry \in Ids /\ entries[op[o].entry].blocked
    OBVIOUS
  <2>1. PICK e \in Ids : e = op[o].entry /\ entries[e].closing # None
    BY DEF FInv, PInv, Promises, OpKeeps
  <2>2. PICK q \in Ops : q = entries[e].closing
    BY <1>1, <2>1 DEF IInv, TypeOK, Entry
  <2>3. op[q].pc \in Removal /\ op[q].entry = e
    BY <2>1, <2>2 DEF FInv, PInv, Promises, EntryKeeps
  <2> QED
    BY <1>3, <2>1, <2>3
<1>6. op[o].entry \in Ids /\ entries[op[o].entry].blocked
  BY <1>4, <1>5 DEF Bound, Removing
<1> QED
  BY <1>2, <1>6 DEF Ids

\* Steps that bind nothing keep the fence if they leave the map, or all that was bound
\* is over.
LEMMA FenceStays ==
  ASSUME FInv,
         \A p \in Ops : Bound(op'[p]) =>
           /\ Bound(op[p])
           /\ op'[p].entry = op[p].entry /\ op'[p].kind = op[p].kind
           /\ op'[p].pc \in Replacement <=> op[p].pc \in Replacement,
         current' = current \/ \A p \in Ops : ~Bound(op'[p]),
         \A p \in Ops : op'[p].pc \in {"removing", "callback"} =>
           /\ op'[p].entry = op[p].entry
           /\ \/ op[p].pc \in {"removing", "callback"}
              \/ \A q \in Ops : op[q].pc \in Replacement => op[q].entry # op[p].entry
  PROVE  \A p \in Ops : FenceKeeps(p)'
<1> TAKE p \in Ops
<1>1. \A q \in Ops : FenceKeeps(q)
  BY DEF FInv
<1>2. \A q \in Ops : op'[q].pc \in Replacement =>
        op[q].pc \in Replacement /\ op'[q].entry = op[q].entry /\ op'[q].kind = op[q].kind
  BY DEF Bound
<1>3. op'[p].kind = "delete" /\ op'[p].pc \in Removing => current' = op'[p].entry
  <2> SUFFICES ASSUME op'[p].kind = "delete", op'[p].pc \in Removing
               PROVE  current' = op'[p].entry
    OBVIOUS
  <2>1. Bound(op'[p]) /\ op'[p].pc \notin Replacement
    BY DEF Bound, Removing, Removal, Replacement
  <2>2. op[p].kind = "delete" /\ op[p].pc \in Removing /\ op'[p].entry = op[p].entry
    BY <2>1 DEF Bound
  <2> QED
    BY <1>1, <2>1, <2>2 DEF FenceKeeps
<1>4. op'[p].pc \in Replacement =>
        /\ current' = op'[p].entry
        /\ op'[p].kind = "replace"
        /\ \A q \in Ops : op'[q].pc \in Replacement => q = p
  BY <1>1, <1>2 DEF FenceKeeps, Bound
<1>5. op'[p].pc \in {"removing", "callback"} =>
        \A q \in Ops : op'[q].pc \in Replacement => op'[q].entry # op'[p].entry
  BY <1>1, <1>2 DEF FenceKeeps
<1> QED
  BY <1>3, <1>4, <1>5 DEF FenceKeeps

\* Steps after which no operation is at another step than before.
LEMMA FenceUnmoved ==
  ASSUME FInv, op' = op, current' = current \/ \A p \in Ops : ~Bound(op[p])
  PROVE  \A p \in Ops : FenceKeeps(p)'
BY FenceStays

LEMMA UseFence ==
  ASSUME FInv, NEW u \in Uses, Use(u) \/ UseProceeds(u) \/ UseFails(u) \/ UseEnds(u)
  PROVE  \A p \in Ops : FenceKeeps(p)'
<1>1. op' = op
  BY DEF Use, UseProceeds, UseFails, UseEnds, Leave
<1>2. current' = current \/ current = 0
  BY DEF Use, UseProceeds, UseFails, UseEnds, Leave, Makes, Found
<1>3. current = 0 => \A p \in Ops : ~Bound(op[p])
  BY BoundBlocked
<1> QED
  BY <1>1, <1>2, <1>3, FenceUnmoved

LEMMA ConstructFence ==
  ASSUME FInv, NEW e \in Ids, Construct(e)
  PROVE  \A p \in Ops : FenceKeeps(p)'
<1>1. op' = op
  BY DEF Construct, Retain, OpenSucceeds, OpenFails
<1>2. current' = current \/ (current = e /\ ~entries[e].blocked)
  BY DEF Construct, Retain, OpenSucceeds, OpenFails, Owned
<1>3. current = e /\ ~entries[e].blocked => \A p \in Ops : ~Bound(op[p])
  BY BoundBlocked
<1> QED
  BY <1>1, <1>2, <1>3, FenceUnmoved

LEMMA OpenedFence ==
  ASSUME FInv, NEW o \in Ops, RemovalOpened(o)
  PROVE  \A p \in Ops : FenceKeeps(p)'
<1>1. /\ op[o].pc = "opening" /\ current' = current
      /\ \A p \in Ops : op[p].pc = "applying" => op[p].entry # op[o].entry
      /\ \A p \in Ops : p # o => op'[p] = op[p]
      /\ op'[o].entry = op[o].entry /\ op'[o].kind = op[o].kind
      /\ op'[o].pc \in {"removing", "stopping"}
      /\ op'[o].pc = "removing" => entries[op[o].entry].resource = "none"
  BY DEF RemovalOpened, FInv, PInv, IInv, TypeOK, OpStates
<1>2. \A p \in Ops : op[p].pc = "disposing" => entries[op[p].entry].resource = "closing"
  BY DEF FInv, PInv, IInv, Sound, OpSound
<1>3. op'[o].pc = "removing" =>
        \A q \in Ops : op[q].pc \in Replacement => op[q].entry # op[o].entry
  BY <1>1, <1>2 DEF Replacement
<1> QED
  BY <1>1, <1>3, FenceStays DEF Bound, Removing, Removal, Replacement

LEMMA AdvanceFence ==
  ASSUME FInv, NEW o \in Ops,
         StopSucceeds(o) \/ RemovalDrained(o) \/ RemovalClosed(o) \/ CallbackBegins(o)
  PROVE  \A p \in Ops : FenceKeeps(p)'
<1>1. /\ op[o].pc \in Removal /\ current' = current
      /\ \A p \in Ops : p # o => op'[p] = op[p]
      /\ op'[o].entry = op[o].entry /\ op'[o].kind = op[o].kind
      /\ op'[o].pc \in Removal
  <2> USE DEF FInv, PInv, IInv, TypeOK, OpStates, Removal
  <2>1. CASE StopSucceeds(o)
    BY <2>1 DEF StopSucceeds
  <2>2. CASE RemovalDrained(o)
    BY <2>2 DEF RemovalDrained
  <2>3. CASE RemovalClosed(o)
    BY <2>3 DEF RemovalClosed
  <2>4. CASE CallbackBegins(o)
    BY <2>4 DEF CallbackBegins
  <2> QED
    BY <2>1, <2>2, <2>3, <2>4
<1>2. op'[o].pc \in {"removing", "callback"} =>
        \/ op[o].pc \in {"removing", "callback"}
        \/ \A q \in Ops : op[q].pc \in Replacement => op[q].entry # op[o].entry
  <2>0. op \in [Ops -> OpStates] /\ op[o] \in OpStates
    BY DEF FInv, PInv, IInv, TypeOK
  <2>1. CASE StopSucceeds(o)
    BY <2>0, <2>1 DEF StopSucceeds, OpStates
  <2>2. CASE RemovalDrained(o)
    BY <2>0, <2>2 DEF RemovalDrained, OpStates
  <2>3. CASE RemovalClosed(o)
    BY <2>0, <2>3 DEF RemovalClosed, OpStates, Replacement
  <2>4. CASE CallbackBegins(o)
    BY <2>0, <2>4 DEF CallbackBegins, OpStates
  <2> QED
    BY <2>1, <2>2, <2>3, <2>4
<1> QED
  BY <1>1, <1>2, FenceStays DEF Bound, Removing, Removal, Replacement

LEMMA SuccessFence ==
  ASSUME FInv, NEW o \in Ops, CallbackSucceeds(o)
  PROVE  \A p \in Ops : FenceKeeps(p)'
<1>1. op[o].job \in Ops
  BY DEF FInv, PInv, Promises, OpKeeps, CallbackSucceeds
<1>2. /\ op[o].pc = "callback" /\ current' = current
      /\ \A p \in Ops : /\ op'[p].entry = op[p].entry /\ op'[p].kind = op[p].kind
                        /\ p # o => op'[p].pc = op[p].pc
      /\ op'[o].pc = "removing"
  BY <1>1 DEF CallbackSucceeds, FInv, PInv, IInv, TypeOK, OpStates
<1> QED
  BY <1>2, FenceStays DEF Bound, Removing, Removal, Replacement

LEMMA FailureFence ==
  ASSUME FInv, NEW o \in Ops, StopFails(o) \/ RemovalRefused(o) \/ CallbackFails(o)
  PROVE  \A p \in Ops : FenceKeeps(p)'
<1>1. RemovalFails(o)
  BY DEF StopFails, RemovalRefused, CallbackFails
<1>2. current' = current /\ Settles(o, "failed")
  BY <1>1 DEF RemovalFails
<1>3. \A p \in Ops : op'[p] = op[p] \/ op'[p].pc = "over"
  BY <1>2 DEF Settles, FInv, PInv, IInv, TypeOK, OpStates
<1> QED
  BY <1>2, <1>3, FenceStays DEF Bound, Removing, Removal, Replacement

\* A removal that ends takes its entry out of the map only when nothing is bound to it.
LEMMA EndFence ==
  ASSUME FInv, NEW o \in Ops, RemovalEnds(o)
  PROVE  \A p \in Ops : FenceKeeps(p)'
<1>1. /\ op[o].pc = "removing"
      /\ current' = current \/ current = op[o].entry
      /\ \A p \in Ops : op'[p] = op[p] \/ op'[p].pc = "over"
      /\ \A p \in Ops : p = o \/ (op[p].pc = "joined" /\ op[p].entry = op[o].entry)
           => op'[p].pc = "over"
  BY DEF RemovalEnds, Settles, Owned, FInv, PInv, IInv, TypeOK, OpStates
<1>2. current = op[o].entry => \A p \in Ops : ~Bound(op'[p])
  <2> SUFFICES ASSUME current = op[o].entry, NEW p \in Ops, Bound(op'[p]) PROVE FALSE
    OBVIOUS
  <2>1. op'[p] = op[p] /\ op'[p].pc # "over"
    BY <1>1 DEF Bound, Removing, Removal, Replacement
  <2>2. op[p].entry = op[o].entry
    BY <2>1, BoundBlocked
  <2>3. op[p].pc \notin Replacement
    BY <1>1, <2>2 DEF FInv, FenceKeeps
  <2>4. op[p].pc \in Removal
    BY <1>1, <2>1, <2>2, <2>3 DEF Bound, Removing
  <2>5. entries[op[o].entry].closing = p /\ entries[op[o].entry].closing = o
    BY <1>1, <2>2, <2>4, RemovalOwns DEF FInv, PInv, Removal
  <2> QED
    BY <1>1, <2>1, <2>5
<1> QED
  BY <1>1, <1>2, FenceStays DEF Bound, Removing, Removal, Replacement

\* The end of a package edit unblocks the entry of no deletion.
LEMMA ApplyFence ==
  ASSUME FInv, NEW o \in Ops, ApplySucceeds(o) \/ ApplyFails(o)
  PROVE  \A p \in Ops : FenceKeeps(p)'
<1>1. /\ op[o].pc = "applying"
      /\ op'[o].pc = "over" /\ \A p \in Ops : p # o => op'[p] = op[p]
  BY DEF ApplySucceeds, ApplyFails, Applies, FInv, PInv, IInv, TypeOK, OpStates
<1>2. \A p \in Ops : ~Bound(op'[p])
  <2> SUFFICES ASSUME NEW p \in Ops, Bound(op'[p]) PROVE FALSE
    OBVIOUS
  <2>1. p # o /\ op'[p] = op[p]
    BY <1>1 DEF Bound, Removing, Removal, Replacement
  <2>2. op[o].kind = "replace" /\ op[p].entry = current /\ op[o].entry = current
    BY <1>1, <2>1, BoundBlocked DEF FInv, FenceKeeps, Bound, Replacement
  <2>3. op[p].pc \notin Replacement
    BY <1>1, <2>1 DEF FInv, FenceKeeps, Replacement
  <2>4. InFlight(p, "delete") /\ InFlight(o, "replace")
    BY <1>1, <2>1, <2>2, <2>3 DEF InFlight, Bound, Removing, Removal
  <2> QED
    BY <2>2, <2>4 DEF FInv, Apart
<1>3. \A p \in Ops : op'[p].pc \in {"removing", "callback"} => op'[p] = op[p]
  BY <1>1
<1> QED
  BY <1>2, <1>3, FenceStays

LEMMA DisposeFence ==
  ASSUME FInv, NEW e \in Ids, Dispose(e)
  PROVE  \A p \in Ops : FenceKeeps(p)'
<1>1. CASE DisposalEnds(e)
  <2>1. /\ current' = current
        /\ \A p \in Ops : \/ op'[p] = op[p]
                          \/ /\ op[p].pc = "disposing" /\ op'[p].pc = "applying"
                             /\ op'[p].entry = op[p].entry /\ op'[p].kind = op[p].kind
    BY <1>1 DEF DisposalEnds, FInv, PInv, IInv, TypeOK, OpStates
  <2> QED
    BY <2>1, FenceStays DEF Bound, Removing, Removal, Replacement
<1>2. CASE DisposalFails(e)
  <2>1. current' = current /\ \A p \in Ops : op'[p] = op[p] \/ op'[p].pc = "over"
    BY <1>2 DEF DisposalFails, FInv, PInv, IInv, TypeOK, OpStates
  <2> QED
    BY <2>1, FenceStays DEF Bound, Removing, Removal, Replacement
<1> QED
  BY <1>1, <1>2 DEF Dispose

LEMMA CloseFence ==
  ASSUME FInv, NEW o \in Ops, NEW k \in {"close", "shutdown"}, Close(o, k)
  PROVE  \A p \in Ops : FenceKeeps(p)'
<1>1. /\ current' = current
      /\ \/ op' = [op EXCEPT ![o] = Over(k, "done")]
         \/ \E s \in {"joined", "opening"} : op' = [op EXCEPT ![o] = Started(k, s, current)]
  BY DEF Close, Removes
<1>2. \A p \in Ops : \/ op'[p] = op[p]
                     \/ op'[p].kind = k /\ op'[p].pc \in {"over", "joined", "opening"}
  BY <1>1 DEF Over, Started, IdleOp, FInv, PInv, IInv, TypeOK
<1> QED
  BY <1>1, <1>2, FenceStays DEF Bound, Removing, Removal, Replacement

LEMMA DeleteFence ==
  ASSUME FInv, NEW o \in Ops, Delete(o)
  PROVE  \A p \in Ops : FenceKeeps(p)'
<1>1. /\ current' = Found
      /\ \A p \in Ops : p # o => op'[p] = op[p]
      /\ op'[o].kind = "delete" /\ op'[o].pc \in {"joined", "opening"} /\ op'[o].entry = Found
  BY DEF Delete, Makes, Removes, Started, IdleOp, FInv, PInv, IInv, TypeOK, OpStates
<1>2. \A p \in Ops : Bound(op[p]) => current = op[p].entry /\ Found = current
  BY BoundBlocked DEF Found
<1>3. \A p \in Ops : FenceKeeps(p)
  BY DEF FInv
<1>4. ASSUME NEW p \in Ops, p # o PROVE FenceKeeps(p)'
  <2>1. Bound(op[p]) => current' = op[p].entry
    BY <1>1, <1>2
  <2>2. op'[p] = op[p]
    BY <1>1, <1>4
  <2>3. \A q \in Ops : op'[q].pc \in Replacement => op'[q] = op[q]
    BY <1>1 DEF Replacement
  <2> QED
    BY <1>3, <2>1, <2>2, <2>3 DEF FenceKeeps, Bound
<1>5. FenceKeeps(o)'
  BY <1>1 DEF FenceKeeps, Replacement
<1> QED
  BY <1>4, <1>5

LEMMA ReplaceFence ==
  ASSUME FInv, NEW o \in Ops, Replace(o)
  PROVE  \A p \in Ops : FenceKeeps(p)'
<1>1. /\ current' = Found
      /\ \A p \in Ops : p # o => op'[p] = op[p]
      /\ op'[o].kind = "replace" /\ op'[o].pc \in Replacement /\ op'[o].entry = Found
      /\ current # 0 => ~entries[current].blocked
  BY DEF Replace, Makes, Started, IdleOp, Idle, FInv, PInv, IInv, TypeOK, OpStates, Replacement
<1>2. \A p \in Ops : ~Bound(op[p])
  BY <1>1, BoundBlocked
<1>3. ASSUME NEW p \in Ops, op[p].pc \in Removal PROVE op[p].entry # Found
  <2>1. op[p].entry \in 1 .. made /\ entries[op[p].entry].blocked
    BY <1>3 DEF FInv, PInv, IInv, Sound, OpSound
  <2>2. made \in Nat
    BY RegistryAssumption DEF FInv, PInv, IInv, TypeOK
  <2> QED
    BY <1>1, <2>1, <2>2 DEF Found
<1>4. ASSUME NEW p \in Ops, p # o PROVE FenceKeeps(p)'
  <2>1. op'[p] = op[p] /\ ~Bound(op'[p])
    BY <1>1, <1>2, <1>4
  <2>2. op'[p].pc \in {"removing", "callback"} =>
          \A q \in Ops : op'[q].pc \in Replacement => op'[q].entry # op'[p].entry
    <3> SUFFICES ASSUME op[p].pc \in {"removing", "callback"}, NEW q \in Ops,
                        op'[q].pc \in Replacement
                 PROVE  op'[q].entry # op[p].entry
      BY <2>1
    <3>1. q = o
      BY <1>1, <1>2 DEF Bound
    <3> QED
      BY <1>1, <1>3, <3>1 DEF Removal
  <2> QED
    BY <2>1, <2>2 DEF FenceKeeps, Bound
<1>5. FenceKeeps(o)'
  <2>1. \A p \in Ops : op'[p].pc \in Replacement => p = o
    BY <1>1, <1>2 DEF Bound
  <2> QED
    BY <1>1, <2>1 DEF FenceKeeps, Removing, Removal, Replacement
<1> QED
  BY <1>4, <1>5

LEMMA RefusedFence ==
  ASSUME FInv, NEW o \in Ops, ReplaceRefused(o)
  PROVE  \A p \in Ops : FenceKeeps(p)'
<1>1. current' = current /\ \A p \in Ops : op'[p] = op[p] \/ op'[p].pc = "over"
  BY DEF ReplaceRefused, Over, IdleOp, FInv, PInv, IInv, TypeOK, OpStates
<1> QED
  BY <1>1, FenceStays DEF Bound, Removing, Removal, Replacement

LEMMA FenceKept == FInv /\ [Next /\ Apart']_vars => FInv'
<1> SUFFICES ASSUME FInv, [Next /\ Apart']_vars PROVE FInv'
  OBVIOUS
<1>1. CASE UNCHANGED vars
  BY <1>1, StutterPromises, StepKeeps, FenceUnmoved
     DEF FInv, PInv, vars, Apart, InFlight
<1>2. CASE Next /\ Apart'
  <2>1. PInv'
    BY <1>2, PromisesKept DEF FInv
  <2>2. ASSUME NEW u \in Uses, Use(u) \/ UseProceeds(u) \/ UseFails(u) \/ UseEnds(u)
        PROVE  \A p \in Ops : FenceKeeps(p)'
    BY <2>2, UseFence
  <2>3. ASSUME NEW e \in Ids, Construct(e) \/ Dispose(e)
        PROVE  \A p \in Ops : FenceKeeps(p)'
    BY <2>3, ConstructFence, DisposeFence
  <2>4. ASSUME NEW o \in Ops, Invoke(o)
        PROVE  \A p \in Ops : FenceKeeps(p)'
    BY <2>4, CloseFence, DeleteFence, ReplaceFence, RefusedFence DEF Invoke
  <2>5. ASSUME NEW o \in Ops, Continue(o)
        PROVE  \A p \in Ops : FenceKeeps(p)'
    BY <2>5, OpenedFence, AdvanceFence, SuccessFence, FailureFence, EndFence, ApplyFence
       DEF Continue
  <2> QED
    BY <1>2, <2>1, <2>2, <2>3, <2>4, <2>5 DEF Next, FInv
<1> QED
  BY <1>1, <1>2

LEMMA InitFence == Init /\ Apart => FInv
<1>1. Init => \A o \in Ops : op[o].pc = "idle"
  BY DEF Init, IdleOp
<1>2. (\A o \in Ops : op[o].pc = "idle") => \A o \in Ops : FenceKeeps(o)
  BY DEF FenceKeeps, Removing, Removal, Replacement
<1> QED
  BY <1>1, <1>2, InitPromises DEF FInv

-----------------------------------------------------------------------------
(* Every step is one of the abstract resource, or none. *)

\* What is not closed is the map's.
LEMMA HeldOfMap ==
  ASSUME IInv
  PROVE  \A e \in Held : e \in Ids /\ e = current /\ entries[e].resource \in {"open", "closing"}
BY DEF Held, IInv, Sound, EntrySound

Open(x) == x.resource \in {"open", "closing"}

\* The view of an edit of one entry that closes nothing and moves no block.
LEMMA EditView ==
  ASSUME TypeOK, NEW f \in Ids, NEW y, entries' = [entries EXCEPT ![f] = y],
         y.blocked = entries[f].blocked, Open(y) <=> Open(entries[f]), current' = current
  PROVE  Held' = Held /\ Blocked' = Blocked
<1>1. /\ \A e \in Ids : e # f => entries'[e] = entries[e]
      /\ entries'[f] = y
      /\ current = 0 \/ current \in Ids
  BY RegistryAssumption DEF TypeOK, Ids
<1>2. \A e \in Ids : Open(entries'[e]) <=> Open(entries[e])
  BY <1>1
<1>3. Held' = Held
  BY <1>2 DEF Held, Open
<1>4. \A e \in Ids : entries'[e].blocked = entries[e].blocked
  BY <1>1
<1>5. Blocked' = Blocked
  BY <1>1, <1>4 DEF Blocked
<1> QED
  BY <1>3, <1>5

\* The view of an edit of the entry in the map that blocks it and closes nothing.
LEMMA FenceView ==
  ASSUME TypeOK, NEW f \in Ids, NEW y, entries' = [entries EXCEPT ![f] = y],
         y.blocked = TRUE, Open(y) <=> Open(entries[f]), current' = f
  PROVE  Held' = Held /\ Blocked' = TRUE
<1>1. /\ \A e \in Ids : e # f => entries'[e] = entries[e]
      /\ entries'[f] = y
      /\ f # 0
  BY DEF TypeOK, Ids
<1>2. \A e \in Ids : Open(entries'[e]) <=> Open(entries[e])
  BY <1>1
<1>3. Held' = Held
  BY <1>2 DEF Held, Open
<1> QED
  BY <1>1, <1>3 DEF Blocked

\* The entry that Found names is the map's, or closed and unblocked like any new one.
LEMMA FoundSame ==
  ASSUME IInv, Makes, NEW x, FoundEntry(x).resource = FoundEntry(ColdEntry).resource
  PROVE  Open(FoundEntry(x)) <=> Open(entries[Found])
<1>1. current = 0 => entries[Found] = ColdEntry
  <2> SUFFICES ASSUME current = 0 PROVE entries[Found] = ColdEntry
    OBVIOUS
  <2>1. Found \in Ids /\ Found = made + 1 /\ made \in Nat
    BY FoundInIds, RegistryAssumption DEF Found, IInv, TypeOK
  <2> QED
    BY <2>1 DEF IInv, Sound, EntrySound
<1> QED
  BY <1>1 DEF Open, Found, FoundEntry

Quiet == UNCHANGED <<Held, Working, Blocked, changes>>

LEMMA UseStep ==
  ASSUME FInv, NEW u \in Uses, Use(u)
  PROVE  Quiet
<1>1. IInv /\ TypeOK
  BY DEF FInv, PInv, IInv
<1> DEFINE f == Found
           x == FoundEntry(OpeningEntry)
           y == [x EXCEPT !.users = @ + 1]
<1>2. /\ f \in Ids /\ current' = f /\ ~Blocked /\ entries' = [entries EXCEPT ![f] = y]
      /\ use' = [use EXCEPT ![u] = [pc |-> "opening", entry |-> f]]
      /\ use[u].pc = "idle" /\ changes' = changes
  BY <1>1, FoundInIds DEF Use
<1>3. x \in Entry
  BY <1>1, <1>2, FreshTyped DEF FoundEntry, Found, TypeOK
<1>4. y.blocked = x.blocked /\ y.resource = x.resource
  BY <1>3 DEF Entry
<1>5. x.blocked = FALSE
  BY <1>1, <1>2 DEF FoundEntry, Blocked, OpeningEntry, ColdEntry, TypeOK, Entry, Found
<1>6. Open(y) <=> Open(entries[f])
  <2>1. Open(x) <=> Open(entries[f])
    <3>1. FoundEntry(OpeningEntry).resource = FoundEntry(ColdEntry).resource
      BY DEF FoundEntry, OpeningEntry, ColdEntry
    <3>2. Makes
      BY DEF Use
    <3> QED
      BY <1>1, <3>1, <3>2, FoundSame
  <2> QED
    BY <1>4, <2>1 DEF Open
<1> HIDE DEF f, x, y
<1>7. Held' = Held
  <2>1. \A e \in Ids : Open(entries'[e]) <=> Open(entries[e])
    BY <1>1, <1>2, <1>6 DEF TypeOK
  <2> QED
    BY <2>1 DEF Held, Open
<1>8. Blocked' = FALSE
  BY <1>1, <1>2, <1>4, <1>5 DEF Blocked, TypeOK
<1>9. Working' = Working
  BY <1>1, <1>2 DEF Working, TypeOK
<1> QED
  BY <1>2, <1>7, <1>8, <1>9 DEF Quiet, Blocked

LEMMA ProceedStep ==
  ASSUME FInv, NEW u \in Uses, UseProceeds(u)
  PROVE  Exclusive!Enter(u)
<1> DEFINE f == use[u].entry
<1>1. IInv /\ TypeOK
  BY DEF FInv, PInv, IInv
<1>2. /\ entries[f].opening = "opened" /\ ~entries[f].blocked
      /\ use[u].pc = "opening" /\ use' = [use EXCEPT ![u].pc = "running"]
      /\ UNCHANGED <<entries, current, changes>>
  BY DEF UseProceeds
<1>3. f \in Ids
  <2>1. f # 0 /\ f \in 0 .. MaxEntries
    BY <1>1, <1>2 DEF IInv, Sound, UseSound, TypeOK, UseStates
  <2> QED
    BY <2>1, RegistryAssumption DEF Ids
<1>4. entries[f].resource = "open"
  <2>1. entries[f].resource \in {"none", "open", "closing", "closed"}
    BY <1>1, <1>3 DEF TypeOK, Entry
  <2> QED
    BY <1>1, <1>2, <1>3, <2>1 DEF IInv, Sound, EntrySound
<1>5. f \in Held /\ current = f
  BY <1>1, <1>3, <1>4 DEF Held, IInv, Sound, EntrySound
<1>6. ~Blocked
  BY <1>2, <1>5 DEF Blocked
<1>7. Working' = Working \cup {u}
  BY <1>1, <1>2 DEF Working, TypeOK, UseStates
<1>8. Held' = Held /\ Blocked' = Blocked
  BY <1>2 DEF Held, Blocked
<1> QED
  BY <1>2, <1>5, <1>6, <1>7, <1>8 DEF Exclusive!Enter

LEMMA LeaveStep ==
  ASSUME FInv, NEW u \in Uses, use[u].pc # "idle", Leave(u)
  PROVE  Exclusive!Leave(u)
<1>1. IInv /\ TypeOK
  BY DEF FInv, PInv, IInv
<1> DEFINE f == use[u].entry
           y == [entries[f] EXCEPT !.users = @ - 1, !.undrained = @ /\ entries[f].users # 1]
<1>2. f \in Ids
  <2>1. f # 0 /\ f \in 0 .. MaxEntries
    BY <1>1 DEF IInv, Sound, UseSound, TypeOK, UseStates
  <2> QED
    BY <2>1, RegistryAssumption DEF Ids
<1>3. entries' = [entries EXCEPT ![f] = y] /\ current' = current /\ changes' = changes
  BY DEF Leave
<1>4. y.blocked = entries[f].blocked /\ (Open(y) <=> Open(entries[f]))
  BY <1>1, <1>2 DEF TypeOK, Entry, Open
<1>5. Working' = Working \ {u}
  BY <1>1 DEF Leave, Working, TypeOK, IdleUse
<1> HIDE DEF f, y
<1>6. Held' = Held /\ Blocked' = Blocked
  BY <1>1, <1>2, <1>3, <1>4, EditView
<1> QED
  BY <1>3, <1>5, <1>6 DEF Exclusive!Leave

LEMMA ConstructStep ==
  ASSUME FInv, NEW e \in Ids, Construct(e)
  PROVE  Quiet \/ Exclusive!Open(e) \/ Exclusive!Fence
<1>1. IInv /\ TypeOK
  BY DEF FInv, PInv, IInv
<1>2. /\ entries[e].opening = "pending" /\ use' = use /\ changes' = changes
  BY DEF Construct, Retain, OpenSucceeds, OpenFails
<1>3. Working' = Working
  BY <1>2 DEF Working
<1>4. current = e /\ e # 0 /\ entries[e].resource \in {"none", "open"} /\ entries[e] \in Entry
  BY <1>1, <1>2 DEF IInv, Sound, EntrySound, Ids, TypeOK
<1>5. CASE Retain(e)
  <2>1. Held = {}
    BY <1>1, <1>4, <1>5, HeldOfMap DEF Retain
  <2>2. Held' = {e}
    <3>1. \A i \in Ids : i # e => entries'[i] = entries[i]
      BY <1>1, <1>5 DEF Retain, TypeOK
    <3>2. entries'[e].resource = "open"
      BY <1>1, <1>4, <1>5 DEF Retain, TypeOK, Entry
    <3> QED
      BY <2>1, <3>1, <3>2 DEF Held
  <2>3. Blocked' = Blocked
    BY <1>1, <1>4, <1>5 DEF Retain, Blocked, TypeOK, Entry
  <2> QED
    BY <1>2, <1>3, <2>1, <2>2, <2>3 DEF Exclusive!Open
<1>6. CASE OpenSucceeds(e)
  <2> DEFINE y == [entries[e] EXCEPT !.opening = "opened"]
  <2>1. entries' = [entries EXCEPT ![e] = y] /\ current' = current
    BY <1>6 DEF OpenSucceeds
  <2>2. y.blocked = entries[e].blocked /\ (Open(y) <=> Open(entries[e]))
    BY <1>4 DEF Entry, Open
  <2> HIDE DEF y
  <2> QED
    BY <1>1, <1>2, <1>3, <2>1, <2>2, EditView DEF Quiet
<1>7. CASE OpenFails(e)
  <2> DEFINE retained == entries[e].resource # "none"
             y == [entries[e] EXCEPT !.opening = "failed", !.blocked = @ \/ retained]
  <2>1. /\ entries' = [entries EXCEPT ![e] = y]
        /\ current' = IF ~retained /\ ~entries[e].blocked /\ Owned(e) THEN 0 ELSE current
    BY <1>7 DEF OpenFails
  <2>2. /\ y.blocked = (entries[e].blocked \/ retained)
        /\ Open(y) <=> Open(entries[e])
    BY <1>4 DEF Entry, Open
  <2>3. CASE retained
    <3>1. y.blocked = TRUE /\ current' = e
      BY <1>4, <2>1, <2>2, <2>3
    <3> HIDE DEF y, retained
    <3> QED
      BY <1>1, <1>2, <1>3, <2>1, <2>2, <3>1, FenceView DEF Exclusive!Fence
  <2>4. CASE ~retained
    <3>1. y.blocked = entries[e].blocked
      BY <1>4, <2>2, <2>4 DEF Entry
    <3>2. CASE entries[e].blocked
      <4>1. current' = current
        BY <2>1, <3>2
      <4> HIDE DEF y, retained
      <4> QED
        BY <1>1, <1>2, <1>3, <2>1, <2>2, <3>1, <4>1, EditView DEF Quiet
    <3>3. CASE ~entries[e].blocked
      <4>1. current' = 0
        BY <1>4, <2>1, <2>4, <3>3 DEF Owned
      <4>2. Blocked' = FALSE /\ Blocked = FALSE
        BY <1>4, <3>3, <4>1 DEF Blocked
      <4>3. Held' = Held
        <5> HIDE DEF y, retained
        <5>1. \A i \in Ids : Open(entries'[i]) <=> Open(entries[i])
          BY <1>1, <2>1, <2>2 DEF TypeOK
        <5> QED
          BY <5>1 DEF Held, Open
      <4> QED
        BY <1>2, <1>3, <4>2, <4>3 DEF Quiet
    <3> QED
      BY <3>2, <3>3
  <2> QED
    BY <2>3, <2>4
<1> QED
  BY <1>5, <1>6, <1>7 DEF Construct

LEMMA CloseStep ==
  ASSUME FInv, NEW o \in Ops, NEW k \in {"close", "shutdown"}, Close(o, k)
  PROVE  Quiet \/ Exclusive!Fence
<1>1. IInv /\ TypeOK
  BY DEF FInv, PInv, IInv
<1>2. current' = current /\ changes' = changes /\ Working' = Working
  BY DEF Close, Working
<1>3. CASE entries' = entries
  BY <1>2, <1>3 DEF Quiet, Held, Blocked
<1>4. CASE entries' # entries
  <2> DEFINE x == entries[current]
             y == [x EXCEPT !.blocked = TRUE, !.closing = o]
  <2>1. current # 0 /\ current \in Ids /\ x \in Entry
    BY <1>1, <1>4, RegistryAssumption DEF Close, TypeOK, Ids
  <2>2. entries' = [entries EXCEPT ![current] = y]
    <3>1. \/ entries' = [entries EXCEPT ![current] = x]
          \/ entries' = [entries EXCEPT ![current] = y]
      BY <1>4 DEF Close, Removes
    <3> QED
      BY <1>1, <1>4, <2>1, <3>1 DEF TypeOK
  <2>3. y.blocked = TRUE /\ (Open(y) <=> Open(x))
    BY <2>1 DEF Entry, Open
  <2> HIDE DEF y
  <2> QED
    BY <1>1, <1>2, <2>1, <2>2, <2>3, FenceView DEF Exclusive!Fence
<1> QED
  BY <1>3, <1>4

LEMMA DeleteStep ==
  ASSUME FInv, NEW o \in Ops, Delete(o)
  PROVE  Quiet \/ Exclusive!Fence
<1>1. IInv /\ TypeOK
  BY DEF FInv, PInv, IInv
<1> DEFINE f == Found
           w == FoundEntry(ColdEntry)
           x == [w EXCEPT !.removals = Append(@, o)]
           y == [x EXCEPT !.blocked = TRUE, !.closing = o]
<1>2. changes' = changes /\ Working' = Working /\ Makes /\ Removes(o, "delete", f, x)
  BY DEF Delete, Working
<1>3. f \in Ids /\ current' = f
  BY <1>1, <1>2, FoundInIds
<1>4. w \in Entry /\ (current # 0 => w = entries[f] /\ current = f)
  BY <1>1, <1>3, FreshTyped DEF FoundEntry, Found, TypeOK
<1>5. x.blocked = w.blocked /\ x.closing = w.closing /\ x.resource = w.resource
  BY <1>4 DEF Entry
<1>6. y.blocked = TRUE /\ y.resource = w.resource
  BY <1>4 DEF Entry
<1>7. Open(w) <=> Open(entries[f])
  BY <1>1, <1>2, FoundSame
<1>8. CASE x.closing # None
  <2>1. current # 0
    BY <1>5, <1>8 DEF FoundEntry, ColdEntry
  <2>2. entries' = [entries EXCEPT ![f] = x]
    BY <1>2, <1>8 DEF Removes
  <2>3. current' = current /\ x.blocked = entries[f].blocked /\ (Open(x) <=> Open(entries[f]))
    BY <1>3, <1>4, <1>5, <2>1 DEF Open
  <2> HIDE DEF f, w, x, y
  <2> QED
    BY <1>1, <1>2, <1>3, <2>2, <2>3, EditView DEF Quiet
<1>9. CASE x.closing = None
  <2>1. entries' = [entries EXCEPT ![f] = y]
    BY <1>2, <1>9 DEF Removes
  <2>2. Open(y) <=> Open(entries[f])
    BY <1>6, <1>7 DEF Open
  <2> HIDE DEF f, w, x, y
  <2> QED
    BY <1>1, <1>2, <1>3, <1>6, <2>1, <2>2, FenceView DEF Exclusive!Fence
<1> QED
  BY <1>8, <1>9

LEMMA ReplaceStep ==
  ASSUME FInv, NEW o \in Ops, Replace(o)
  PROVE  Exclusive!Fence
<1>1. IInv /\ TypeOK
  BY DEF FInv, PInv, IInv
<1> DEFINE f == Found
           x == FoundEntry(ColdEntry)
           closes == x.resource # "none"
           y == [x EXCEPT !.blocked = TRUE, !.resource = IF closes THEN "closing" ELSE @]
<1>2. changes' = changes /\ Working' = Working /\ Makes /\ entries' = [entries EXCEPT ![f] = y]
  BY DEF Replace, Working
<1>3. f \in Ids /\ current' = f
  BY <1>1, <1>2, FoundInIds
<1>4. x \in Entry /\ (current # 0 => x = entries[f] /\ current = f)
  BY <1>1, <1>3, FreshTyped DEF FoundEntry, Found, TypeOK
<1>5. y.blocked = TRUE /\ y.resource = IF closes THEN "closing" ELSE x.resource
  BY <1>4 DEF Entry
<1>6. closes => x.resource = "open"
  <2> SUFFICES ASSUME closes PROVE x.resource = "open"
    OBVIOUS
  <2>1. current # 0
    BY DEF FoundEntry, ColdEntry
  <2>2. ~x.blocked /\ x.resource \in {"open", "closing", "closed"}
    BY <1>4, <2>1 DEF Replace, Idle, Entry
  <2>3. x.resource \in {"closing", "closed"} => x.blocked
    BY <1>1, <1>3, <1>4, <2>1 DEF IInv, Sound, EntrySound
  <2> QED
    BY <2>2, <2>3
<1>7. Open(x) <=> Open(entries[f])
  BY <1>1, <1>2, FoundSame
<1>8. Open(y) <=> Open(entries[f])
  BY <1>5, <1>6, <1>7 DEF Open
<1> HIDE DEF f, x, y, closes
<1> QED
  BY <1>1, <1>2, <1>3, <1>5, <1>8, FenceView DEF Exclusive!Fence

\* Steps of a removal before its last, and failures.
LEMMA AdvanceStep ==
  ASSUME FInv, NEW o \in Ops, op[o].pc \in Removal,
         \/ RemovalOpened(o) \/ StopSucceeds(o) \/ RemovalDrained(o) \/ RemovalClosed(o)
         \/ CallbackBegins(o) \/ RemovalFails(o)
  PROVE  Quiet
<1>1. IInv /\ TypeOK
  BY DEF FInv, PInv, IInv
<1>2. current' = current /\ changes' = changes /\ Working' = Working
  BY DEF RemovalOpened, StopSucceeds, RemovalDrained, RemovalClosed, CallbackBegins,
         RemovalFails, Working
<1> DEFINE f == op[o].entry
           x == entries[f]
<1>3. f \in Ids
  BY <1>1, RemovalOwns
<1>4. x \in Entry
  BY <1>1, <1>3 DEF TypeOK
<1>5. ASSUME NEW y, entries' = [entries EXCEPT ![f] = y],
             y.blocked = x.blocked, Open(y) <=> Open(x)
      PROVE  Quiet
  BY <1>1, <1>2, <1>3, <1>5, EditView DEF Quiet
<1>6. CASE RemovalClosed(o)
  BY <1>2, <1>6 DEF RemovalClosed, Quiet, Held, Blocked
<1>7. CASE RemovalOpened(o)
  <2> DEFINE y == [x EXCEPT !.undrained = x.users # 0]
  <2>1. entries' = [entries EXCEPT ![f] = y]
    BY <1>7 DEF RemovalOpened
  <2>2. y.blocked = x.blocked /\ (Open(y) <=> Open(x))
    BY <1>4 DEF Entry, Open
  <2> HIDE DEF y
  <2> QED
    BY <1>5, <2>1, <2>2
<1>8. CASE StopSucceeds(o)
  <2> DEFINE y == [x EXCEPT !.stopped = TRUE]
  <2>1. entries' = [entries EXCEPT ![f] = y]
    BY <1>8 DEF StopSucceeds
  <2>2. y.blocked = x.blocked /\ (Open(y) <=> Open(x))
    BY <1>4 DEF Entry, Open
  <2> HIDE DEF y
  <2> QED
    BY <1>5, <2>1, <2>2
<1>9. CASE RemovalDrained(o)
  <2> DEFINE y == Disposing(f)
  <2>1. entries' = [entries EXCEPT ![f] = y]
    BY <1>9 DEF RemovalDrained
  <2>2. op[o].pc = "draining" => x.resource # "none"
    BY <1>1 DEF IInv, Sound, OpSound
  <2>3. y.blocked = x.blocked /\ y.resource = IF x.resource = "closed" THEN "closed" ELSE "closing"
    BY <1>4 DEF Entry, Disposing
  <2>4. Open(y) <=> Open(x)
    BY <1>4, <1>9, <2>2, <2>3 DEF RemovalDrained, Entry, Open
  <2> HIDE DEF y
  <2> QED
    BY <1>5, <2>1, <2>3, <2>4
<1>10. CASE CallbackBegins(o)
  <2> DEFINE y == [x EXCEPT !.removals = Tail(@)]
  <2>1. entries' = [entries EXCEPT ![f] = y]
    BY <1>10 DEF CallbackBegins
  <2>2. y.blocked = x.blocked /\ (Open(y) <=> Open(x))
    BY <1>4 DEF Entry, Open
  <2> HIDE DEF y
  <2> QED
    BY <1>5, <2>1, <2>2
<1>11. CASE RemovalFails(o)
  <2> DEFINE y == Unremoved(f)
  <2>1. entries' = [entries EXCEPT ![f] = y]
    BY <1>11 DEF RemovalFails
  <2>2. y.blocked = x.blocked /\ (Open(y) <=> Open(x))
    BY <1>4 DEF Entry, Open, Unremoved
  <2> HIDE DEF y
  <2> QED
    BY <1>5, <2>1, <2>2
<1> QED
  BY <1>6, <1>7, <1>8, <1>9, <1>10, <1>11

LEMMA FailureStep ==
  ASSUME FInv, NEW o \in Ops, StopFails(o) \/ RemovalRefused(o) \/ CallbackFails(o)
  PROVE  Quiet
<1>1. RemovalFails(o) /\ op[o].pc \in Removal
  BY DEF StopFails, RemovalRefused, CallbackFails, Removal
<1> QED
  BY <1>1, AdvanceStep

\* Nothing is open at an entry whose files change, and nothing elsewhere.
LEMMA NothingHeld ==
  ASSUME FInv, NEW e \in Ids, current = e, entries[e].resource \in {"none", "closed"}
  PROVE  Held = {}
BY HeldOfMap DEF FInv, PInv

LEMMA CallbackStep ==
  ASSUME FInv, NEW o \in Ops, CallbackSucceeds(o)
  PROVE  Exclusive!Change
<1>1. IInv /\ TypeOK
  BY DEF FInv, PInv, IInv
<1>2. /\ op[o].pc = "callback" /\ changes' = changes + 1
      /\ UNCHANGED <<entries, current, use>>
  BY DEF CallbackSucceeds
<1>3. PICK j \in Ops : j = op[o].job /\ Awaits(j, op[o].entry)
  BY <1>2 DEF FInv, PInv, Promises, OpKeeps
<1>4. Bound(op[j]) /\ op[j].entry = op[o].entry
  BY <1>3 DEF Awaits, Bound
<1>5. op[o].entry \in Ids /\ current = op[o].entry /\ Blocked
  BY <1>4, BoundBlocked DEF Blocked
<1>6. entries[op[o].entry].resource \in {"none", "closed"}
  BY <1>1, <1>2 DEF IInv, Sound, OpSound
<1>7. Held = {}
  BY <1>5, <1>6, NothingHeld
<1>8. UNCHANGED <<Held, Working, Blocked>>
  BY <1>2 DEF Held, Working, Blocked
<1> QED
  BY <1>2, <1>5, <1>7, <1>8 DEF Exclusive!Change

LEMMA EndStep ==
  ASSUME FInv, NEW o \in Ops, RemovalEnds(o)
  PROVE  Quiet \/ Exclusive!Unfence
<1>1. IInv /\ TypeOK
  BY DEF FInv, PInv, IInv
<1> DEFINE f == op[o].entry
           y == [entries[f] EXCEPT !.closing = None]
<1>2. /\ op[o].pc = "removing" /\ changes' = changes /\ use' = use
      /\ entries' = [entries EXCEPT ![f] = y]
      /\ current' = IF current = f THEN 0 ELSE current
  BY DEF RemovalEnds, Owned
<1>3. f \in Ids
  BY <1>1, <1>2, RemovalOwns DEF Removal
<1>4. y.blocked = entries[f].blocked /\ (Open(y) <=> Open(entries[f]))
  BY <1>1, <1>3 DEF TypeOK, Entry, Open
<1>5. entries[f].resource \in {"none", "closed"}
  BY <1>1, <1>2 DEF IInv, Sound, OpSound
<1>6. Working' = Working
  BY <1>2 DEF Working
<1> HIDE DEF f, y
<1>7. CASE current = f
  <2>1. Held = {}
    BY <1>3, <1>5, <1>7, NothingHeld
  <2>2. Held' = Held
    <3>1. \A i \in Ids : Open(entries'[i]) <=> Open(entries[i])
      BY <1>1, <1>2, <1>4 DEF TypeOK
    <3> QED
      BY <3>1 DEF Held, Open
  <2>3. Blocked' = FALSE
    BY <1>2, <1>7 DEF Blocked
  <2> QED
    BY <1>2, <1>6, <2>1, <2>2, <2>3 DEF Exclusive!Unfence
<1>8. CASE current # f
  BY <1>1, <1>2, <1>3, <1>4, <1>6, <1>8, EditView DEF Quiet
<1> QED
  BY <1>7, <1>8

LEMMA ApplyStep ==
  ASSUME FInv, NEW o \in Ops, ApplySucceeds(o) \/ ApplyFails(o)
  PROVE  Exclusive!Change \/ Exclusive!Unfence
<1>1. IInv /\ TypeOK
  BY DEF FInv, PInv, IInv
<1>2. /\ op[o].pc = "applying" /\ UNCHANGED <<entries, use>>
      /\ current' = IF Owned(op[o].entry) THEN 0 ELSE current
  BY DEF ApplySucceeds, ApplyFails, Applies
<1>3. op[o].entry \in Ids /\ current = op[o].entry /\ Blocked
  <2>1. Bound(op[o])
    BY <1>2 DEF Bound, Replacement
  <2> QED
    BY <2>1, BoundBlocked DEF Blocked
<1>4. entries[op[o].entry].resource \in {"none", "closed"}
  BY <1>1, <1>2 DEF IInv, Sound, OpSound
<1>5. Held = {}
  BY <1>3, <1>4, NothingHeld
<1>6. UNCHANGED <<Held, Working>> /\ Blocked' = FALSE
  BY <1>2, <1>3 DEF Held, Working, Blocked, Owned
<1>7. changes' = changes + 1 \/ changes' = changes
  BY DEF ApplySucceeds, ApplyFails
<1> QED
  BY <1>3, <1>5, <1>6, <1>7 DEF Exclusive!Change, Exclusive!Unfence

LEMMA DisposeStep ==
  ASSUME FInv, NEW e \in Ids, Dispose(e)
  PROVE  Quiet \/ Exclusive!Close
<1>1. IInv /\ TypeOK
  BY DEF FInv, PInv, IInv
<1>2. /\ entries[e].resource = "closing" /\ entries[e] \in Entry
      /\ UNCHANGED <<current, changes, use>>
  BY <1>1 DEF Dispose, DisposalEnds, DisposalFails, TypeOK
<1>3. current = e /\ e # 0 /\ entries[e].blocked
  BY <1>1, <1>2 DEF IInv, Sound, EntrySound, Ids
<1>4. Working' = Working
  BY <1>2 DEF Working
<1>5. CASE DisposalEnds(e)
  <2>1. /\ \A i \in Ids : i # e => entries'[i] = entries[i]
        /\ entries'[e].resource = "closed" /\ entries'[e].blocked = entries[e].blocked
    BY <1>1, <1>2, <1>5 DEF DisposalEnds, TypeOK, Entry
  <2>2. Held' = {}
    <3>1. \A i \in Held' : i \in Held /\ i # e
      BY <2>1 DEF Held
    <3> QED
      BY <1>1, <1>3, <3>1, HeldOfMap
  <2>3. Working = {}
    <3> SUFFICES ASSUME NEW u \in Uses, use[u].pc = "running" PROVE FALSE
      BY DEF Working
    <3>1. use[u].entry # 0 /\ use[u].entry \in 0 .. MaxEntries
          /\ entries[use[u].entry].resource = "open"
      BY <1>1 DEF IInv, Sound, UseSound, TypeOK, UseStates
    <3>2. use[u].entry \in Ids
      BY <3>1, RegistryAssumption DEF Ids
    <3>3. use[u].entry = e
      BY <1>1, <1>3, <3>1, <3>2 DEF IInv, Sound, EntrySound
    <3> QED
      BY <1>2, <3>1, <3>3
  <2>4. Blocked /\ Blocked' = Blocked
    BY <1>2, <1>3, <2>1 DEF Blocked
  <2> QED
    BY <1>2, <1>4, <2>2, <2>3, <2>4 DEF Exclusive!Close
<1>6. CASE DisposalFails(e)
  <2> DEFINE w == IF \E o \in Ops : op[o].pc = "closing" /\ op[o].entry = e
                  THEN Unremoved(e) ELSE entries[e]
             y == [w EXCEPT !.resource = "open"]
  <2>1. entries' = [entries EXCEPT ![e] = y]
    BY <1>6 DEF DisposalFails
  <2>2. w \in Entry /\ w.blocked = entries[e].blocked
    <3>1. <<>> \in Seq(Ops)
      OBVIOUS
    <3>2. Unremoved(e) \in Entry
      BY <1>2, <3>1 DEF Unremoved, Entry
    <3>3. Unremoved(e).blocked = entries[e].blocked
      BY <1>2 DEF Unremoved, Entry
    <3> QED
      BY <1>2, <3>2, <3>3
  <2>3. y.blocked = entries[e].blocked /\ (Open(y) <=> Open(entries[e]))
    <3> HIDE DEF w
    <3> QED
      BY <1>2, <2>2 DEF Entry, Open
  <2> HIDE DEF w, y
  <2> QED
    BY <1>1, <1>2, <1>4, <2>1, <2>3, EditView DEF Quiet
<1> QED
  BY <1>5, <1>6 DEF Dispose

LEMMA StepImplements == FInv /\ [Next]_vars => [Exclusive!Next]_(Exclusive!vars)
<1> SUFFICES ASSUME FInv, [Next]_vars PROVE [Exclusive!Next]_(Exclusive!vars)
  OBVIOUS
<1>1. Quiet => [Exclusive!Next]_(Exclusive!vars)
  BY DEF Quiet, Exclusive!vars
<1>2. Exclusive!Fence \/ Exclusive!Close \/ Exclusive!Change \/ Exclusive!Unfence
      => Exclusive!Next
  BY DEF Exclusive!Next
<1>3. \A u \in Uses : Exclusive!Enter(u) \/ Exclusive!Leave(u) => Exclusive!Next
  BY DEF Exclusive!Next
<1>4. \A e \in Ids : Exclusive!Open(e) => Exclusive!Next
  BY DEF Exclusive!Next
<1>5. CASE UNCHANGED vars
  BY <1>1, <1>5 DEF vars, Quiet, Held, Working, Blocked
<1>6. ASSUME NEW u \in Uses, Use(u) \/ UseProceeds(u) \/ UseFails(u) \/ UseEnds(u)
      PROVE  [Exclusive!Next]_(Exclusive!vars)
  <2>1. UseFails(u) \/ UseEnds(u) => use[u].pc # "idle" /\ Leave(u)
    BY DEF UseFails, UseEnds
  <2> QED
    BY <1>1, <1>3, <1>6, <2>1, UseStep, ProceedStep, LeaveStep
<1>7. ASSUME NEW e \in Ids, Construct(e) \/ Dispose(e)
      PROVE  [Exclusive!Next]_(Exclusive!vars)
  BY <1>1, <1>2, <1>4, <1>7, ConstructStep, DisposeStep
<1>8. ASSUME NEW o \in Ops, Invoke(o)
      PROVE  [Exclusive!Next]_(Exclusive!vars)
  <2>1. ReplaceRefused(o) => Quiet
    BY DEF ReplaceRefused, Quiet, Held, Working, Blocked
  <2> QED
    BY <1>1, <1>2, <1>8, <2>1, CloseStep, DeleteStep, ReplaceStep DEF Invoke
<1>9. ASSUME NEW o \in Ops, Continue(o)
      PROVE  [Exclusive!Next]_(Exclusive!vars)
  <2>1. \/ RemovalOpened(o) \/ StopSucceeds(o) \/ RemovalDrained(o) \/ RemovalClosed(o)
        \/ CallbackBegins(o)
        => op[o].pc \in Removal
    BY DEF RemovalOpened, StopSucceeds, RemovalDrained, RemovalClosed, CallbackBegins, Removal
  <2> QED
    BY <1>1, <1>2, <1>9, <2>1, AdvanceStep, FailureStep, CallbackStep, EndStep, ApplyStep
       DEF Continue
<1> QED
  BY <1>5, <1>6, <1>7, <1>8, <1>9 DEF Next

\* The registry is an exclusive resource with a fence, for any number of users,
\* operations, entries and failures, as long as its callers keep deletions and package
\* edits of a character apart: one runtime at a time, work admitted only while no
\* fence is up, and files changed only behind it while nothing is open.
THEOREM RegistryImplements == ApartSpec => ImplementsExclusiveResource
<1>1. Init => Exclusive!Init
  <2> SUFFICES ASSUME Init PROVE Exclusive!Init
    OBVIOUS
  <2>1. Held = {}
    BY DEF Init, Held, ColdEntry
  <2>2. Working = {}
    BY DEF Init, Working, IdleUse
  <2>3. Blocked = FALSE /\ changes = 0
    BY DEF Init, Blocked
  <2> QED
    BY <2>1, <2>2, <2>3 DEF Exclusive!Init
<1>2. Init => FInv
  <2>1. Init => Apart
    BY DEF Init, IdleOp, Apart, InFlight
  <2> QED
    BY <2>1, InitFence
<1>3. FInv /\ [Next /\ Apart']_vars => FInv'
  BY FenceKept
<1>4. FInv /\ [Next /\ Apart']_vars => [Exclusive!Next]_(Exclusive!vars)
  BY StepImplements
<1> QED
  BY <1>1, <1>2, <1>3, <1>4, PTL DEF ApartSpec, ImplementsExclusiveResource, Exclusive!Spec
=============================================================================
