-------------------------- MODULE CharacterRegistry --------------------------
(***************************************************************************)
(* The lifetime owner of a character's runtime, CharacterRuntimeRegistry   *)
(* in character-runtime-registry.ts, as HostRuntime uses it (runtime.ts).  *)
(* Entries of different characters share nothing but shuttingDown, so one  *)
(* character is modelled.                                                  *)
(*                                                                         *)
(* A step is what the code does between two awaits; promises that settle   *)
(* wake those who await them in the order in which they began to wait.     *)
(***************************************************************************)
EXTENDS Naturals, Sequences, FiniteSets

CONSTANTS
  Uses,         \* invocations of use(); visitOpen() is use() of an open entry
  Ops,          \* invocations of close, deleteRuntime, replaceIdle, shutdown
  Kinds,        \* the kinds of operation that are invoked
  None,
  MaxEntries,   \* bound: entries ever made
  MaxFailures   \* bound: failures of create, stop, close, apply or removal

AllKinds == {"close", "delete", "replace", "shutdown"}

ASSUME RegistryAssumption ==
  /\ Kinds \subseteq AllKinds
  /\ IsFiniteSet(Uses)
  /\ None \notin Ops
  /\ None \notin AllKinds
  /\ MaxEntries \in Nat
  /\ MaxFailures \in Nat

VARIABLES
  entries,       \* Entry objects in the order they were made
  made,          \* how many there are
  current,       \* the one in the map, 0 if there is none
  use,           \* invocations of use()
  op,            \* invocations of the other operations
  shuttingDown,
  unfinished,    \* the character's database has a Run that holds resources
  changes,       \* removals of its directory and replacements of its package
  failures

vars == <<entries, made, current, use, op, shuttingDown, unfinished, changes, failures>>
-----------------------------------------------------------------------------
(* Entries. *)

Ids == 1 .. MaxEntries

Entry ==
  [opening   : {"cold", "pending", "opened", "failed"},
   resource  : {"none", "open", "closing", "closed"},
   stopped   : BOOLEAN,        \* stop() has succeeded
   users     : Nat,
   blocked   : BOOLEAN,
   undrained : BOOLEAN,        \* a removal waits for drained()
   closing   : Ops \cup {None},  \* whose removal the closing promise is
   removals  : Seq(Ops)]

ColdEntry ==
  [opening |-> "cold", resource |-> "none", stopped |-> FALSE, users |-> 0,
   blocked |-> FALSE, undrained |-> FALSE, closing |-> None, removals |-> <<>>]

OpeningEntry == [ColdEntry EXCEPT !.opening = "pending"]

Owned(e) == current = e

\* The map's entry refuses admission.
Blocked == current # 0 /\ entries[current].blocked

\* The entry an operation finds, or the one it makes: its name and contents.
Found == IF current # 0 THEN current ELSE made + 1
FoundEntry(fresh) == IF current # 0 THEN entries[current] ELSE fresh

Makes ==
  /\ current = 0 => made < MaxEntries
  /\ made' = IF current # 0 THEN made ELSE made + 1
  /\ current' = Found

Fails ==
  /\ failures < MaxFailures
  /\ failures' = failures + 1

-----------------------------------------------------------------------------
(* Invocations. *)

UseStates == [pc : {"idle", "opening", "running"}, entry : 0 .. MaxEntries]
IdleUse == [pc |-> "idle", entry |-> 0]

Steps ==
  {"idle", "opening", "stopping", "draining", "closing", "removing", "callback",
   "joined", "disposing", "applying", "over"}

OpStates ==
  [kind    : AllKinds \cup {None},
   pc      : Steps,
   entry   : 0 .. MaxEntries,
   job     : Ops \cup {None},    \* whose removeFiles() a removal awaits
   result  : {"none", "done", "failed"},
   removed : Nat]                \* how often its removeFiles() has succeeded

IdleOp ==
  [kind |-> None, pc |-> "idle", entry |-> 0, job |-> None, result |-> "none", removed |-> 0]

Started(k, pc, e) == [IdleOp EXCEPT !.kind = k, !.pc = pc, !.entry = e]
Over(k, result) == [IdleOp EXCEPT !.kind = k, !.pc = "over", !.result = result]

Init ==
  /\ entries = [e \in Ids |-> ColdEntry]
  /\ made = 0
  /\ current = 0
  /\ use = [u \in Uses |-> IdleUse]
  /\ op = [o \in Ops |-> IdleOp]
  /\ shuttingDown = FALSE
  /\ unfinished \in BOOLEAN
  /\ changes = 0
  /\ failures = 0

-----------------------------------------------------------------------------
(* use() and the construction of a resource. *)

\* Admission: the entry is made, or found unblocked.
Use(u) ==
  /\ use[u].pc = "idle"
  /\ ~shuttingDown
  /\ ~Blocked
  /\ Makes
  /\ entries' = [entries EXCEPT ![Found] =
       LET x == FoundEntry(OpeningEntry) IN [x EXCEPT !.users = @ + 1]]
  /\ use' = [use EXCEPT ![u] = [pc |-> "opening", entry |-> Found]]
  /\ UNCHANGED <<op, shuttingDown, unfinished, changes, failures>>

\* create() hands over the resource before it has finished initialising it.
Retain(e) ==
  /\ entries[e].opening = "pending"
  /\ entries[e].resource = "none"
  /\ entries' = [entries EXCEPT ![e].resource = "open"]
  /\ UNCHANGED <<made, current, use, op, shuttingDown, unfinished, changes, failures>>

OpenSucceeds(e) ==
  /\ entries[e].opening = "pending"
  /\ entries[e].resource = "open"
  /\ entries' = [entries EXCEPT ![e].opening = "opened"]
  /\ UNCHANGED <<made, current, use, op, shuttingDown, unfinished, changes, failures>>

\* Seeded fault: a failed construction is forgotten with the resource it retained.
OpeningForgotten(e) ==
  /\ entries[e].opening = "pending"
  /\ Fails
  /\ entries' = [entries EXCEPT ![e].opening = "failed"]
  /\ current' = IF ~entries[e].blocked /\ Owned(e) THEN 0 ELSE current
  /\ UNCHANGED <<made, use, op, shuttingDown, unfinished, changes>>

\* A retained resource keeps its entry, blocked, until it is disposed of.
OpenFails(e) ==
  /\ entries[e].opening = "pending"
  /\ Fails
  /\ LET retained == entries[e].resource # "none" IN
     /\ entries' = [entries EXCEPT ![e].opening = "failed",
                                   ![e].blocked = @ \/ retained]
     /\ current' = IF ~retained /\ ~entries[e].blocked /\ Owned(e) THEN 0 ELSE current
  /\ UNCHANGED <<made, use, op, shuttingDown, unfinished, changes>>

\* Seeded fault: the last user wakes nobody.
LeaveSilently(u) ==
  /\ entries' = [entries EXCEPT ![use[u].entry].users = @ - 1]
  /\ use' = [use EXCEPT ![u] = IdleUse]
  /\ UNCHANGED <<made, current, op, shuttingDown, changes, failures>>

\* The finally block of use(): the last user wakes the removal that waits for it.
Leave(u) ==
  /\ LET f == use[u].entry IN
     entries' = [entries EXCEPT ![f].users = @ - 1,
                                ![f].undrained = @ /\ entries[f].users # 1]
  /\ use' = [use EXCEPT ![u] = IdleUse]
  /\ UNCHANGED <<made, current, op, shuttingDown, changes, failures>>

\* Seeded fault: the block is not looked at again after the opening.
UseUnchecked(u) ==
  /\ use[u].pc = "opening"
  /\ entries[use[u].entry].opening = "opened"
  /\ use' = [use EXCEPT ![u].pc = "running"]
  /\ UNCHANGED <<entries, made, current, op, shuttingDown, unfinished, changes, failures>>

UseProceeds(u) ==
  /\ use[u].pc = "opening"
  /\ entries[use[u].entry].opening = "opened"
  /\ ~entries[use[u].entry].blocked
  /\ use' = [use EXCEPT ![u].pc = "running"]
  /\ UNCHANGED <<entries, made, current, op, shuttingDown, unfinished, changes, failures>>

UseFails(u) ==
  /\ use[u].pc = "opening"
  /\ LET x == entries[use[u].entry] IN
     \/ x.opening = "failed"
     \/ x.opening = "opened" /\ x.blocked
  /\ Leave(u)
  /\ UNCHANGED unfinished

\* The operation may have admitted a Run, or seen one end.
UseEnds(u) ==
  /\ use[u].pc = "running"
  /\ Leave(u)
  /\ unfinished' \in BOOLEAN

-----------------------------------------------------------------------------
(* remove(): close(), deleteRuntime() and shutdown(). *)

\* Joins the removal that is under way, or becomes it.
Removes(o, k, e, x) ==
  IF x.closing # None
  THEN /\ entries' = [entries EXCEPT ![e] = x]
       /\ op' = [op EXCEPT ![o] = Started(k, "joined", e)]
  ELSE /\ entries' = [entries EXCEPT ![e] = [x EXCEPT !.blocked = TRUE, !.closing = o]]
       /\ op' = [op EXCEPT ![o] = Started(k, "opening", e)]

Close(o, k) ==
  /\ k \in Kinds \cap {"close", "shutdown"}
  /\ op[o].pc = "idle"
  /\ shuttingDown' = (shuttingDown \/ k = "shutdown")
  /\ IF current = 0
     THEN /\ op' = [op EXCEPT ![o] = Over(k, "done")]
          /\ UNCHANGED entries
     ELSE Removes(o, k, current, entries[current])
  /\ UNCHANGED <<made, current, use, unfinished, changes, failures>>

\* Seeded fault: a deletion that joins a removal does not leave its callback there.
DeleteJoins(o) ==
  /\ "delete" \in Kinds
  /\ op[o].pc = "idle"
  /\ ~shuttingDown
  /\ Makes
  /\ LET x == FoundEntry(ColdEntry) IN
     Removes(o, "delete", Found,
             IF x.closing # None THEN x ELSE [x EXCEPT !.removals = Append(@, o)])
  /\ UNCHANGED <<use, shuttingDown, unfinished, changes, failures>>

Delete(o) ==
  /\ "delete" \in Kinds
  /\ op[o].pc = "idle"
  /\ ~shuttingDown
  /\ Makes
  /\ LET x == FoundEntry(ColdEntry) IN
     Removes(o, "delete", Found, [x EXCEPT !.removals = Append(@, o)])
  /\ UNCHANGED <<use, shuttingDown, unfinished, changes, failures>>

\* The closing promise settles: its owner first, then whoever joined it.
Settles(o, result) ==
  op' = [p \in Ops |->
    IF p = o \/ (op[p].pc = "joined" /\ op[p].entry = op[o].entry)
    THEN [op[p] EXCEPT !.pc = "over", !.result = result, !.job = None]
    ELSE op[p]]

\* An entry after a failed removal: blocked, without the removals, to be retried.
Unremoved(e) == [entries[e] EXCEPT !.closing = None, !.removals = <<>>]

RemovalFails(o) ==
  /\ entries' = [entries EXCEPT ![op[o].entry] = Unremoved(op[o].entry)]
  /\ Settles(o, "failed")
  /\ UNCHANGED <<made, current, use, shuttingDown, unfinished, changes>>

\* Seeded fault: the removal does not await the opening.
OpeningSkipped(o) ==
  LET e == op[o].entry IN
  /\ op[o].pc = "opening"
  /\ entries' = [entries EXCEPT ![e].undrained = entries[e].users # 0]
  /\ op' = [op EXCEPT ![o].pc = IF entries[e].resource = "none" THEN "removing" ELSE "stopping"]
  /\ UNCHANGED <<made, current, use, shuttingDown, unfinished, changes, failures>>

\* Everybody who awaited the opening, and a cold replacement, which awaits nothing,
\* began to do so before the removal.
RemovalOpened(o) ==
  LET e == op[o].entry IN
  /\ op[o].pc = "opening"
  /\ entries[e].opening # "pending"
  /\ \A u \in Uses : use[u].pc = "opening" => use[u].entry # e
  /\ \A p \in Ops : op[p].pc = "applying" => op[p].entry # e
  /\ entries' = [entries EXCEPT ![e].undrained = entries[e].users # 0]
  /\ op' = [op EXCEPT ![o].pc = IF entries[e].resource = "none" THEN "removing" ELSE "stopping"]
  /\ UNCHANGED <<made, current, use, shuttingDown, unfinished, changes, failures>>

\* Stopping ends Runs, or preserves them as unfinished.
StopSucceeds(o) ==
  /\ op[o].pc = "stopping"
  /\ entries' = [entries EXCEPT ![op[o].entry].stopped = TRUE]
  /\ op' = [op EXCEPT ![o].pc = "draining"]
  /\ unfinished' \in {FALSE, unfinished}
  /\ UNCHANGED <<made, current, use, shuttingDown, changes, failures>>

StopFails(o) ==
  /\ op[o].pc = "stopping"
  /\ Fails
  /\ RemovalFails(o)

\* verifyDelete() reads the runs table, which throws when the database is closed.
Refuses(e) ==
  /\ entries[e].removals # <<>>
  /\ unfinished \/ entries[e].resource = "closed"

RemovalRefused(o) ==
  /\ op[o].pc = "draining"
  /\ ~entries[op[o].entry].undrained
  /\ Refuses(op[o].entry)
  /\ RemovalFails(o)
  /\ UNCHANGED failures

\* resource.close() joins a disposal under way and returns at once after one.
Disposing(e) == [entries[e] EXCEPT !.resource = IF @ = "closed" THEN @ ELSE "closing"]

RemovalDrained(o) ==
  LET e == op[o].entry IN
  /\ op[o].pc = "draining"
  /\ ~entries[e].undrained
  /\ ~Refuses(e)
  /\ entries' = [entries EXCEPT ![e] = Disposing(e)]
  /\ op' = [op EXCEPT ![o].pc = "closing"]
  /\ UNCHANGED <<made, current, use, shuttingDown, unfinished, changes, failures>>

\* A replacement called close() earlier and goes on first.
RemovalClosed(o) ==
  LET e == op[o].entry IN
  /\ op[o].pc = "closing"
  /\ entries[e].resource = "closed"
  /\ \A p \in Ops : op[p].pc \in {"disposing", "applying"} => op[p].entry # e
  /\ op' = [op EXCEPT ![o].pc = "removing"]
  /\ UNCHANGED <<entries, made, current, use, shuttingDown, unfinished, changes, failures>>

\* removeFiles() is called; it awaits the trials of the character first.
CallbackBegins(o) ==
  LET e == op[o].entry IN
  /\ op[o].pc = "removing"
  /\ entries[e].removals # <<>>
  /\ entries' = [entries EXCEPT ![e].removals = Tail(@)]
  /\ op' = [op EXCEPT ![o].pc = "callback", ![o].job = Head(entries[e].removals)]
  /\ UNCHANGED <<made, current, use, shuttingDown, unfinished, changes, failures>>

CallbackSucceeds(o) ==
  /\ op[o].pc = "callback"
  /\ ~unfinished
  /\ changes' = changes + 1
  /\ op' = [op EXCEPT ![op[o].job].removed = @ + 1, ![o].pc = "removing", ![o].job = None]
  /\ UNCHANGED <<entries, made, current, use, shuttingDown, unfinished, failures>>

\* Runs are unfinished, or the directory cannot be removed.
CallbackFails(o) ==
  /\ op[o].pc = "callback"
  /\ \/ unfinished /\ UNCHANGED failures
     \/ Fails
  /\ RemovalFails(o)

RemovalEnds(o) ==
  LET e == op[o].entry IN
  /\ op[o].pc = "removing"
  /\ entries[e].removals = <<>>
  /\ entries' = [entries EXCEPT ![e].closing = None]
  /\ current' = IF Owned(e) THEN 0 ELSE current
  /\ Settles(o, "done")
  /\ UNCHANGED <<made, use, shuttingDown, unfinished, changes, failures>>

-----------------------------------------------------------------------------
(* replaceIdle() and the disposal of a resource. *)

\* Seeded fault: a package edit does not look at the admitted operations.
IdleOrUsed(x) == ~x.blocked /\ x.resource # "none"

Idle(x) == ~x.blocked /\ x.users = 0 /\ x.resource # "none"

\* Unfinished Runs or a streaming session make verify() throw.
Replace(o) ==
  /\ "replace" \in Kinds
  /\ op[o].pc = "idle"
  /\ ~shuttingDown
  /\ current # 0 => Idle(entries[current]) /\ ~unfinished
  /\ Makes
  /\ LET x == FoundEntry(ColdEntry)
         closes == x.resource # "none" IN
     /\ entries' = [entries EXCEPT ![Found] =
          [x EXCEPT !.blocked = TRUE, !.resource = IF closes THEN "closing" ELSE @]]
     /\ op' = [op EXCEPT ![o] =
          Started("replace", IF closes THEN "disposing" ELSE "applying", Found)]
  /\ UNCHANGED <<use, shuttingDown, unfinished, changes, failures>>

ReplaceRefused(o) ==
  /\ "replace" \in Kinds
  /\ op[o].pc = "idle"
  /\ shuttingDown \/ current # 0
  /\ op' = [op EXCEPT ![o] = Over("replace", "failed")]
  /\ UNCHANGED <<entries, made, current, use, shuttingDown, unfinished, changes, failures>>

\* apply() is synchronous; the entry is forgotten whatever becomes of it.
Applies(o, result) ==
  /\ op[o].pc = "applying"
  /\ op' = [op EXCEPT ![o].pc = "over", ![o].result = result]
  /\ current' = IF Owned(op[o].entry) THEN 0 ELSE current
  /\ UNCHANGED <<entries, made, use, shuttingDown, unfinished>>

ApplySucceeds(o) ==
  /\ Applies(o, "done")
  /\ changes' = changes + 1
  /\ UNCHANGED failures

ApplyFails(o) ==
  /\ Applies(o, "failed")
  /\ Fails
  /\ UNCHANGED changes

DisposalEnds(e) ==
  /\ entries[e].resource = "closing"
  /\ entries' = [entries EXCEPT ![e].resource = "closed"]
  /\ op' = [o \in Ops |->
       IF op[o].pc = "disposing" /\ op[o].entry = e
       THEN [op[o] EXCEPT !.pc = "applying"] ELSE op[o]]
  /\ UNCHANGED <<made, current, use, shuttingDown, unfinished, changes, failures>>

\* Everybody who called close() fails; the entry stays blocked.
DisposalFails(e) ==
  LET removing == \E o \in Ops : op[o].pc = "closing" /\ op[o].entry = e IN
  /\ entries[e].resource = "closing"
  /\ Fails
  /\ entries' = [entries EXCEPT ![e] =
       [(IF removing THEN Unremoved(e) ELSE entries[e]) EXCEPT !.resource = "open"]]
  /\ op' = [o \in Ops |->
       IF /\ op[o].entry = e
          /\ op[o].pc \in (IF removing THEN {"disposing", "closing", "joined"} ELSE {"disposing"})
       THEN [op[o] EXCEPT !.pc = "over", !.result = "failed"] ELSE op[o]]
  /\ UNCHANGED <<made, current, use, shuttingDown, unfinished, changes>>

-----------------------------------------------------------------------------
Construct(e) == Retain(e) \/ OpenSucceeds(e) \/ OpenFails(e)
Dispose(e) == DisposalEnds(e) \/ DisposalFails(e)

Invoke(o) ==
  \/ \E k \in {"close", "shutdown"} : Close(o, k)
  \/ Delete(o)
  \/ Replace(o)
  \/ ReplaceRefused(o)

\* What a removal or a replacement does when its await is over.
Continue(o) ==
  \/ RemovalOpened(o)
  \/ StopSucceeds(o)
  \/ StopFails(o)
  \/ RemovalRefused(o)
  \/ RemovalDrained(o)
  \/ RemovalClosed(o)
  \/ CallbackBegins(o)
  \/ CallbackSucceeds(o)
  \/ CallbackFails(o)
  \/ RemovalEnds(o)
  \/ ApplySucceeds(o)
  \/ ApplyFails(o)

Next ==
  \/ \E u \in Uses : Use(u) \/ UseProceeds(u) \/ UseFails(u) \/ UseEnds(u)
  \/ \E e \in Ids : Construct(e) \/ Dispose(e)
  \/ \E o \in Ops : Invoke(o) \/ Continue(o)

Spec == Init /\ [][Next]_vars

InFlight(o, kind) == op[o].kind = kind /\ op[o].pc # "over"

\* No deletion arrives at an entry that is being replaced.
Apart ==
  \A o, p \in Ops : InFlight(o, "delete") /\ InFlight(p, "replace") => op[o].entry # op[p].entry

\* The registry if its callers keep deletions and package edits apart.
ApartSpec == Init /\ [][Next /\ Apart']_vars

\* An operation ends once stop() has aborted what it waits for.
ReleasedUseEnds(u) ==
  /\ \E e \in Ids : use[u].entry = e /\ entries[e].stopped
  /\ UseEnds(u)

Fairness ==
  /\ \A u \in Uses : WF_vars(UseProceeds(u) \/ UseFails(u)) /\ WF_vars(ReleasedUseEnds(u))
  /\ \A e \in Ids : WF_vars(Construct(e)) /\ WF_vars(Dispose(e))
  /\ \A o \in Ops : WF_vars(Continue(o))

FairApartSpec == ApartSpec /\ Fairness
-----------------------------------------------------------------------------
(* Properties. *)

TypeOK ==
  /\ entries \in [Ids -> Entry]
  /\ made \in 0 .. MaxEntries
  /\ current \in 0 .. MaxEntries
  /\ use \in [Uses -> UseStates]
  /\ op \in [Ops -> OpStates]
  /\ shuttingDown \in BOOLEAN
  /\ unfinished \in BOOLEAN
  /\ changes \in Nat
  /\ failures \in 0 .. MaxFailures

\* The resources that are open, and the operations that run on one.
Held == {e \in Ids : entries[e].resource \in {"open", "closing"}}
Working == {u \in Uses : use[u].pc = "running"}

\* A resource that is not closed is the map's: the registry never loses sight of
\* a runtime, so no second one is opened beside it, whichever of opening, stop,
\* disposal, replacement and removal fails and however they are retried.
OwnerKept == \A e \in Held : Owned(e)

\* An admitted operation keeps its resource: nobody begins to close the resource
\* before the operation has left, neither a removal that drains nor a replacement
\* that found the entry idle.
WorkKeepsResource ==
  \A u \in Working : entries[use[u].entry].resource = "open"

\* deleteRuntime() resolves exactly for those whose own removeFiles() has run, once:
\* also when it joined a close, and when a removal beside it failed.
DeletionHonoured ==
  \A o \in Ops : op[o].kind = "delete" =>
    /\ op[o].removed \in {0, 1}
    /\ op[o].result = "done" => op[o].removed = 1

\* When shutdown() resolves nothing is open and no operation runs, so
\* that HostRuntime.closeResources() may close the shared storage.
ShutdownIsComplete ==
  (\E o \in Ops : op[o].kind = "shutdown" /\ op[o].result = "done") =>
    /\ Held = {}
    /\ Working = {}

\* The registry implements the abstract resource: work is admitted only while the
\* map's entry is not blocked, and files change only behind the block while
\* nothing is open.  It needs the assumption of ApartSpec.
Exclusive == INSTANCE ExclusiveResource
  WITH Resources <- Ids, Workers <- Uses, held <- Held, working <- Working,
       fenced <- Blocked

ImplementsExclusiveResource == Exclusive!Spec

\* close, deleteRuntime, replaceIdle and shutdown return, although a stop or a
\* disposal may fail and operations may wait for the stop, and an admitted use()
\* gets its resource or an error.
OperationsReturn ==
  /\ \A o \in Ops : op[o].pc \notin {"idle", "over"} ~> op[o].pc = "over"
  /\ \A u \in Uses : use[u].pc = "opening" ~> use[u].pc # "opening"

\* "The deletion callback runs while admissions remain blocked, including for a
\* cold runtime" (doc comment of deleteRuntime). The code breaks it: replaceIdle
\* forgets an entry that a deletion has joined meanwhile.
RemovalIsFenced ==
  \A o \in Ops : op[o].pc = "callback" => Blocked \/ shuttingDown
=============================================================================
