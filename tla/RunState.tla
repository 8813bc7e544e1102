------------------------------ MODULE RunState ------------------------------
(***************************************************************************)
(* The state shared by the external-agent Run service                      *)
(* (external-agents/run-service.ts) and the ACP executor it drives         *)
(* (executors/acp-executor.ts), and the helpers both modules use.          *)
(*                                                                         *)
(* One Host process runs both on a single JavaScript thread.  What one     *)
(* action does is what the code does between two awaits on something       *)
(* outside the process (a worker, the file system, a model lookup).        *)
(* Closures that the code adds to the service's serial PQueue are entries  *)
(* of the sequence "events" when their order matters; each of them is      *)
(* synchronous and therefore one step.                                     *)
(***************************************************************************)
EXTENDS Integers, Sequences, FiniteSets

CONSTANTS
    Conversations,       \* Pi sessions a Run can belong to
    Calls,               \* native tool calls (toolCallId) of the model
    ConvOf,              \* ConvOf[q]: the conversation of tool call q
    Delegations,         \* concurrent invocations of delegate()
    Controls,            \* concurrent invocations of a Run control
    MaxRuns,             \* bound: Run identities ever issued
    MaxConcurrentRuns,   \* MAX_CONCURRENT_RUNS
    MaxPermissions,      \* bound: permission requests of one worker
    MaxRestarts,         \* bound: crashes and restarts of the Host
    MaxReleaseFailures,  \* bound: releases of a worker that fail
    Deletable,           \* the conversations the user may delete
    MayClose,            \* whether the Host may be closed
    None

ASSUME RunStateAssumption ==
    /\ MaxRuns \in Nat /\ MaxConcurrentRuns \in Nat /\ MaxPermissions \in Nat
    /\ MaxRestarts \in Nat /\ MaxReleaseFailures \in Nat
    /\ ConvOf \in [Calls -> Conversations]
    /\ Deletable \subseteq Conversations /\ MayClose \in BOOLEAN
    /\ None \notin Calls \cup Conversations \cup Controls \cup Int

\* Run identities in order of insertion, which is the rowid order of the table.
Runs == 1..MaxRuns
Permissions == 1..MaxPermissions

VARIABLES
    \* durable: the character's database and files
    row,        \* the runs table
    convs,      \* the conversations table
    dirs,       \* Runs whose directory exists under runRoot
    record,     \* acp-connection.json of each Run
    \* the world outside the Host
    native,     \* the worker process of a Run and the tools it started
    \* in the memory of the Host
    exec,       \* activeRuns of the executor
    launch,     \* launches of the Run service
    capture,    \* captures
    recon,      \* reconciliationTasks
    events,     \* executor and control closures in the serial queue
    admission,  \* admissions: the tool call each delegate() is resolving
    ctl,        \* controls
    closed,     \* the closed flag
    deleting,   \* deletingConversations
    closing,    \* progress of close()
    deletion,   \* progress of prepareConversationDeletion(), per conversation
    recovering, \* progress of recoverUnfinishedRuns()
    \* bounds
    restarts, releaseFailures

tables == <<row, convs>>
files == <<dirs, record>>
executor == <<exec, native>>
tasks == <<launch, capture, recon>>
invocations == <<admission, ctl>>
lifecycle == <<closed, deleting, closing, deletion, recovering>>
bounds == <<restarts, releaseFailures>>
vars == <<row, convs, dirs, record, native, exec, launch, capture, recon, events,
          admission, ctl, closed, deleting, closing, deletion, recovering,
          restarts, releaseFailures>>

---------------------------------------------------------------------------
(* Rows of the runs table *)

ResourceStatuses == {"enqueued", "running", "needs_user", "interrupted"}
TerminalStatuses == {"completed", "failed", "cancelled", "forced_termination"}
Statuses == ResourceStatuses \cup TerminalStatuses \cup {"absent", "deleted"}

AbsentRow == [status |-> "absent", call |-> None, permission |-> None,
              completed |-> FALSE, reported |-> FALSE]

Exists(r) == row[r].status \notin {"absent", "deleted"}
Conv(r) == ConvOf[row[r].call]
RunsOf(c) == {r \in Runs : Exists(r) /\ Conv(r) = c}

\* A row that still occupies executor resources: completedAt is null.
Unfinished(r) == row[r].status \in ResourceStatuses /\ ~row[r].completed
UnfinishedRuns == {r \in Runs : Unfinished(r)}

\* The earliest of a set of Runs, for the loops that follow the row order.
First(S) == CHOOSE r \in S : \A s \in S : r <= s

Settled(r, status) ==
    [row EXCEPT ![r].status = status, ![r].permission = None, ![r].completed = TRUE]

---------------------------------------------------------------------------
(* The executor's entry for a Run.  "absent" and "preparing" Runs are not  *)
(* in activeRuns; the phase "releasing" is a pending release promise and   *)
(* "why" the continuation that awaits it.                                  *)

Outcomes == {"completed", "failed", "cancelled"}
Phases == {"absent", "preparing", "opening", "loading", "turn", "interrupting", "paused",
           "releasing", "unreleased"}

AbsentExec == [phase |-> "absent", why |-> None, settled |-> FALSE, saved |-> FALSE,
               turn |-> FALSE, restoring |-> FALSE, start |-> "none", pending |-> {}, asked |-> 0]

Active(r) == exec[r].phase \notin {"absent", "preparing"}

IdleLaunch == [step |-> "none", held |-> FALSE, cancelled |-> FALSE]

---------------------------------------------------------------------------
(* The serial queue *)

ExecutorEvents == {"started", "restored", "needs_user"} \cup Outcomes
ControlEvents == {"interrupt", "resume", "respond", "cancel"}

Event(kind, r, request, by) == [kind |-> kind, run |-> r, request |-> request, by |-> by]

\* Seeded fault: the closure forgets a Run whose launch has left the map.
EmitsWhileHeld(r) == ~closed /\ Conv(r) \notin deleting /\ launch[r].held
\* The emit closure of a launch or a restore drops what arrives too late.
Emits(r) == ~closed /\ Conv(r) \notin deleting /\ ~launch[r].cancelled

Emitted(kind, r, request) ==
    IF Emits(r) THEN Append(events, Event(kind, r, request, None)) ELSE events
=============================================================================
