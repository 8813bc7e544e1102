------------------------------ MODULE RunService ------------------------------
(***************************************************************************)
(* ExternalAgentRunService (external-agents/run-service.ts): admission,    *)
(* launch, executor events, output capture, settlement, the user's         *)
(* controls, conversation deletion, close and recovery after a restart.    *)
(***************************************************************************)
EXTENDS AcpExecutor

Rows == [status : Statuses, call : Calls \cup {None}, permission : Permissions \cup {None},
         completed : BOOLEAN, reported : BOOLEAN]
Entries == [phase : Phases, why : Outcomes \cup {"stop", "suspend", "startup", None},
            settled : BOOLEAN, saved : BOOLEAN, turn : BOOLEAN, restoring : BOOLEAN,
            start : {"none", "pending", "ok", "failed", "unsupported"},
            pending : SUBSET Permissions, asked : 0..MaxPermissions]
Launches == [step : {"none", "waiting", "started", "skipped", "ended"},
             held : BOOLEAN, cancelled : BOOLEAN]
QueuedEvents == [kind : ExecutorEvents \cup ControlEvents, run : Runs,
                 request : Permissions \cup {None}, by : Controls \cup {None}]
ControlTasks == {t \in [step : {"idle", "turn", "stop", "join", "apply"}, run : Runs \cup {None}] :
                   t.run = None <=> t.step = "idle"}
ClosingTasks == [step : {"open", "admissions", "suspend", "drain", "closed", "failed"},
                 lost : SUBSET Runs, owned : SUBSET Runs, todo : SUBSET Runs,
                 current : Runs \cup {None}, preserved : SUBSET Runs, keeps : BOOLEAN,
                 failed : BOOLEAN]
DeletionTasks == [step : {"none", "captures", "rows", "undo", "drain", "remove", "done"},
                  waits : SUBSET Delegations, lost : SUBSET Runs, unfinished : SUBSET Runs,
                  todo : SUBSET Runs, current : Runs \cup {None}]
RecoveryTasks == [step : {"done", "rows", "deliver"}, todo : SUBSET Runs, current : Runs \cup {None}]

TypeOK ==
    /\ row \in [Runs -> Rows]
    /\ convs \subseteq Conversations
    /\ dirs \subseteq Runs
    /\ record \in [Runs -> {"none", "held", "released"}]
    /\ native \in [Runs -> {"none", "live", "exited", "disconnected", "released"}]
    /\ exec \in [Runs -> Entries]
    /\ launch \in [Runs -> Launches]
    /\ capture \in [Runs -> {"none", "copying", "aborted"}]
    /\ recon \in [Runs -> {"none", "pending", "aborted"}]
    /\ events \in Seq(QueuedEvents)
    /\ admission \in [Delegations -> Calls \cup {None}]
    /\ ctl \in [Controls -> ControlTasks]
    /\ closed \in BOOLEAN
    /\ deleting \subseteq Conversations
    /\ closing \in ClosingTasks
    /\ deletion \in [Conversations -> DeletionTasks]
    /\ recovering \in RecoveryTasks
    /\ restarts \in 0..MaxRestarts
    /\ releaseFailures \in 0..MaxReleaseFailures

IdleControl == [step |-> "idle", run |-> None]
NotClosing == [step |-> "open", lost |-> {}, owned |-> {}, todo |-> {},
               current |-> None, preserved |-> {}, keeps |-> FALSE, failed |-> FALSE]
NotDeleting == [step |-> "none", waits |-> {}, lost |-> {}, unfinished |-> {}, todo |-> {},
                current |-> None]
Recovered == [step |-> "done", todo |-> {}, current |-> None]

Init ==
    /\ row = [r \in Runs |-> AbsentRow]
    /\ convs = Conversations
    /\ dirs = {}
    /\ record = [r \in Runs |-> "none"]
    /\ native = [r \in Runs |-> "none"]
    /\ exec = [r \in Runs |-> AbsentExec]
    /\ launch = [r \in Runs |-> IdleLaunch]
    /\ capture = [r \in Runs |-> "none"]
    /\ recon = [r \in Runs |-> "none"]
    /\ events = <<>>
    /\ admission = [d \in Delegations |-> None]
    /\ ctl = [c \in Controls |-> IdleControl]
    /\ closed = FALSE
    /\ deleting = {}
    /\ closing = NotClosing
    /\ deletion = [c \in Conversations |-> NotDeleting]
    /\ recovering = Recovered
    /\ restarts = 0
    /\ releaseFailures = 0

---------------------------------------------------------------------------
(* Settlement *)

\* A closure without a place of its own in "events" runs when the closures
\* added before it have run.
QueueIdle == events = <<>>

\* reconcileRun(r): joins a pending attempt, and does nothing after close or
\* while the conversation is being deleted.
Reconciling(r) ==
    IF closed \/ Conv(r) \in deleting \/ recon[r] # "none" THEN recon
    ELSE [recon EXCEPT ![r] = "pending"]

\* Seeded fault: terminate() does not look at completedAt.
TerminateAgain(r, status) ==
    /\ row' = IF Exists(r) THEN Settled(r, status) ELSE row
    /\ recon' = Reconciling(r)

\* terminate(r, status): the first terminal status stays.
Terminate(r, status) ==
    IF row[r].completed \/ ~Exists(r)
    THEN UNCHANGED <<row, recon>>
    ELSE /\ row' = Settled(r, status)
         /\ recon' = Reconciling(r)

\* recordStopped(r) of a conversation deletion: no delivery follows.
RecordStopped(r) == IF row[r].completed THEN row ELSE Settled(r, "cancelled")

---------------------------------------------------------------------------
(* Admission: delegate() and admit() *)

\* Seeded fault: a conversation that is being deleted still admits Runs.
AdmissionOpenWhileDeleting(c) == ~closed /\ c \in convs
\* assertAdmissionOpen(): neither closed nor deleting, and the conversation exists.
AdmissionOpen(c) == ~closed /\ c \notin deleting /\ c \in convs

\* Seeded fault: only unfinished Runs are found by their tool call.
AdmittedUnfinished(q) == \E r \in Runs : Unfinished(r) /\ row[r].call = q
\* existing(): the Run this tool call already has.
Admitted(q) == \E r \in Runs : Exists(r) /\ row[r].call = q

\* Every unfinished Run occupies one of MAX_CONCURRENT_RUNS slots.
SlotFree == Cardinality(UnfinishedRuns) < MaxConcurrentRuns

\* A new invocation: a call that already has its Run gets the same receipt.
Delegate(d, q) ==
    /\ admission[d] = None
    /\ AdmissionOpen(ConvOf[q])
    /\ ~Admitted(q)
    /\ admission' = [admission EXCEPT ![d] = q]
    /\ UNCHANGED <<tables, files, executor, tasks, events, ctl, lifecycle, bounds>>

\* Seeded fault: a settled invocation is never taken out of "admissions".
AdmissionLingers(d) ==
    /\ admission' = [admission EXCEPT ![d] = None]
    /\ UNCHANGED <<ctl, lifecycle>>

\* delegate() settled: d leaves "admissions", and whoever waits for it continues.
AdmissionSettles(d) ==
    /\ admission' = [admission EXCEPT ![d] = None]
    /\ deletion' = [c \in Conversations |-> [deletion[c] EXCEPT !.waits = @ \ {d}]]
    /\ UNCHANGED <<ctl, closed, deleting, closing, recovering>>

\* The closure behind the model lookup checks everything again, then inserts
\* the row and owns its launch.
Admit(d) ==
    LET q == admission[d]
        fresh == {r \in Runs : row[r].status = "absent"}
    IN  /\ q # None
        /\ fresh # {}
        /\ QueueIdle
        /\ AdmissionSettles(d)
        /\ AdmissionOpen(ConvOf[q])
        /\ ~Admitted(q)
        /\ SlotFree
        /\ row' = [row EXCEPT ![First(fresh)] = [AbsentRow EXCEPT !.status = "enqueued", !.call = q]]
        /\ launch' = [launch EXCEPT ![First(fresh)] =
                        [step |-> "waiting", held |-> TRUE, cancelled |-> FALSE]]
        /\ UNCHANGED <<convs, files, executor, capture, recon, events, bounds>>

\* The invocation returns an existing Run or fails: refused by one of the
\* checks, or without a model.
AdmissionRefused(d) ==
    /\ admission[d] # None
    /\ AdmissionSettles(d)
    /\ UNCHANGED <<tables, files, executor, tasks, events, bounds>>

---------------------------------------------------------------------------
(* Launch *)

LaunchCancelled(r) == launch[r].cancelled \/ closed \/ Conv(r) \in deleting

\* The launch that setImmediate scheduled: cancelled, or no longer needed, or
\* the directories are prepared and the executor is asked to open a worker.
LaunchBegins(r) ==
    /\ launch[r].step = "waiting"
    /\ IF LaunchCancelled(r)
       THEN /\ launch' = [launch EXCEPT ![r] = [@ EXCEPT !.step = "skipped", !.cancelled = TRUE]]
            /\ UNCHANGED <<dirs, exec>>
       ELSE IF row[r].completed
       THEN /\ launch' = [launch EXCEPT ![r] = [@ EXCEPT !.step = "skipped", !.held = FALSE]]
            /\ UNCHANGED <<dirs, exec>>
       ELSE /\ launch' = [launch EXCEPT ![r] = [@ EXCEPT !.step = "started"]]
            /\ dirs' = dirs \cup {r}
            /\ SetExec(r, Preparing(FALSE))
    /\ UNCHANGED <<tables, record, native, capture, recon, events, invocations, lifecycle, bounds>>

\* The Run's directories cannot be prepared: the launch fails before it starts.
LaunchRefused(r) ==
    /\ launch[r].step = "waiting"
    /\ ~LaunchCancelled(r)
    /\ QueueIdle
    /\ launch' = [launch EXCEPT ![r] = [@ EXCEPT !.step = "skipped", !.held = FALSE]]
    /\ Terminate(r, "failed")
    /\ UNCHANGED <<convs, files, executor, capture, events, invocations, lifecycle, bounds>>

\* router.launch returned.  An error of a launch nobody cancelled fails the Run;
\* a cancelled launch stays in the map for whoever cancelled it.
LaunchEnds(r) ==
    /\ launch[r].step = "started"
    /\ exec[r].start \in {"ok", "failed"}
    /\ QueueIdle
    /\ SetExec(r, [exec[r] EXCEPT !.start = "none"])
    /\ launch' = [launch EXCEPT ![r].step = "ended",
                               ![r].held = launch[r].held /\ launch[r].cancelled]
    /\ IF exec[r].start = "failed" /\ ~LaunchCancelled(r)
       THEN Terminate(r, "failed")
       ELSE UNCHANGED <<row, recon>>
    /\ UNCHANGED <<convs, files, native, capture, events, invocations, lifecycle, bounds>>

---------------------------------------------------------------------------
(* The serial queue: applyExecutorEvent() and the closures of the controls *)

NextEvent == Head(events)

SetRow(r, status, permission) ==
    row' = [row EXCEPT ![r].status = status, ![r].permission = permission]

\* A queued Run starts; a late "started" is evidence only.
Starts(r) ==
    IF row[r].status = "enqueued" THEN SetRow(r, "running", row[r].permission) ELSE UNCHANGED row

\* A running Run waits for the user; a request in any other status is evidence only.
NeedsUser(r, request) ==
    IF row[r].status = "running" THEN SetRow(r, "needs_user", request) ELSE UNCHANGED row

\* The worker completed: its output is captured, unless the service stops.
Completes(r) ==
    IF closed \/ Conv(r) \in deleting
    THEN /\ Terminate(r, IF closed THEN "forced_termination" ELSE "cancelled")
         /\ UNCHANGED capture
    ELSE /\ capture' = [capture EXCEPT ![r] = IF @ = "none" THEN "copying" ELSE @]
         /\ UNCHANGED <<row, recon>>

\* Events of a settled Run are dropped.
ApplyExecutorEvent(e) ==
    LET r == e.run
        open == Exists(r) /\ ~row[r].completed
    IN  \/ ~open /\ UNCHANGED <<row, recon, capture>>
        \/ open /\ e.kind = "started" /\ Starts(r) /\ UNCHANGED <<recon, capture>>
        \/ open /\ e.kind = "needs_user" /\ NeedsUser(r, e.request) /\ UNCHANGED <<recon, capture>>
        \/ open /\ e.kind = "restored" /\ SetRow(r, "interrupted", None) /\ UNCHANGED <<recon, capture>>
        \/ open /\ e.kind = "completed" /\ Completes(r)
        \/ open /\ e.kind \in {"failed", "cancelled"} /\ Terminate(r, e.kind) /\ UNCHANGED capture

\* Seeded fault: a Run that waits for the user is not shown as paused.
PausesRunning(r) ==
    IF Unfinished(r) /\ row[r].status = "running" THEN SetRow(r, "interrupted", None) ELSE UNCHANGED row

\* The second closure of a control writes what the executor confirmed, unless
\* the row moved on meanwhile.
Pauses(r) ==
    IF Unfinished(r) /\ row[r].status \in {"running", "needs_user"}
    THEN SetRow(r, "interrupted", None) ELSE UNCHANGED row

Resumes(r) ==
    IF Unfinished(r) /\ row[r].status = "interrupted"
    THEN SetRow(r, "running", None) ELSE UNCHANGED row

Responds(r, request) ==
    IF Unfinished(r) /\ row[r].status = "needs_user" /\ row[r].permission = request
    THEN SetRow(r, "running", None) ELSE UNCHANGED row

ApplyControl(e) ==
    \/ e.kind = "cancel" /\ Terminate(e.run, "cancelled")
    \/ e.kind = "interrupt" /\ Pauses(e.run) /\ UNCHANGED recon
    \/ e.kind = "resume" /\ Resumes(e.run) /\ UNCHANGED recon
    \/ e.kind = "respond" /\ Responds(e.run, e.request) /\ UNCHANGED recon

\* The next closure of the queue.
RunNextEvent ==
    /\ events # <<>>
    /\ events' = Tail(events)
    /\ IF NextEvent.kind \in ExecutorEvents
       THEN ApplyExecutorEvent(NextEvent) /\ UNCHANGED ctl
       ELSE /\ ApplyControl(NextEvent)
            /\ ctl' = [ctl EXCEPT ![NextEvent.by] = IdleControl]
            /\ UNCHANGED capture
    /\ UNCHANGED <<convs, files, executor, launch, admission, lifecycle, bounds>>

\* captureArtifacts finished.  An aborted capture settles nothing, and neither
\* does one that ends after close or a deletion began.
CaptureEnds(r, status) ==
    /\ capture[r] # "none"
    /\ QueueIdle
    /\ capture' = [capture EXCEPT ![r] = "none"]
    /\ IF capture[r] = "aborted" \/ closed \/ Conv(r) \in deleting
       THEN UNCHANGED <<row, recon>>
       ELSE Terminate(r, status)
    /\ UNCHANGED <<convs, files, executor, launch, events, invocations, lifecycle, bounds>>

\* A delivery attempt ends: acknowledged, or failed or timed out.  After close
\* or an abort its outcome is ignored.
AttemptEnds(r, acknowledged) ==
    /\ recon[r] # "none"
    /\ QueueIdle
    /\ recon' = [recon EXCEPT ![r] = "none"]
    /\ row' = IF acknowledged /\ recon[r] = "pending" /\ ~closed
              THEN [row EXCEPT ![r].reported = TRUE] ELSE row
    /\ UNCHANGED <<convs, files, executor, launch, capture, events, invocations, lifecycle, bounds>>

\* retryDelivery(): offered while the result is unreported.
RetryDelivery(r) ==
    /\ ~closed /\ Exists(r) /\ Conv(r) \notin deleting
    /\ row[r].completed /\ ~row[r].reported
    /\ recon[r] = "none"
    /\ recon' = Reconciling(r)
    /\ UNCHANGED <<tables, files, executor, launch, capture, events, invocations, lifecycle, bounds>>

---------------------------------------------------------------------------
(* The user's controls *)

\* project(): what the executor can do now and the row allows, plus cancel for
\* a launch the service still owns.
Actions(r) ==
    IF ~Unfinished(r) \/ closed \/ Conv(r) \in deleting THEN {}
    ELSE {a \in RuntimeActions(r) :
            \/ a = "cancel"
            \/ a = "resume" /\ row[r].status = "interrupted"
            \/ a = "respondPermission" /\ row[r].status = "needs_user"
            \/ a = "interrupt" /\ row[r].status \in {"running", "needs_user"}}
         \cup (IF launch[r].held THEN {"cancel"} ELSE {})

\* The first closure of a control: the action must be offered.
Controllable(c, r, action) ==
    /\ ctl[c].step = "idle"
    /\ QueueIdle
    /\ action \in Actions(r)

Step(c, step, r) == ctl' = [ctl EXCEPT ![c] = [step |-> step, run |-> r]]

\* interruptRun(): session/cancel is sent and the turn awaited.
InterruptBegins(c, r) ==
    /\ Controllable(c, r, "interrupt")
    /\ SetExec(r, [exec[r] EXCEPT !.phase = "interrupting"])
    /\ Step(c, "turn", r)
    /\ UNCHANGED <<tables, files, native, tasks, events, admission, lifecycle, bounds>>

\* The turn ended without a pause: the control fails and changes nothing.
InterruptFails(c) ==
    /\ ctl[c].step = "turn"
    /\ exec[ctl[c].run].phase \notin {"interrupting", "releasing"}
    /\ Step(c, "idle", None)
    /\ UNCHANGED <<tables, files, executor, tasks, events, admission, lifecycle, bounds>>

\* session/cancel could not be sent: the turn goes on as if nobody had asked.
InterruptRejected(c) ==
    LET r == ctl[c].run IN
    /\ ctl[c].step = "turn"
    /\ exec[r].phase = "interrupting"
    /\ SetExec(r, [exec[r] EXCEPT !.phase = "turn"])
    /\ Step(c, "idle", None)
    /\ UNCHANGED <<tables, files, native, tasks, events, admission, lifecycle, bounds>>

\* resumeRun(): the same session is prompted again.  The row is written by the
\* closure that is queued before any answer of the worker.
ResumeBegins(c, r) ==
    /\ Controllable(c, r, "resume")
    /\ SetExec(r, [exec[r] EXCEPT !.phase = "turn", !.turn = TRUE])
    /\ events' = Append(events, Event("resume", r, None, c))
    /\ Step(c, "apply", r)
    /\ UNCHANGED <<tables, files, native, tasks, admission, lifecycle, bounds>>

\* respondToExecutorPermission(): answers the request the row shows.
RespondBegins(c, r) ==
    /\ Controllable(c, r, "respondPermission")
    /\ row[r].permission \in exec[r].pending
    /\ SetExec(r, [exec[r] EXCEPT !.pending = @ \ {row[r].permission}])
    /\ events' = Append(events, Event("respond", r, row[r].permission, c))
    /\ Step(c, "apply", r)
    /\ UNCHANGED <<tables, files, native, tasks, admission, lifecycle, bounds>>

\* cancelRun(): a launch that has not begun is only marked; otherwise the
\* executor must stop the worker.  An executor that has no running entry, or
\* only a rejected release, refuses and the launch is unmarked.
CancelBegins(c, r) ==
    /\ Controllable(c, r, "cancel")
    /\ ReleaseObserved(r)
    /\ LET mark(b) == launch' = [launch EXCEPT ![r].cancelled = IF launch[r].held THEN b ELSE @]
       IN  IF launch[r].held /\ launch[r].step \in {"waiting", "skipped"}
           THEN mark(TRUE) /\ Step(c, "join", r) /\ UNCHANGED exec
           ELSE IF ~Active(r) \/ exec[r].settled \/ StopRejects(r)
           THEN /\ mark(FALSE)
                /\ SetExec(r, IF Active(r) /\ ~exec[r].settled THEN Stopping(r) ELSE exec[r])
                /\ UNCHANGED ctl
           ELSE mark(TRUE) /\ Step(c, "stop", r) /\ SetExec(r, Stopping(r))
    /\ UNCHANGED <<tables, files, native, capture, recon, events, admission, lifecycle, bounds>>

\* The worker is released, and executor.cancel emits its event; or the release
\* failed, and so does the control.
CancelReleased(c) ==
    LET r == ctl[c].run IN
    /\ ctl[c].step = "stop"
    /\ exec[r].phase # "releasing"
    /\ IF Active(r)
       THEN /\ Step(c, "idle", None)
            /\ launch' = [launch EXCEPT ![r].cancelled = IF launch[r].held THEN FALSE ELSE @]
            /\ UNCHANGED events
       ELSE /\ Step(c, "join", r)
            /\ events' = Emitted("cancelled", r, None)
            /\ UNCHANGED launch
    /\ UNCHANGED <<tables, files, executor, capture, recon, admission, lifecycle, bounds>>

\* The promise of the launch has resolved.
LaunchOver(r) == launch[r].held => launch[r].step \in {"skipped", "ended"}

\* The launch has ended too: it leaves the map and the Run is settled.
CancelJoined(c) ==
    LET r == ctl[c].run IN
    /\ ctl[c].step = "join"
    /\ LaunchOver(r)
    /\ launch' = [launch EXCEPT ![r].held = FALSE]
    /\ events' = Append(events, Event("cancel", r, None, c))
    /\ Step(c, "apply", r)
    /\ UNCHANGED <<tables, files, executor, capture, recon, admission, lifecycle, bounds>>

---------------------------------------------------------------------------
(* close() and stopExecutorsAndDrain() *)

Abort(f, S) == [r \in Runs |-> IF r \in S /\ f[r] # "none" THEN "aborted" ELSE f[r]]

Close ==
    /\ MayClose
    /\ closing.step \in {"open", "failed"}
    /\ closed' = TRUE
    /\ launch' = [r \in Runs |-> [launch[r] EXCEPT !.cancelled = @ \/ launch[r].held]]
    /\ capture' = Abort(capture, Runs)
    /\ closing' = [NotClosing EXCEPT !.step = "admissions", !.lost = {r \in Runs : capture[r] # "none"}]
    /\ UNCHANGED <<tables, files, executor, recon, events, invocations, deleting, deletion,
                   recovering, bounds>>

\* Seeded fault: suspend() passes over a worker that is being interrupted.
SuspendableIdle == {r \in Runs : Active(r) /\ exec[r].phase # "interrupting"}
\* suspend() goes through all activeRuns.
Suspendable == {r \in Runs : Active(r)}

\* The admissions settled: what can be said of every unfinished Run, and which
\* Runs the executor is about to suspend.
CloseProbes ==
    LET startups == {r \in Runs : launch[r].held}
        probed == UnfinishedRuns \ startups
    IN  /\ closing.step = "admissions"
        /\ \A d \in Delegations : admission[d] = None
        /\ QueueIdle
        /\ closing' = [closing EXCEPT
             !.step = "suspend",
             !.lost = @ \cup {r \in probed : RecoveryState(r) = "confirmed_lost"}
                        \cup {r \in UnfinishedRuns \cap startups : launch[r].step \in {"waiting", "skipped"}},
             !.owned = startups \cup {r \in probed : RecoveryState(r) = "attached"},
             !.todo = Suspendable]
        /\ UNCHANGED <<tables, files, executor, tasks, events, invocations, closed, deleting,
                       deletion, recovering, bounds>>

\* executor.suspend(): one worker after the other.
SuspendBegins ==
    LET r == First(closing.todo) IN
    /\ closing.step = "suspend" /\ closing.current = None /\ closing.todo # {}
    /\ ReleaseObserved(r)
    /\ closing' = IF StopRejects(r)
                  THEN [closing EXCEPT !.failed = TRUE, !.preserved = {}, !.todo = {}]
                  ELSE [closing EXCEPT !.current = r, !.todo = @ \ {r}, !.keeps = Suspends(r)]
    /\ SetExec(r, IF Suspends(r) THEN [exec[r] EXCEPT !.phase = "releasing", !.why = "suspend"]
                  ELSE Stopping(r))
    /\ UNCHANGED <<tables, files, native, tasks, events, invocations, closed, deleting, deletion,
                   recovering, bounds>>

\* A release that fails ends suspend(), and with it what it had preserved.
SuspendEnds ==
    LET r == closing.current IN
    /\ closing.step = "suspend" /\ r # None
    /\ exec[r].phase # "releasing"
    /\ closing' = IF Active(r)
                  THEN [closing EXCEPT !.current = None, !.todo = {}, !.preserved = {}, !.failed = TRUE]
                  ELSE [closing EXCEPT !.current = None,
                            !.preserved = IF closing.keeps THEN @ \cup {r} ELSE @]
    /\ UNCHANGED <<tables, files, executor, tasks, events, invocations, closed, deleting, deletion,
                   recovering, bounds>>

\* The launches settled; the deliveries are aborted.
CloseDrains ==
    /\ closing.step = "suspend" /\ closing.current = None /\ closing.todo = {}
    /\ \A r \in Runs : LaunchOver(r)
    /\ closing' = [closing EXCEPT !.step = "drain"]
    /\ launch' = IF closing.failed THEN launch
                 ELSE [r \in Runs |-> [launch[r] EXCEPT !.held = FALSE]]
    /\ recon' = Abort(recon, Runs)
    /\ UNCHANGED <<tables, files, executor, capture, events, invocations, closed, deleting, deletion,
                   recovering, bounds>>

\* Seeded fault: the Runs that suspend() preserved are not taken out.
StoppableAll == closing.lost \cup (IF closing.failed THEN {} ELSE closing.owned)
\* Runs known to have stopped: lost, or owned when every release succeeded.
Stoppable ==
    closing.lost \cup (IF closing.failed THEN {} ELSE closing.owned \ closing.preserved)

\* Controls, queue, deliveries and captures are drained.  Preserved Runs wait
\* for the next start; those known to have stopped are settled, and only their
\* directories are removed.  A failure leaves close() to be called again.
CloseSettles ==
    LET stopped == {r \in Stoppable : Unfinished(r)}
        kept == UnfinishedRuns \ stopped
    IN  /\ closing.step = "drain"
        /\ \A c \in Controls : ctl[c].step = "idle"
        /\ QueueIdle
        /\ \A r \in Runs : recon[r] = "none" /\ capture[r] = "none"
        /\ row' = [r \in Runs |->
                     IF r \in stopped
                     THEN [row[r] EXCEPT !.status = "forced_termination", !.completed = TRUE,
                              !.permission = IF r \in closing.preserved THEN None ELSE @]
                     ELSE IF r \in closing.preserved /\ Unfinished(r)
                     THEN [row[r] EXCEPT !.status = "interrupted", !.permission = None]
                     ELSE row[r]]
        /\ dirs' = IF kept = {} THEN {} ELSE dirs \ stopped
        /\ closing' = [closing EXCEPT !.step = IF closing.failed THEN "failed" ELSE "closed"]
        /\ UNCHANGED <<convs, record, executor, tasks, events, invocations, closed, deleting, deletion,
                       recovering, bounds>>

---------------------------------------------------------------------------
(* prepareConversationDeletion() and the session deletion that calls it *)

deletionOthers == <<bounds, closed, closing, recovering, admission, ctl>>

DeleteBegins(c) ==
    LET captured == {r \in RunsOf(c) : capture[r] # "none"} IN
    /\ c \in Deletable /\ c \in convs
    /\ ~closed
    /\ deletion[c].step = "none"
    /\ deleting' = deleting \cup {c}
    /\ capture' = Abort(capture, captured)
    /\ deletion' = [deletion EXCEPT ![c] = [NotDeleting EXCEPT !.step = "captures", !.lost = captured,
                                             !.waits = {d \in Delegations : admission[d] # None}]]
    /\ UNCHANGED <<tables, files, executor, launch, recon, events, deletionOthers>>

\* The captures ended and the admissions settled: the unfinished Runs, in order.
DeleteCollects(c) ==
    LET unfinished == {r \in RunsOf(c) : Unfinished(r)} IN
    /\ deletion[c].step = "captures"
    /\ \A r \in deletion[c].lost : capture[r] = "none"
    /\ deletion[c].waits = {}
    /\ QueueIdle
    /\ deletion' = [deletion EXCEPT ![c] = [@ EXCEPT !.step = "rows", !.todo = unfinished,
                                                     !.unfinished = unfinished]]
    /\ UNCHANGED <<tables, files, executor, tasks, events, deleting, deletionOthers>>

Deleting(c, r) ==
    /\ deletion[c].step = "rows" /\ deletion[c].current = None
    /\ deletion[c].todo # {} /\ r = First(deletion[c].todo)

\* The output of this Run was being captured: its worker is gone.
DeleteCaptured(c, r) ==
    /\ Deleting(c, r) /\ r \in deletion[c].lost
    /\ QueueIdle
    /\ row' = RecordStopped(r)
    /\ deletion' = [deletion EXCEPT ![c].todo = @ \ {r}]
    /\ UNCHANGED <<convs, files, executor, tasks, events, deleting, deletionOthers>>

\* The launches of this deletion that had not begun when it gave up.
Unbegun(c) == {r \in deletion[c].unfinished :
                 launch[r].held /\ launch[r].step \in {"waiting", "skipped"}}

\* The loop throws.  Launches that began are unmarked; without others the
\* conversation is open again at once, else they are awaited by DeleteUndone.
DeleteThrows(c) ==
    /\ launch' = [r \in Runs |->
                    IF r \in deletion[c].unfinished /\ launch[r].held
                    THEN [launch[r] EXCEPT !.cancelled = r \in Unbegun(c)] ELSE launch[r]]
    /\ IF Unbegun(c) = {}
       THEN /\ deletion' = [deletion EXCEPT ![c] = NotDeleting]
            /\ deleting' = deleting \ {c}
       ELSE /\ deletion' = [deletion EXCEPT ![c] = [@ EXCEPT !.step = "undo", !.current = None]]
            /\ UNCHANGED deleting

\* A launch that began, and what it started.
Begun(r) == launch[r].held /\ launch[r].step \in {"started", "ended"}

\* What the deletion cannot stop: a worker the executor must cancel and has no
\* running entry for, or one that nobody is known to control.
Refused(r) ==
    \/ /\ Begun(r) \/ (~launch[r].held /\ RecoveryState(r) = "attached")
       /\ ~Active(r) \/ exec[r].settled
    \/ ~launch[r].held /\ RecoveryState(r) = "unknown"

\* The executor cancels and stops the worker, unless its launch has not begun,
\* which is only marked.
DeleteStops(c, r) ==
    /\ Deleting(c, r) /\ r \notin deletion[c].lost
    /\ ReleaseObserved(r)
    /\ LET stops == Begun(r) \/ ~launch[r].held
       IN  IF Refused(r) \/ (stops /\ StopRejects(r))
           THEN DeleteThrows(c) /\ SetExec(r, IF Refused(r) THEN exec[r] ELSE Stopping(r))
           ELSE /\ deletion' = [deletion EXCEPT ![c].current = r, ![c].todo = @ \ {r}]
                /\ launch' = [launch EXCEPT ![r].cancelled = @ \/ launch[r].held]
                /\ SetExec(r, IF stops THEN Stopping(r) ELSE exec[r])
                /\ UNCHANGED deleting
    /\ UNCHANGED <<tables, files, native, capture, recon, events, deletionOthers>>

\* The worker is released and its launch over; or its release failed.
DeleteStopped(c) ==
    LET r == deletion[c].current IN
    /\ deletion[c].step = "rows" /\ r # None
    /\ exec[r].phase # "releasing"
    /\ IF Active(r) THEN DeleteThrows(c) /\ UNCHANGED row
       ELSE /\ LaunchOver(r) /\ QueueIdle
            /\ launch' = [launch EXCEPT ![r].held = FALSE]
            /\ row' = RecordStopped(r)
            /\ deletion' = [deletion EXCEPT ![c].current = None]
            /\ UNCHANGED deleting
    /\ UNCHANGED <<convs, files, executor, capture, recon, events, deletionOthers>>

\* After a throw: launches that had not begun are awaited and settled, then the
\* conversation is open again.
DeleteUndone(c) ==
    /\ deletion[c].step = "undo"
    /\ \A r \in Unbegun(c) : launch[r].step = "skipped"
    /\ QueueIdle
    /\ row' = [r \in Runs |-> IF r \in Unbegun(c) THEN RecordStopped(r)[r] ELSE row[r]]
    /\ launch' = [r \in Runs |-> [launch[r] EXCEPT !.held = @ /\ r \notin Unbegun(c)]]
    /\ deleting' = deleting \ {c}
    /\ deletion' = [deletion EXCEPT ![c] = NotDeleting]
    /\ UNCHANGED <<convs, files, executor, capture, recon, events, deletionOthers>>

\* Every Run is stopped: its pending deliveries are aborted.
DeleteDrains(c) ==
    /\ deletion[c].step = "rows" /\ deletion[c].current = None /\ deletion[c].todo = {}
    /\ deletion' = [deletion EXCEPT ![c].step = "drain"]
    /\ recon' = Abort(recon, RunsOf(c))
    /\ UNCHANGED <<tables, files, executor, launch, capture, events, deleting, deletionOthers>>

\* Deliveries, controls and queue are drained: the Run directories are removed.
DeleteClears(c) ==
    /\ deletion[c].step = "drain"
    /\ \A r \in RunsOf(c) : recon[r] = "none"
    /\ \A k \in Controls : ctl[k].step # "idle" => ctl[k].run \notin RunsOf(c)
    /\ QueueIdle
    /\ dirs' = dirs \ RunsOf(c)
    /\ deletion' = [deletion EXCEPT ![c].step = "remove"]
    /\ UNCHANGED <<tables, record, executor, tasks, events, deleting, deletionOthers>>

\* The session catalog deletes the rows of the Runs and the conversation.
DeleteEnds(c) ==
    /\ deletion[c].step = "remove"
    /\ row' = [r \in Runs |-> IF r \in RunsOf(c) THEN [row[r] EXCEPT !.status = "deleted"] ELSE row[r]]
    /\ convs' = convs \ {c}
    /\ deletion' = [deletion EXCEPT ![c] = [NotDeleting EXCEPT !.step = "done"]]
    /\ UNCHANGED <<files, executor, tasks, events, deleting, deletionOthers>>

\* Removing the session file or the rows failed: the conversation stays, and
\* stays marked as being deleted until it is deleted again.
DeleteFails(c) ==
    /\ deletion[c].step = "remove"
    /\ deletion' = [deletion EXCEPT ![c] = NotDeleting]
    /\ UNCHANGED <<tables, files, executor, tasks, events, deleting, deletionOthers>>

---------------------------------------------------------------------------
(* A restart of the Host, recoverUnfinishedRuns() and reconcilePending() *)

\* A crash at any time, or the process exit after close() returned or failed.
\* Memory is lost; rows, files and what really runs are not.
Restart ==
    /\ restarts < MaxRestarts
    /\ restarts' = restarts + 1
    /\ exec' = [r \in Runs |-> AbsentExec]
    /\ launch' = [r \in Runs |-> IdleLaunch]
    /\ capture' = [r \in Runs |-> "none"]
    /\ recon' = [r \in Runs |-> "none"]
    /\ events' = <<>>
    /\ admission' = [d \in Delegations |-> None]
    /\ ctl' = [c \in Controls |-> IdleControl]
    /\ closed' = FALSE
    /\ deleting' = {}
    /\ closing' = NotClosing
    /\ deletion' = [c \in Conversations |->
                      IF deletion[c].step = "done" THEN deletion[c] ELSE NotDeleting]
    /\ recovering' = [step |-> "rows", todo |-> UnfinishedRuns, current |-> None]
    /\ UNCHANGED <<tables, files, native, releaseFailures>>

recoveryOthers == <<closed, deleting, closing, deletion, bounds>>

\* Seeded fault: a record is enough, whether or not the worker was released.
RestorableByRecord(r) == exec[r].phase = "absent" /\ record[r] # "none"
\* Only a record of a released worker licenses a new one.
Restorable(r) == exec[r].phase = "absent" /\ record[r] = "released"

\* executor.restore(): only a record that says the worker was released
\* licenses a new one, and it is claimed first.  Anything else stays as it is.
RestoreBegins ==
    LET r == First(recovering.todo) IN
    /\ recovering.current = None /\ recovering.todo # {}
    /\ dirs' = dirs \cup {r}
    /\ IF Restorable(r)
       THEN /\ record' = [record EXCEPT ![r] = "held"]
            /\ SetExec(r, Preparing(TRUE))
            /\ recovering' = [recovering EXCEPT !.todo = @ \ {r}, !.current = r]
       ELSE /\ recovering' = [recovering EXCEPT !.todo = @ \ {r}]
            /\ UNCHANGED <<record, exec>>
    /\ UNCHANGED <<tables, native, tasks, events, invocations, recoveryOthers>>

\* Recovery of one Run is deferred: its model or profile cannot be resolved.
RestoreDeferred ==
    /\ recovering.current = None /\ recovering.todo # {}
    /\ recovering' = [recovering EXCEPT !.todo = @ \ {First(@)}]
    /\ UNCHANGED <<tables, files, executor, tasks, events, invocations, recoveryOthers>>

\* The restored worker is attached; or it did not start, the record is given
\* back if nothing is left of it, and the Run stays.  Only a runner that cannot
\* load sessions any more is reported lost, which settles the row.
RestoreEnds ==
    LET r == recovering.current IN
    /\ r # None
    /\ exec[r].start \in {"ok", "failed", "unsupported"}
    /\ QueueIdle
    /\ SetExec(r, [exec[r] EXCEPT !.start = "none"])
    /\ recovering' = [recovering EXCEPT !.current = None]
    /\ record' = IF exec[r].start # "ok" /\ ~Active(r)
                 THEN [record EXCEPT ![r] = "released"] ELSE record
    /\ row' = IF exec[r].start = "unsupported" /\ ~row[r].completed
              THEN [row EXCEPT ![r].status = "forced_termination", ![r].completed = TRUE] ELSE row
    /\ UNCHANGED <<convs, dirs, native, tasks, events, invocations, recoveryOthers>>

\* Seeded fault: the Run directories are removed although Runs remain.
RecoveryClears ==
    /\ recovering.step = "rows" /\ recovering.current = None /\ recovering.todo = {}
    /\ dirs' = {}
    /\ recovering' = [recovering EXCEPT !.step = "deliver"]
    /\ UNCHANGED <<tables, record, executor, tasks, events, invocations, recoveryOthers>>

\* Every Run was looked at: without an unfinished one, no directory is needed.
RecoveryEnds ==
    /\ recovering.step = "rows" /\ recovering.current = None /\ recovering.todo = {}
    /\ QueueIdle
    /\ dirs' = IF UnfinishedRuns = {} THEN {} ELSE dirs
    /\ recovering' = [recovering EXCEPT !.step = "deliver"]
    /\ UNCHANGED <<tables, record, executor, tasks, events, invocations, recoveryOthers>>

\* Then every settled Run without an acknowledged result is delivered again.
ReconcilePending ==
    /\ recovering.step = "deliver"
    /\ QueueIdle
    /\ recovering' = Recovered
    /\ recon' = [r \in Runs |-> IF Exists(r) /\ row[r].completed /\ ~row[r].reported
                                THEN Reconciling(r)[r] ELSE recon[r]]
    /\ UNCHANGED <<tables, files, executor, launch, capture, events, invocations, recoveryOthers>>

---------------------------------------------------------------------------
ControlStep(c) ==
    \/ \E r \in Runs : \/ InterruptBegins(c, r) \/ ResumeBegins(c, r)
                       \/ RespondBegins(c, r) \/ CancelBegins(c, r)
    \/ InterruptFails(c) \/ InterruptRejected(c) \/ CancelReleased(c) \/ CancelJoined(c)

CloseStep ==
    \/ Close \/ CloseProbes \/ SuspendBegins \/ SuspendEnds \/ CloseDrains \/ CloseSettles

DeleteStep(c) ==
    \/ DeleteBegins(c) \/ DeleteCollects(c)
    \/ \E r \in Runs : DeleteCaptured(c, r) \/ DeleteStops(c, r)
    \/ DeleteStopped(c) \/ DeleteUndone(c) \/ DeleteDrains(c) \/ DeleteClears(c)
    \/ DeleteEnds(c) \/ DeleteFails(c)

RunStep(r) ==
    \/ LaunchBegins(r) \/ LaunchRefused(r) \/ LaunchEnds(r)
    \/ \E status \in {"completed", "failed"} : CaptureEnds(r, status)
    \/ \E acknowledged \in BOOLEAN : AttemptEnds(r, acknowledged)
    \/ RetryDelivery(r)

RecoveryStep ==
    \/ RestoreBegins \/ RestoreDeferred \/ RestoreEnds \/ RecoveryEnds \/ ReconcilePending

Next ==
    \/ \E d \in Delegations, q \in Calls : Delegate(d, q)
    \/ \E d \in Delegations : Admit(d) \/ AdmissionRefused(d)
    \/ \E r \in Runs : RunStep(r) \/ ExecutorStep(r)
    \/ RunNextEvent
    \/ \E c \in Controls : ControlStep(c)
    \/ CloseStep
    \/ \E c \in Conversations : DeleteStep(c)
    \/ RecoveryStep
    \/ Restart

\* What the Host and the operating system keep doing: the queue drains, timers
\* bound a start, a release, a capture and a delivery attempt, and every await
\* of the service continues.  Users, crashes and the worker's own answers (an
\* end of turn, the confirmation of a pause) are never assumed.
Fairness ==
    /\ WF_vars(RunNextEvent)
    /\ \A d \in Delegations : WF_vars(Admit(d) \/ AdmissionRefused(d))
    /\ \A r \in Runs :
        /\ WF_vars(LaunchBegins(r)) /\ WF_vars(LaunchEnds(r))
        /\ WF_vars(Spawn(r) \/ PrepareFails(r))
        /\ WF_vars(Loads(r) \/ Opened(r) \/ StartFails(r))
        /\ WF_vars(ReleaseSucceeds(r) \/ ReleaseFails(r))
        /\ WF_vars(\E status \in {"completed", "failed"} : CaptureEnds(r, status))
        /\ WF_vars(\E acknowledged \in BOOLEAN : AttemptEnds(r, acknowledged))
    /\ \A c \in Controls :
        WF_vars(InterruptFails(c) \/ CancelReleased(c) \/ CancelJoined(c))
    /\ WF_vars(CloseProbes \/ SuspendBegins \/ SuspendEnds \/ CloseDrains \/ CloseSettles)
    /\ \A c \in Conversations :
        WF_vars(\/ DeleteCollects(c)
                \/ \E r \in Runs : DeleteCaptured(c, r) \/ DeleteStops(c, r)
                \/ DeleteStopped(c) \/ DeleteUndone(c) \/ DeleteDrains(c) \/ DeleteClears(c)
                \/ DeleteEnds(c) \/ DeleteFails(c))
    /\ WF_vars(RecoveryStep)

Spec == Init /\ [][Next]_vars
FairSpec == Spec /\ Fairness

---------------------------------------------------------------------------
(* Safety *)

Running(r) == native[r] \in {"live", "exited", "disconnected"}

\* The limit on executor resources holds although admit() awaits a model lookup
\* before it counts: the count and the insertion are one closure of the queue.
CapacityRespected == Cardinality(UnfinishedRuns) <= MaxConcurrentRuns

\* Admission is idempotent: invocations of the same tool call that race through
\* the model lookup never leave two Runs.
OneRunPerCall ==
    \A r, s \in Runs : Exists(r) /\ Exists(s) /\ r # s => row[r].call # row[s].call

\* The first terminal status stays, whatever a late event, capture, control,
\* close or recovery confirms afterwards, and so does an acknowledged result.
TerminalIsFinal ==
    [][\A r \in Runs : row[r].completed =>
         /\ row'[r].status \in {row[r].status, "deleted"}
         /\ row'[r].completed
         /\ row[r].reported => row'[r].reported]_vars

\* A Run reported as completed or cancelled has no worker left: settle and stop
\* release the process before the service may write either status.
StoppedBeforeSettled ==
    \A r \in Runs : row[r].status \in {"completed", "cancelled"} => ~Running(r)

\* No second worker is spawned for a Run whose earlier worker is not known to be
\* released, across crashes in the middle of close() or of recovery.
NoSecondWorker ==
    [][\A r \in Runs : exec[r].phase = "preparing" /\ exec'[r].phase = "opening" => ~Running(r)]_vars

\* Neither close(), a failed close() nor recovery removes the directory of a
\* worker whose Run may still continue.
UnfinishedKeepsDirectory ==
    \A r \in Runs : Unfinished(r) /\ Running(r) => r \in dirs

\* A successful close() does not end the unfinished Runs it preserved, unless they
\* were lost before: they are paused, their workers released, and the record and
\* the directory that recovery needs are there.
PreservedComeBack ==
    [][closing.step = "drain" /\ closing'.step = "closed" =>
         \A r \in closing.preserved \ closing.lost :
            Unfinished(r) => /\ row'[r].status = "interrupted" /\ ~row'[r].completed
                             /\ record[r] = "released" /\ r \in dirs' /\ ~Running(r)]_vars

\* Nothing of this Run is on its way: no queued closure, no control, no
\* launch, no recovery, close or deletion in progress.
Quiet(r) ==
    /\ \A i \in 1..Len(events) : events[i].run # r
    /\ \A c \in Controls : ctl[c].run # r
    /\ ~launch[r].held
    /\ recovering.current # r /\ r \notin recovering.todo
    /\ ~closed /\ Conv(r) \notin deleting

\* A Run of a conversation that nobody deletes.  A deletion that is refused leaves
\* Runs whose events it dropped.
Kept(r) == Exists(r) /\ Conv(r) \notin Deletable

\* Between two activities the row tells what the worker does: events of the
\* executor and confirmations of controls reach the row in an order that agrees
\* with the order in which the worker changed.  The row holds one request, so
\* that a worker that asked again may wait for an answer to one it does not show.
RowMatchesWorker ==
    \A r \in Runs : Unfinished(r) /\ Kept(r) /\ Quiet(r) =>
        CASE exec[r].phase = "turn" ->
               \/ row[r].status = "running" /\ (exec[r].pending = {} \/ exec[r].asked > 1)
               \/ row[r].status = "needs_user" /\ row[r].permission \in exec[r].pending
          [] exec[r].phase = "paused" -> row[r].status = "interrupted"
          [] OTHER -> TRUE

\* A Run whose launch is over is settled, unless a worker or a capture of its
\* output will still settle it: no outcome and no failed start is lost.
FinishedWorkerSettles ==
    \A r \in Runs : Unfinished(r) /\ Kept(r) /\ Quiet(r) /\ launch[r].step = "ended"
                        => Active(r) \/ capture[r] # "none"

\* A deleted conversation stays quiet: none of its Runs is launched, controlled,
\* captured, delivered or executed after the deletion returned.  Only a worker
\* that could not be released, or that close() settled while it was being
\* launched, may survive.
DeletedIsQuiet ==
    \A r \in Runs : row[r].status = "deleted" =>
        /\ launch[r].step # "waiting" /\ exec[r].phase # "preparing"
        /\ capture[r] = "none" /\ recon[r] = "none"
        /\ \A c \in Controls : ctl[c].run # r
        /\ ~MayClose /\ releaseFailures = 0 => exec[r].phase = "absent" /\ ~Running(r)

---------------------------------------------------------------------------
(* Liveness *)

\* close() returns, whatever launches, captures, deliveries and controls were in
\* flight, and so does a control that asked for the end of a worker: those that
\* wait for a worker are woken by its release.
EndingReturns ==
    /\ closing.step \in {"admissions", "suspend", "drain"}
          ~> closing.step \notin {"admissions", "suspend", "drain"}
    /\ \A c \in Controls : ctl[c].step \in {"stop", "join", "apply"} ~> ctl[c].step = "idle"

\* The deletion of a conversation returns, refused or done.
DeletionReturns ==
    \A c \in Conversations :
        deletion[c].step \in {"captures", "rows", "undo", "drain", "remove"}
            ~> deletion[c].step \in {"none", "done"}
=============================================================================
