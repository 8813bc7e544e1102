------------------------ MODULE RunServiceInvariants ------------------------
(***************************************************************************)
(* What the steps of RunService preserve: the parts of the inductive       *)
(* invariants behind the theorems of RunServiceProofs, and the steps the   *)
(* proofs tell apart.                                                      *)
(*                                                                         *)
(* RowInvariant. Whether a row may be settled is decided by what an        *)
(* activity remembers of it from before an await: a conversation deletion  *)
(* goes through a list of Runs and deletes all rows at its end, and the    *)
(* recovery through another. These lists still tell the truth.             *)
(*                                                                         *)
(* WorkerInvariant. The worker outlives the Host, and its executor entry   *)
(* does not: what the Host concludes from an entry that is absent depends  *)
(* on how it became absent. StartKnown says when a new worker may be       *)
(* spawned. Ended is the state a Run does not leave before the next start  *)
(* of the Host, and StopKnown lists the activities that rely on it across  *)
(* their awaits.                                                           *)
(*                                                                         *)
(* EntryInvariant. The entry, the launch and the worker of a Run agree,    *)
(* and what close() preserves can come back.                               *)
(*                                                                         *)
(* KeptInvariant. For Runs of a conversation that nobody deletes: what     *)
(* settles the Run is on its way, and the row, after the queue has run,    *)
(* says what the worker does.                                              *)
(*                                                                         *)
(* QuietInvariant. A Run that is settled starts no worker, and of a        *)
(* conversation that is being deleted nothing begins.                      *)
(***************************************************************************)
EXTENDS RunService

-----------------------------------------------------------------------------
(* The table *)

\* completedAt is set exactly for settled and for deleted rows, and every row
\* belongs to a tool call.
WellFormed(x) ==
    /\ x.status = "absent" => ~x.completed /\ x.call = None
    /\ x.status # "absent" => x.call \in Calls
    /\ x.status = "deleted" => x.completed
    /\ x.status \notin {"absent", "deleted"} => (x.completed <=> x.status \in TerminalStatuses)

\* A deletion in progress keeps its conversation closed; the loop still has
\* every unfinished Run of it before it, and nothing else; behind the loop
\* every Run is settled.
DeletionKnows(c) ==
    LET d == deletion[c] IN
    /\ d.step \in {"captures", "rows", "undo", "drain", "remove"} => c \in deleting
    /\ d.step # "rows" => d.current = None
    /\ d.step = "rows" =>
         /\ d.todo \subseteq RunsOf(c)
         /\ d.current # None => d.current \in RunsOf(c)
         /\ \A r \in RunsOf(c) : Unfinished(r) => r \in d.todo \/ r = d.current
    /\ d.step \in {"rows", "undo"} => d.unfinished \subseteq RunsOf(c)
    /\ d.step \in {"drain", "remove"} => \A r \in RunsOf(c) : row[r].completed

\* The recovery goes through Runs that have been admitted.
RecoveryKnows ==
    /\ \A r \in recovering.todo : row[r].status # "absent"
    /\ recovering.current # None => row[recovering.current].status # "absent"

RowInvariant ==
    /\ \A r \in Runs : WellFormed(row[r])
    /\ \A c \in Conversations : DeletionKnows(c)
    /\ RecoveryKnows

\* What a step may do to a row, short of inserting or deleting it.
Moves(x, y) ==
    /\ y.call = x.call
    /\ \A gone \in {"absent", "deleted"} : y.status = gone <=> x.status = gone
    /\ x.completed => y.completed /\ y.status = x.status
    /\ x.reported => y.reported
    /\ WellFormed(y)

RowsMove == \A r \in Runs : Moves(row[r], row'[r])

\* No deletion went on, up to the admissions it waits for.
DeletionsStay ==
    /\ deleting' = deleting
    /\ \A c \in Conversations :
         /\ deletion'[c].step = deletion[c].step
         /\ deletion'[c].todo = deletion[c].todo
         /\ deletion'[c].current = deletion[c].current
         /\ deletion'[c].unfinished = deletion[c].unfinished

\* The recovery only takes Runs from its own list.
RecoveryShrinks ==
    /\ recovering'.todo \subseteq recovering.todo
    /\ recovering'.current \in recovering.todo \cup {recovering.current, None}

\* admit() inserts one row for a call that has none, while a slot is free.
Inserts(n) ==
    \E q \in Calls :
        /\ row[n].status = "absent" /\ ~Admitted(q) /\ SlotFree
        /\ row' = [row EXCEPT ![n] = [AbsentRow EXCEPT !.status = "enqueued", !.call = q]]

\* The session catalog deletes rows, all of which are settled.
Deletes(S) ==
    /\ S \subseteq Runs /\ \A r \in S : row[r].completed
    /\ row' = [r \in Runs |-> IF r \in S THEN [row[r] EXCEPT !.status = "deleted"] ELSE row[r]]

-----------------------------------------------------------------------------
(* The workers *)

\* Nothing was ever started for a row that is not there and for a launch that
\* waits; the recovery has its Runs to itself; an entry that is about to spawn,
\* one that failed to, and a record that licenses a restart have no worker.
StartKnown(r) ==
    /\ row[r].status = "absent" =>
         /\ launch[r].step = "none" /\ ~launch[r].held
         /\ exec[r].phase = "absent" /\ native[r] = "none" /\ record[r] = "none"
    /\ launch[r].step = "waiting" =>
         /\ exec[r].phase = "absent" /\ native[r] = "none" /\ record[r] = "none"
         /\ recovering.current # r
    /\ launch[r].step = "skipped" => exec[r].phase = "absent" /\ ~Running(r)
    /\ launch[r].held => launch[r].step # "none"
    /\ r \in recovering.todo => exec[r].phase = "absent" /\ launch[r].step = "none"
    /\ exec[r].phase \in {"absent", "preparing"} => ~exec[r].saved
    /\ exec[r].phase = "preparing" =>
         exec[r].start = "pending" /\ record[r] # "released" /\ ~Running(r)
    /\ exec[r].phase = "absent" /\ exec[r].start # "none" => ~Running(r)
    /\ record[r] = "released" => exec[r].phase = "absent" /\ ~Running(r)

\* A worker that runs or is about to has its directory, while its Run goes on.
DirectoryKnown(r) ==
    Unfinished(r) /\ (Running(r) \/ exec[r].phase = "preparing") => r \in dirs

\* No worker will be spawned for this Run before the Host starts again, and the
\* one it has is in the hands of the executor.
Ended(r) ==
    /\ row[r].status # "absent"
    /\ launch[r].step # "waiting" /\ r \notin recovering.todo
    /\ exec[r].phase # "preparing"
    /\ exec[r].phase = "absent" => ~Running(r)

\* Nor is the one it has.
Gone(r) == Ended(r) /\ exec[r].phase = "absent"

\* The launch is marked and will be skipped.
Marked(r) == launch[r].step = "waiting" /\ launch[r].held /\ launch[r].cancelled

\* No worker was refused its release, and no close() may settle a Run at its start.
Clean == ~MayClose /\ releaseFailures = 0

\* The worker is out of the way of who settles the Run: gone, unless it failed and
\* could not be released.
Settles(r, kind) == Ended(r) /\ (kind # "failed" \/ Clean => Gone(r))

\* A row that says so, a capture, an event or a control in the queue: the worker
\* is gone.
RowsStopped == \A r \in Runs : row[r].status \in {"completed", "cancelled"} => Gone(r)
CapturesStopped == \A r \in Runs : capture[r] # "none" => Gone(r)
QueueStopped == \A i \in 1..Len(events) :
    events[i].kind \in Outcomes \cup {"cancel"} => Settles(events[i].run, events[i].kind)

\* A control or a deletion that waits for a worker, or for a launch it marked.
ControlsStopped == \A c \in Controls :
    /\ ctl[c].step = "stop" => Ended(ctl[c].run)
    /\ ctl[c].step = "join" => Gone(ctl[c].run) \/ Marked(ctl[c].run)
DeletionsStopped == \A c \in Conversations :
    /\ \A r \in deletion[c].lost : Gone(r)
    /\ deletion[c].step = "done" => deletion[c].lost = {}
    /\ deletion[c].current # None =>
         Ended(deletion[c].current) \/ Marked(deletion[c].current)

StopKnown ==
    RowsStopped /\ CapturesStopped /\ QueueStopped /\ ControlsStopped /\ DeletionsStopped

WorkerInvariant ==
    /\ \A r \in Runs : StartKnown(r) /\ DirectoryKnown(r)
    /\ StopKnown

\* The launch of a Run goes on or ends, and one that is marked stays marked.
LaunchStays(r) ==
    /\ \/ launch'[r].step = launch[r].step
       \/ launch[r].step = "started" /\ launch'[r].step = "ended"
    /\ launch'[r].held => launch[r].held
    /\ Marked(r) => Marked(r)'

\* An entry that has a worker keeps one; any other only gives its result away.
EntryStays(r) ==
    /\ native'[r] = native[r] \/ (Running(r) /\ Running(r)')
    /\ record'[r] = record[r] \/ (Active(r) /\ record'[r] = "held")
    /\ Active(r) => Active(r)'
    /\ ~Active(r) => /\ exec'[r].phase = exec[r].phase /\ exec'[r].saved = exec[r].saved
                     /\ \/ exec'[r].start = exec[r].start
                        \/ exec[r].start # "pending" /\ exec'[r].start = "none"

\* The recovery does not turn to this Run.
RecoveryStays(r) ==
    /\ r \in recovering'.todo => r \in recovering.todo
    /\ recovering'.current = r => recovering.current = r

WorkerStays(r) == LaunchStays(r) /\ EntryStays(r) /\ RecoveryStays(r)

\* A worker that runs prompts, asks, pauses, fails to start or dies.
ExecutorStays(r) ==
    \/ Loads(r) \/ Opened(r) \/ StartFails(r)
    \/ \E outcome \in Outcomes : TurnEnds(r, outcome)
    \/ TurnPaused(r) \/ AsksPermission(r) \/ ProcessExits(r) \/ ReleaseFails(r)

\* What an activity relies on does not change behind its back.
Lasts(r) ==
    /\ Ended(r) => Ended(r)'
    /\ Gone(r) => Gone(r)'
    /\ Marked(r) => Marked(r)' \/ Gone(r)'

Keeps(s) == StartKnown(s)' /\ Lasts(s)

\* The steps that touch the worker of a Run otherwise than WorkerStays says.
Touches ==
    \/ \E d \in Delegations : Admit(d)
    \/ \E r \in Runs : \/ LaunchBegins(r) \/ LaunchRefused(r)
                       \/ Spawn(r) \/ PrepareFails(r) \/ ReleaseSucceeds(r)
    \/ RestoreBegins \/ RestoreEnds \/ Restart

\* How the row of a Run is settled although its worker may be there.
Fails(s) ==
    \/ LaunchRefused(s)
    \/ LaunchEnds(s) /\ exec[s].start = "failed"
    \/ RunNextEvent /\ NextEvent.run = s /\ NextEvent.kind = "failed"
    \/ CloseSettles /\ s \in Stoppable
    \/ RestoreEnds /\ s = recovering.current /\ exec[s].start = "unsupported"

-----------------------------------------------------------------------------
(* The entries, and what close() preserves *)

\* A launch that is over gave its result away, and one that there is not is not
\* marked; an entry has its result to come while it is being opened, and while
\* open() itself releases it; nobody asked through a session that is not open;
\* and an entry of activeRuns has a worker.
EntryTells(e, l, n) ==
    /\ l.step = "ended" => e.start = "none"
    /\ l.step = "none" => ~l.cancelled
    /\ l.step \in {"waiting", "started"} => l.held
    /\ e.phase \in {"preparing", "opening", "loading"} => e.start = "pending"
    /\ e.phase = "releasing" => e.why \in Outcomes \cup {"stop", "suspend", "startup"}
    /\ e.phase = "releasing" /\ e.why = "startup" => e.start = "pending"
    /\ e.phase \in {"absent", "preparing", "opening", "loading"} => e.pending = {} /\ e.asked = 0
    /\ e.pending \subseteq 1..e.asked
    /\ e.saved => e.start \in {"ok", "none"}
    /\ e.phase \notin {"absent", "preparing"} => n \in {"live", "exited", "disconnected"}

\* The entry, the launch and the worker of r agree.
EntryKnown(r) == EntryTells(exec[r], launch[r], native[r])

\* A launch that is not over stays in the map.
HeldStays(s) ==
    launch[s].held /\ launch[s].step \in {"waiting", "started"} => launch'[s].held

\* The worker of a Run is suspended: it is gone, the record says that it was
\* released, its start is not waited for as a failed one, and the directory is
\* there while the Run goes on.
Suspended(r) ==
    /\ Gone(r) /\ record[r] = "released" /\ exec[r].start \in {"ok", "none"}
    /\ Unfinished(r) => r \in dirs

\* close() waits for the release of a worker that can come back.
Suspending(r) ==
    exec[r].phase = "releasing" /\ exec[r].why = "suspend" /\ exec[r].start \in {"ok", "none"}

\* Preserved Runs are suspended, and so is the one close() waits for, or will be,
\* or its release failed.
PreservedKnown ==
    /\ \A r \in closing.preserved : Suspended(r)
    /\ \A r \in Runs : closing.current = r /\ closing.keeps =>
         Suspended(r) \/ Suspending(r) \/ exec[r].phase = "unreleased"

\* A release that goes on, and one that failed and is awaited, stay as they are
\* but for the result of the start.
ReleaseStays(s) ==
    /\ exec'[s].phase = exec[s].phase /\ exec'[s].why = exec[s].why
    /\ exec'[s].start \in {exec[s].start, "none"}

\* A worker is being released, or its release failed and the failure is awaited.
Releasing(s) == exec[s].phase = "releasing" \/ (exec[s].phase = "unreleased" /\ Awaited(s))

\* What the entries, the launches and close() know of each other.
EntryInvariant == (\A r \in Runs : EntryKnown(r)) /\ PreservedKnown

-----------------------------------------------------------------------------
(* What the queue does to a row *)

\* The row of a Run after the closure e has run.
After(e, x) ==
    IF x.completed THEN x ELSE
    CASE e.kind = "started" ->
           IF x.status = "enqueued" THEN [x EXCEPT !.status = "running"] ELSE x
      [] e.kind = "needs_user" ->
           IF x.status = "running"
           THEN [x EXCEPT !.status = "needs_user", !.permission = e.request] ELSE x
      [] e.kind = "restored" -> [x EXCEPT !.status = "interrupted", !.permission = None]
      [] e.kind = "completed" -> x
      [] e.kind = "failed" ->
           [x EXCEPT !.status = "failed", !.permission = None, !.completed = TRUE]
      [] e.kind \in {"cancel", "cancelled"} ->
           [x EXCEPT !.status = "cancelled", !.permission = None, !.completed = TRUE]
      [] e.kind = "interrupt" ->
           IF x.status \in {"running", "needs_user"}
           THEN [x EXCEPT !.status = "interrupted", !.permission = None] ELSE x
      [] e.kind = "resume" ->
           IF x.status = "interrupted"
           THEN [x EXCEPT !.status = "running", !.permission = None] ELSE x
      [] e.kind = "respond" ->
           IF x.status = "needs_user" /\ x.permission = e.request
           THEN [x EXCEPT !.status = "running", !.permission = None] ELSE x

\* Only the closures of s write its row.
Apply(e, s, x) == IF e.run = s THEN After(e, x) ELSE x

\* The queue es takes the row of s from x to y.
Replay(es, s, x, y) ==
    \E f \in [0..Len(es) -> Rows] :
        /\ f[0] = x /\ f[Len(es)] = y
        /\ \A i \in 1..Len(es) : f[i] = Apply(es[i], s, f[i - 1])

\* A closure of a control in the queue belongs to a control that waits for it,
\* and to no other closure.
ClosuresOwned ==
    /\ \A i \in 1..Len(events) : events[i].kind \in ControlEvents =>
         events[i].by \in Controls /\ ctl[events[i].by].step = "apply"
    /\ \A i, j \in 1..Len(events) :
         events[i].kind \in ControlEvents /\ events[j].kind \in ControlEvents /\ i # j
           => events[i].by # events[j].by

\* Only conversations that may be deleted are, a close() in progress is closed to
\* new work, and the Run that is being restored has no launch.
LifecycleKnown ==
    /\ deleting \subseteq Deletable
    /\ closing.step # "open" => closed
    /\ \A r \in Runs : recovering.current = r => launch[r].step = "none"
    /\ recovering.current \notin recovering.todo

-----------------------------------------------------------------------------
(* The Runs of conversations that nobody deletes *)

\* The queue moves on for other Runs.
QueueOfOthers(s) ==
    \/ UNCHANGED events
    \/ \E e \in QueuedEvents : e.run # s /\ events' = Append(events, e)
    \/ events # <<>> /\ Head(events).run # s /\ events' = Tail(events)

\* The row, the launch, the entry and the capture of s stay, and so do the controls
\* that end it.
Undisturbed(s) ==
    /\ row'[s] = row[s] /\ launch'[s] = launch[s] /\ exec'[s] = exec[s]
    /\ capture'[s] = capture[s]
    /\ \A c \in Controls : ctl[c].run = s /\ ctl[c].step \in {"stop", "join"} => ctl'[c] = ctl[c]
    /\ QueueOfOthers(s)

\* Which Run a step of a control is about.
Concerns(c, s) ==
    \/ InterruptBegins(c, s) \/ ResumeBegins(c, s) \/ RespondBegins(c, s) \/ CancelBegins(c, s)
    \/ /\ ctl[c].run = s
       /\ InterruptFails(c) \/ InterruptRejected(c) \/ CancelReleased(c) \/ CancelJoined(c)

\* A control waits for the worker of r to stop, or for its launch to end.
Cancelling(r) == \E c \in Controls : ctl[c].run = r /\ ctl[c].step \in {"stop", "join"}
\* A control stops the worker of r itself.
StopOwned(r) == \E c \in Controls : ctl[c].run = r /\ ctl[c].step = "stop"

\* A closure of r that ends it is in the queue.
Queued(r, kinds) == \E i \in 1..Len(events) : events[i].run = r /\ events[i].kind \in kinds
\* The closures that settle a Run.
Ending == Outcomes \cup {"cancel"}

\* While the service is open: a worker is not suspended, and one that is stopped
\* is stopped by a control; no capture is aborted; a launch is marked only by a
\* control that settles the Run; and when the worker is gone and its start did not
\* fail, what settles the Run is on its way.
KeptKnown(r) ==
    /\ exec[r].phase = "releasing" => exec[r].why # "suspend"
    /\ exec[r].phase = "releasing" /\ exec[r].why = "stop" => StopOwned(r)
    /\ capture[r] # "aborted"
    /\ exec[r].phase \in {"preparing", "opening", "loading", "turn", "interrupting", "paused"}
         => ~launch[r].cancelled
    /\ Unfinished(r) /\ launch[r].cancelled =>
         Queued(r, {"cancel"}) \/ (launch[r].held /\ Cancelling(r))
    /\ /\ Unfinished(r) /\ launch[r].step \in {"started", "ended"}
       /\ exec[r].phase = "absent" /\ exec[r].start \notin {"failed", "unsupported"}
       => capture[r] # "none" \/ Cancelling(r) \/ Queued(r, Ending)

\* What ends the Run stays on its way.
EndStays(s) ==
    /\ Cancelling(s) => Cancelling(s)'
    /\ StopOwned(s) => StopOwned(s)'
    /\ Queued(s, {"cancel"}) => Queued(s, {"cancel"})'
    /\ Queued(s, Ending) => Queued(s, Ending)'

\* Every step concerns the Run, or admits it, or leaves it alone.
Own(s) ==
    \/ RunStep(s) \/ ExecutorStep(s)
    \/ RunNextEvent /\ NextEvent.run = s
    \/ \E c \in Controls : Concerns(c, s)
    \/ RestoreBegins /\ s = First(recovering.todo)
    \/ RestoreEnds /\ s = recovering.current

\* It holds for every Run that nobody deletes, while the service is open.
RunsKnown == \A r \in Runs : Kept(r) /\ ~closed => KeptKnown(r)

\* What the row x of r says agrees with its launch and its worker.
Tells(r, x) ==
    \/ x.completed
    \/ /\ \/ launch[r].step = "waiting"
          \/ exec[r].phase \in {"preparing", "opening"} /\ ~exec[r].restoring
          => x.status = "enqueued"
       /\ exec[r].phase \in {"turn", "interrupting"} =>
            \/ x.status = "running" /\ (exec[r].pending = {} \/ exec[r].asked > 1)
            \/ x.status = "needs_user" /\ x.permission \in exec[r].pending
       /\ exec[r].phase = "paused" => x.status = "interrupted"

\* The row that the queue leads to agrees with the worker now.
RowFollows(r) == \E x \in Rows : Replay(events, r, row[r], x) /\ Tells(r, x)
\* It holds for every Run that nobody deletes, while the service is open.
RunsFollow == \A r \in Runs : Kept(r) /\ ~closed => RowFollows(r)

\* What is known of the Runs of conversations that nobody deletes.
KeptInvariant == ClosuresOwned /\ LifecycleKnown /\ RunsKnown /\ RunsFollow

-----------------------------------------------------------------------------
(* Settled Runs and deleted conversations *)

\* No worker is started for this Run before the Host starts again.
Over(r) ==
    /\ row[r].status # "absent" /\ launch[r].step # "waiting"
    /\ exec[r].phase # "preparing" /\ r \notin recovering.todo

\* The Runs that close() may settle are over, or their launches were; it finds no
\* launch under way when it drains.
ClosingKnown ==
    /\ closing.step # "open" => MayClose
    /\ \A r \in closing.lost \cup closing.owned : Over(r) \/ launch[r].step # "none"
    /\ closing.step = "drain" => \A r \in Runs : launch[r].step \notin {"waiting", "started"}

\* A start that failed, and was not taken yet, left no entry behind, unless a release
\* failed.
FailedStart(e) == e.start \in {"failed", "unsupported"}
FailedKnown == Clean => \A r \in Runs : FailedStart(exec[r]) => exec[r].phase = "absent"

\* No worker will be started for a settled Run, and none is left of it unless its
\* release failed or close() settled it.
SettledKnown ==
    \A r \in Runs : row[r].completed => Over(r) /\ (Clean => Gone(r))

\* Nothing of this Run is captured, delivered or controlled.
Still(r) == capture[r] = "none" /\ recon[r] = "none" /\ \A k \in Controls : ctl[k].run # r

\* The captures of the Runs of a conversation that is being deleted are awaited and
\* none begins; when the directories are removed, deliveries and controls are drained;
\* and Runs that are not there are still.
DeletionQuiet(c) ==
    LET d == deletion[c] IN
    /\ d.step = "captures" => \A r \in RunsOf(c) : capture[r] # "none" => r \in d.lost
    /\ d.step \in {"rows", "undo", "drain", "remove"} => \A r \in RunsOf(c) : capture[r] = "none"
    /\ d.step = "remove" => \A r \in RunsOf(c) : Still(r)
QuietKnown ==
    /\ \A c \in Conversations : DeletionQuiet(c)
    /\ \A r \in Runs : ~Exists(r) => Still(r)

\* What is known of the Runs that are settled and of those that are deleted.
QuietInvariant == ClosingKnown /\ FailedKnown /\ SettledKnown /\ QuietKnown
=============================================================================
