----------------------------- MODULE AcpExecutor -----------------------------
(***************************************************************************)
(* The ACP executor controller (executors/acp-executor.ts) as the Run      *)
(* service sees it: opening a worker, its prompt turn, permission          *)
(* requests, interruption, and the release of the worker, which any of     *)
(* settle, stop, suspend and a failed start may own.                       *)
(*                                                                         *)
(* native[r] is what really runs: "live" is a worker process, "exited" a   *)
(* process that ended while the tools it started are not known to have     *)
(* stopped, "released" a worker whose release was proven, "disconnected" a *)
(* process that a release could not end after it had dropped the session.  *)
(***************************************************************************)
EXTENDS RunState

outsideExecutor == <<tables, dirs, launch, capture, recon, admission, lifecycle, restarts>>

SetExec(r, e) == exec' = [exec EXCEPT ![r] = e]

\* AcpRunClient.recoveryState, for a Run that is in activeRuns; before the
\* session exists the transport proves nothing.
RecoveryState(r) ==
    IF ~Active(r) THEN "unknown"
    ELSE IF native[r] \in {"exited", "released"} THEN "confirmed_lost"
    ELSE IF \/ native[r] = "disconnected"
            \/ exec[r].phase = "opening" \/ exec[r].why = "startup" THEN "unknown"
    ELSE "attached"

\* AcpExecutorController.runtime: the actions this controller can take now.
\* An "unreleased" client has been asked to shut down, so only cancel is left;
\* after a failed start the entry keeps the rejected release promise.
RuntimeActions(r) ==
    IF \/ RecoveryState(r) # "attached"
       \/ exec[r].settled
       \/ exec[r].phase = "releasing"
    THEN {}
    ELSE {"cancel"} \cup
         IF exec[r].phase = "unreleased" THEN {}
         ELSE IF exec[r].pending # {} THEN {"respondPermission"}
         ELSE CASE exec[r].phase = "paused" -> {"resume"}
                [] exec[r].phase = "turn" -> {"interrupt"}
                [] OTHER -> {}

\* Those who await a release continue in the microtasks that follow it, before
\* the executor can begin another one for the same Run.
Awaited(r) ==
    \/ \E c \in Controls : ctl[c].step = "stop" /\ ctl[c].run = r
    \/ closing.current = r
    \/ \E c \in Conversations : deletion[c].current = r
ReleaseObserved(r) == exec[r].phase = "unreleased" => ~Awaited(r)

---------------------------------------------------------------------------
(* Opening a worker: open() *)

\* The entry that launch() and restore() create before prepareLaunch.
Preparing(restoring) ==
    [AbsentExec EXCEPT !.phase = "preparing", !.start = "pending", !.restoring = restoring]

\* prepareLaunch returned: the Run enters activeRuns and the process is spawned.
Spawn(r) ==
    /\ exec[r].phase = "preparing"
    /\ SetExec(r, [exec[r] EXCEPT !.phase = "opening"])
    /\ native' = [native EXCEPT ![r] = "live"]
    /\ UNCHANGED <<outsideExecutor, record, events, ctl, releaseFailures>>

\* prepareLaunch rejected: nothing was spawned.
PrepareFails(r) ==
    /\ exec[r].phase = "preparing"
    /\ SetExec(r, [AbsentExec EXCEPT !.start = "failed", !.restoring = exec[r].restoring])
    /\ UNCHANGED <<outsideExecutor, native, record, events, ctl, releaseFailures>>

\* A restored worker is asked to load its session, which the client then owns.
Loads(r) ==
    /\ exec[r].phase = "opening" /\ exec[r].restoring
    /\ native[r] = "live"
    /\ SetExec(r, [exec[r] EXCEPT !.phase = "loading"])
    /\ UNCHANGED <<outsideExecutor, native, record, events, ctl, releaseFailures>>

\* client.start resolved.  A worker that can reload its session leaves a
\* recovery record; a restored one can, or it would not have been restored.
Opened(r) ==
    /\ exec[r].phase = IF exec[r].restoring THEN "loading" ELSE "opening"
    /\ native[r] = "live"
    /\ \E saved \in BOOLEAN :
        /\ exec[r].restoring => saved
        /\ record' = IF saved THEN [record EXCEPT ![r] = "held"] ELSE record
        /\ SetExec(r, [exec[r] EXCEPT !.saved = saved, !.start = "ok",
                           !.turn = ~exec[r].restoring,
                           !.phase = IF exec[r].restoring THEN "paused" ELSE "turn"])
    /\ events' = Emitted(IF exec[r].restoring THEN "restored" ELSE "started", r, None)
    /\ UNCHANGED <<outsideExecutor, native, ctl, releaseFailures>>

\* client.start rejected: open() releases the worker before it rethrows.
StartFails(r) ==
    /\ exec[r].phase \in {"opening", "loading"}
    /\ SetExec(r, [exec[r] EXCEPT !.phase = "releasing", !.why = "startup"])
    /\ UNCHANGED <<outsideExecutor, native, record, events, ctl, releaseFailures>>

---------------------------------------------------------------------------
(* The prompt turn: runPrompt(), handlePermissionRequest(), settle() *)

\* settle(): the first outcome wins and the worker is released before it is emitted.
Settling(r, outcome) ==
    [exec[r] EXCEPT !.phase = "releasing", !.why = outcome, !.settled = TRUE]

\* Seeded fault: the outcome is reported before the worker is released.
TurnEndsAtOnce(r, outcome) ==
    /\ exec[r].phase \in {"turn", "interrupting"}
    /\ SetExec(r, [Settling(r, outcome) EXCEPT !.why = "stop"])
    /\ events' = Emitted(outcome, r, None)
    /\ UNCHANGED <<outsideExecutor, native, record, ctl, releaseFailures>>

\* The prompt ended.  A cancelled turn that nobody interrupted is the worker's own.
TurnEnds(r, outcome) ==
    /\ \/ exec[r].phase \in {"turn", "interrupting"}
       \/ exec[r].phase = "unreleased" /\ exec[r].turn /\ ~exec[r].settled
    /\ outcome = "cancelled" => exec[r].phase # "interrupting"
    /\ ReleaseObserved(r)
    /\ SetExec(r, Settling(r, outcome))
    /\ UNCHANGED <<outsideExecutor, native, record, events, ctl, releaseFailures>>

\* The turn stopped because of an interrupt: process and session stay.  The
\* control that asked for it continues and queues its row update.
TurnPaused(r) ==
    /\ exec[r].phase = "interrupting"
    /\ SetExec(r, [exec[r] EXCEPT !.phase = "paused", !.turn = FALSE])
    /\ \E c \in Controls :
        /\ ctl[c].step = "turn" /\ ctl[c].run = r
        /\ ctl' = [ctl EXCEPT ![c].step = "apply"]
        /\ events' = Append(events, Event("interrupt", r, None, c))
    /\ UNCHANGED <<outsideExecutor, native, record, releaseFailures>>

\* The worker asks for a permission.  It may cross an interrupt on the wire.
AsksPermission(r) ==
    /\ exec[r].phase \in {"turn", "interrupting"}
    /\ exec[r].asked < MaxPermissions
    /\ LET request == exec[r].asked + 1 IN
        /\ SetExec(r, [exec[r] EXCEPT !.asked = request, !.pending = @ \cup {request}])
        /\ events' = Emitted("needs_user", r, request)
    /\ UNCHANGED <<outsideExecutor, native, record, ctl, releaseFailures>>

\* The process ended by itself: handleProcessExit settles a Run nobody is releasing.
ProcessExits(r) ==
    /\ Active(r) /\ native[r] \in {"live", "disconnected"}
    /\ ReleaseObserved(r)
    /\ native' = [native EXCEPT ![r] = "exited"]
    /\ IF exec[r].settled \/ exec[r].phase = "releasing" \/ exec[r].why = "startup"
       THEN UNCHANGED exec
       ELSE SetExec(r, Settling(r, "failed"))
    /\ UNCHANGED <<outsideExecutor, record, events, ctl, releaseFailures>>

---------------------------------------------------------------------------
(* Releasing a worker: release(), stop(), suspend() *)

\* What stop(r) does at once.  A pending release is joined; after a failed
\* start the rejected promise is awaited, fails, and is forgotten.
StopJoins(r) == exec[r].phase \in {"absent", "preparing", "releasing"}
StopRejects(r) == exec[r].phase = "unreleased" /\ exec[r].why = "startup"
Stopping(r) ==
    CASE StopJoins(r) -> exec[r]
      [] StopRejects(r) -> [exec[r] EXCEPT !.why = None]
      [] OTHER -> [exec[r] EXCEPT !.phase = "releasing", !.why = "stop"]

\* suspend() preserves a Run that saved its session and has no outcome.
Suspends(r) ==
    exec[r].saved /\ ~exec[r].settled /\ exec[r].phase # "releasing" /\ exec[r].why # "startup"

\* A start that a release cut short may have resolved just before it.
StartAfterRelease(r) ==
    IF exec[r].start # "pending" THEN {exec[r].start}
    ELSE IF exec[r].why = "startup" THEN {"failed"}
    ELSE {"ok", "failed"}

\* A restored worker may turn out to be unable to load its session.
Unsupported(r) ==
    IF exec[r].why = "startup" /\ exec[r].restoring THEN {"unsupported"} ELSE {}

\* The release succeeded: its owner removes the entry, and then settle emits
\* the outcome and suspend records that the session was given up.
ReleaseSucceeds(r) ==
    /\ exec[r].phase = "releasing"
    /\ native' = [native EXCEPT ![r] = "released"]
    /\ \E start \in StartAfterRelease(r) \cup Unsupported(r) :
        SetExec(r, [AbsentExec EXCEPT !.start = start, !.restoring = exec[r].restoring])
    /\ events' = IF exec[r].why \in Outcomes THEN Emitted(exec[r].why, r, None) ELSE events
    /\ record' = IF exec[r].why = "suspend" THEN [record EXCEPT ![r] = "released"] ELSE record
    /\ UNCHANGED <<outsideExecutor, ctl, releaseFailures>>

\* The release failed: the entry stays.  settle reports a failure in place of
\* the outcome; only open() keeps the rejected promise.  A prompt that is still
\* pending may have ended meanwhile, which nobody noticed, or end later.
ReleaseFails(r) ==
    /\ exec[r].phase = "releasing"
    /\ releaseFailures < MaxReleaseFailures
    /\ releaseFailures' = releaseFailures + 1
    /\ native' \in {native} \cup {[native EXCEPT ![r] = IF @ = "live" THEN "disconnected" ELSE @]}
    /\ \E start \in StartAfterRelease(r) :
      \E turn \in {FALSE, exec[r].turn /\ ~exec[r].settled} :
        SetExec(r, [exec[r] EXCEPT !.phase = "unreleased", !.start = start, !.turn = turn,
                        !.why = IF @ = "startup" THEN @ ELSE None])
    /\ events' = IF exec[r].why \in Outcomes THEN Emitted("failed", r, None) ELSE events
    /\ UNCHANGED <<outsideExecutor, record, ctl>>

ExecutorStep(r) ==
    \/ Spawn(r) \/ PrepareFails(r) \/ Loads(r) \/ Opened(r) \/ StartFails(r)
    \/ \E outcome \in Outcomes : TurnEnds(r, outcome)
    \/ TurnPaused(r) \/ AsksPermission(r) \/ ProcessExits(r)
    \/ ReleaseSucceeds(r) \/ ReleaseFails(r)
=============================================================================
