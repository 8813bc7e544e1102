------------------------- MODULE RunServiceProofs -------------------------
(***************************************************************************)
(* Theorems about RunService, for every number of Runs, tool calls,        *)
(* conversations, controls, restarts and failures: what the operators      *)
(* return, type correctness, the table, the workers, the entries, close(), *)
(* how a row follows its worker with the queue replayed, and what is       *)
(* settled or deleted.                                                     *)
(*                                                                         *)
(* The inductive invariants are in RunServiceInvariants. Each part has one *)
(* lemma per group of actions.                                             *)
(***************************************************************************)
EXTENDS RunServiceInvariants, FiniteSetTheorems, SequenceTheorems, TLAPS

--------------------
(* The operators *)

\* A nonempty set of naturals has a least element (well-foundedness of <).
LEMMA LeastNatural ==
    ASSUME NEW S \in SUBSET Nat, S # {}
    PROVE  \E m \in S : \A n \in S : m <= n
  <1> DEFINE R == {p \in Nat \X Nat : p[1] < p[2]}
  <1>1. IsWellFoundedOn(R, Nat)
    BY NatLessThanWellFounded DEF OpToRel
  <1>2. \A x, y \in Nat : <<y, x>> \in R <=> y < x
    OBVIOUS
  <1> HIDE DEF R
  <1>3. PICK x \in S : \A y \in S : ~(<<y, x>> \in R)
    BY <1>1, WFMin
  <1>4. ASSUME NEW y \in S PROVE x <= y
    <2>1. x \in Nat /\ y \in Nat
      OBVIOUS
    <2>2. ~(y < x)
      BY <1>2, <1>3, <2>1
    <2> QED BY <2>1, <2>2
  <1> QED BY <1>4

\* The loops over Runs in row order take their next Run from the set they go through.
LEMMA FirstIsMember ==
    ASSUME NEW S \in SUBSET Runs, S # {}
    PROVE  First(S) \in S /\ First(S) \in Runs
  <1>1. S \in SUBSET Nat
    BY RunStateAssumption DEF Runs
  <1>2. \E r \in S : \A s \in S : r <= s
    BY <1>1, LeastNatural
  <1> QED BY <1>2 DEF First

\* The absent value is no Run, tool call or control.
LEMMA NoneIsNoRun == None \notin Runs /\ None \notin Calls /\ None \notin Controls
  BY RunStateAssumption DEF Runs

\* Writing an entry of activeRuns keeps the type of the executor's state.
LEMMA SetExecType ==
    ASSUME exec \in [Runs -> Entries], NEW r, NEW e \in Entries, SetExec(r, e)
    PROVE  exec' \in [Runs -> Entries]
  BY DEF SetExec

\* An event of the executor joins the queue with its Run and its request.
LEMMA EmittedType ==
    ASSUME events \in Seq(QueuedEvents),
           NEW kind \in ExecutorEvents, NEW r \in Runs, NEW request \in Permissions \cup {None}
    PROVE  Emitted(kind, r, request) \in Seq(QueuedEvents)
  <1>1. Event(kind, r, request, None) \in QueuedEvents
    BY DEF Event, QueuedEvents
  <1> QED BY <1>1 DEF Emitted

\* The second closure of a control joins the queue with its Run and its control.
LEMMA QueuedControlType ==
    ASSUME events \in Seq(QueuedEvents), NEW kind \in ControlEvents, NEW r \in Runs,
           NEW request \in Permissions \cup {None}, NEW c \in Controls
    PROVE  Append(events, Event(kind, r, request, c)) \in Seq(QueuedEvents)
  <1>1. Event(kind, r, request, c) \in QueuedEvents
    BY DEF Event, QueuedEvents
  <1> QED BY <1>1

\* The entry of a Run the executor does not know is an entry.
LEMMA AbsentEntryType == AbsentExec \in Entries
  BY RunStateAssumption DEF AbsentExec, Entries, Phases

\* launch() and restore() begin with an entry.
LEMMA PreparingType ==
    ASSUME NEW restoring \in BOOLEAN
    PROVE  Preparing(restoring) \in Entries
  <1>1. \A e \in Entries : [e EXCEPT !.phase = "preparing", !.start = "pending",
                                     !.restoring = restoring] \in Entries
    BY DEF Entries, Phases
  <1> QED BY <1>1, AbsentEntryType DEF Preparing

\* stop() leaves an entry.
LEMMA StoppingType ==
    ASSUME exec \in [Runs -> Entries], NEW r \in Runs
    PROVE  Stopping(r) \in Entries
  <1>1. exec[r] \in Entries
    OBVIOUS
  <1>2. \A e \in Entries : /\ [e EXCEPT !.why = None] \in Entries
                           /\ [e EXCEPT !.phase = "releasing", !.why = "stop"] \in Entries
    BY DEF Entries, Phases
  <1> QED BY <1>1, <1>2 DEF Stopping

\* settle() leaves an entry.
LEMMA SettlingType ==
    ASSUME exec \in [Runs -> Entries], NEW r \in Runs, NEW outcome \in Outcomes
    PROVE  Settling(r, outcome) \in Entries
  <1>1. \A e \in Entries :
          [e EXCEPT !.phase = "releasing", !.why = outcome, !.settled = TRUE] \in Entries
    BY DEF Entries, Phases
  <1> QED BY <1>1 DEF Settling

\* reconcileRun() only begins delivery attempts.
LEMMA ReconcilingType ==
    ASSUME TypeOK, NEW r \in Runs
    PROVE  Reconciling(r) \in [Runs -> {"none", "pending", "aborted"}]
  BY DEF TypeOK, Reconciling

\* Settling a Run keeps the type of the table.
LEMMA SettledType ==
    ASSUME row \in [Runs -> Rows], NEW r, NEW status \in TerminalStatuses
    PROVE  Settled(r, status) \in [Runs -> Rows]
  BY DEF Settled, Rows, Statuses

\* An event or a control writes a status and a request the table allows.
LEMMA SetRowType ==
    ASSUME row \in [Runs -> Rows], NEW r, NEW status \in Statuses,
           NEW permission \in Permissions \cup {None}, SetRow(r, status, permission)
    PROVE  row' \in [Runs -> Rows]
  BY DEF SetRow, Rows

\* terminate() keeps the types of the table and of the delivery attempts.
LEMMA TerminateType ==
    ASSUME TypeOK, NEW r \in Runs, NEW status \in TerminalStatuses, Terminate(r, status)
    PROVE  /\ row' \in [Runs -> Rows]
           /\ recon' \in [Runs -> {"none", "pending", "aborted"}]
  BY SettledType, ReconcilingType DEF Terminate, TypeOK

\* recordStopped() keeps the type of the table.
LEMMA RecordStoppedType ==
    ASSUME row \in [Runs -> Rows], NEW r
    PROVE  RecordStopped(r) \in [Runs -> Rows]
  BY SettledType DEF RecordStopped, TerminalStatuses

\* A control that is at work has a Run, and an idle one has none.
LEMMA StepType ==
    ASSUME ctl \in [Controls -> ControlTasks], NEW c, NEW step, NEW r,
           \/ step \in {"turn", "stop", "join", "apply"} /\ r \in Runs
           \/ step = "idle" /\ r = None,
           Step(c, step, r)
    PROVE  ctl' \in [Controls -> ControlTasks]
  <1>1. [step |-> step, run |-> r] \in ControlTasks
    BY NoneIsNoRun DEF ControlTasks
  <1> QED BY <1>1 DEF Step

\* A control that is at work names one of the Runs.
LEMMA ControlledRun ==
    ASSUME TypeOK, NEW c \in Controls, ctl[c].step # "idle"
    PROVE  ctl[c].run \in Runs
  BY DEF TypeOK, ControlTasks

\* Aborting captures or deliveries keeps their type.
LEMMA AbortType ==
    ASSUME NEW T, "aborted" \in T, NEW f \in [Runs -> T], NEW S
    PROVE  Abort(f, S) \in [Runs -> T]
  BY DEF Abort

--------------------
(* Type correctness: the executor *)

\* Every step of the executor and of its worker keeps every variable's type.
LEMMA ExecutorType ==
    ASSUME TypeOK, NEW r \in Runs, ExecutorStep(r)
    PROVE  TypeOK'
  <1> USE DEF outsideExecutor, tables, lifecycle
  <1>e. exec[r] \in Entries
    BY DEF TypeOK
  <1>1. CASE Spawn(r)
    <2>1. \A e \in Entries : [e EXCEPT !.phase = "opening"] \in Entries
      BY DEF Entries, Phases
    <2>2. exec' \in [Runs -> Entries]
      BY <1>1, <1>e, <2>1, SetExecType DEF TypeOK, Spawn
    <2> QED BY <1>1, <2>2 DEF TypeOK, Spawn
  <1>2. CASE PrepareFails(r)
    <2>1. \A e \in Entries : [AbsentExec EXCEPT !.start = "failed", !.restoring = e.restoring] \in Entries
      BY AbsentEntryType DEF Entries
    <2>2. exec' \in [Runs -> Entries]
      BY <1>2, <1>e, <2>1, SetExecType DEF TypeOK, PrepareFails
    <2> QED BY <1>2, <2>2 DEF TypeOK, PrepareFails
  <1>3. CASE Loads(r)
    <2>1. \A e \in Entries : [e EXCEPT !.phase = "loading"] \in Entries
      BY DEF Entries, Phases
    <2>2. exec' \in [Runs -> Entries]
      BY <1>3, <1>e, <2>1, SetExecType DEF TypeOK, Loads
    <2> QED BY <1>3, <2>2 DEF TypeOK, Loads
  <1>4. CASE Opened(r)
    <2>1. PICK saved \in BOOLEAN :
            /\ record' = IF saved THEN [record EXCEPT ![r] = "held"] ELSE record
            /\ SetExec(r, [exec[r] EXCEPT !.saved = saved, !.start = "ok",
                             !.turn = ~exec[r].restoring,
                             !.phase = IF exec[r].restoring THEN "paused" ELSE "turn"])
      BY <1>4 DEF Opened
    <2>2. \A e \in Entries : [e EXCEPT !.saved = saved, !.start = "ok", !.turn = ~e.restoring,
                                !.phase = IF e.restoring THEN "paused" ELSE "turn"] \in Entries
      BY DEF Entries, Phases
    <2>3. exec' \in [Runs -> Entries]
      BY <1>e, <2>1, <2>2, SetExecType DEF TypeOK
    <2>4. record' \in [Runs -> {"none", "held", "released"}]
      BY <2>1 DEF TypeOK
    <2>5. events' \in Seq(QueuedEvents)
      BY <1>4, EmittedType DEF Opened, ExecutorEvents, TypeOK
    <2> QED BY <1>4, <2>3, <2>4, <2>5 DEF TypeOK, Opened
  <1>5. CASE StartFails(r)
    <2>1. \A e \in Entries : [e EXCEPT !.phase = "releasing", !.why = "startup"] \in Entries
      BY DEF Entries, Phases
    <2>2. exec' \in [Runs -> Entries]
      BY <1>5, <1>e, <2>1, SetExecType DEF TypeOK, StartFails
    <2> QED BY <1>5, <2>2 DEF TypeOK, StartFails
  <1>6. ASSUME NEW outcome \in Outcomes, TurnEnds(r, outcome) PROVE TypeOK'
    <2>1. exec' \in [Runs -> Entries]
      BY <1>6, SettlingType, SetExecType DEF TypeOK, TurnEnds
    <2> QED BY <1>6, <2>1 DEF TypeOK, TurnEnds
  <1>7. CASE TurnPaused(r)
    <2>1. \A e \in Entries : [e EXCEPT !.phase = "paused", !.turn = FALSE] \in Entries
      BY DEF Entries, Phases
    <2>2. exec' \in [Runs -> Entries]
      BY <1>7, <1>e, <2>1, SetExecType DEF TypeOK, TurnPaused
    <2>3. PICK c \in Controls :
            /\ ctl[c].step = "turn" /\ ctl[c].run = r
            /\ ctl' = [ctl EXCEPT ![c].step = "apply"]
            /\ events' = Append(events, Event("interrupt", r, None, c))
      BY <1>7 DEF TurnPaused
    <2>4. [ctl[c] EXCEPT !.step = "apply"] \in ControlTasks
      BY <2>3, NoneIsNoRun DEF TypeOK, ControlTasks
    <2>5. ctl' \in [Controls -> ControlTasks]
      BY <2>3, <2>4 DEF TypeOK
    <2>6. events' \in Seq(QueuedEvents)
      BY <2>3, QueuedControlType DEF ControlEvents, TypeOK
    <2> QED BY <1>7, <2>2, <2>5, <2>6 DEF TypeOK, TurnPaused
  <1>8. CASE AsksPermission(r)
    <2> DEFINE request == exec[r].asked + 1
    <2>1. request \in Permissions
      BY <1>8, <1>e, RunStateAssumption DEF AsksPermission, Entries, Permissions
    <2>2. \A e \in Entries : \A n \in 0..MaxPermissions : \A P \in SUBSET Permissions :
            [e EXCEPT !.asked = n, !.pending = P] \in Entries
      BY DEF Entries
    <2>a. /\ exec[r].pending \cup {request} \in SUBSET Permissions
          /\ request \in 0..MaxPermissions
      BY <1>e, <2>1, RunStateAssumption DEF Entries, Permissions
    <2>b. [exec[r] EXCEPT !.asked = request, !.pending = @ \cup {request}] \in Entries
      BY <1>e, <2>2, <2>a
    <2>3. exec' \in [Runs -> Entries]
      BY <1>8, <2>b, SetExecType DEF TypeOK, AsksPermission
    <2>4. events' \in Seq(QueuedEvents)
      BY <1>8, <2>1, EmittedType DEF AsksPermission, ExecutorEvents, TypeOK
    <2> QED BY <1>8, <2>3, <2>4 DEF TypeOK, AsksPermission
  <1>9. CASE ProcessExits(r)
    <2>1. exec' \in [Runs -> Entries]
      BY <1>9, SettlingType, SetExecType DEF TypeOK, ProcessExits, Outcomes
    <2> QED BY <1>9, <2>1 DEF TypeOK, ProcessExits
  <1>10. CASE ReleaseSucceeds(r)
    <2>1. PICK start \in StartAfterRelease(r) \cup Unsupported(r) :
            SetExec(r, [AbsentExec EXCEPT !.start = start, !.restoring = exec[r].restoring])
      BY <1>10 DEF ReleaseSucceeds
    <2>2. start \in {"none", "pending", "ok", "failed", "unsupported"}
      BY <1>e, <2>1 DEF Entries, StartAfterRelease, Unsupported
    <2>3. \A e \in Entries : [AbsentExec EXCEPT !.start = start, !.restoring = e.restoring] \in Entries
      BY <2>2, AbsentEntryType DEF Entries
    <2>4. exec' \in [Runs -> Entries]
      BY <1>e, <2>1, <2>3, SetExecType DEF TypeOK
    <2>5. events' \in Seq(QueuedEvents)
      BY <1>10, EmittedType DEF ReleaseSucceeds, ExecutorEvents, TypeOK
    <2>6. record' \in [Runs -> {"none", "held", "released"}]
      BY <1>10 DEF ReleaseSucceeds, TypeOK
    <2> QED BY <1>10, <2>4, <2>5, <2>6 DEF TypeOK, ReleaseSucceeds
  <1>11. CASE ReleaseFails(r)
    <2>1. PICK start \in StartAfterRelease(r), turn \in {FALSE, exec[r].turn /\ ~exec[r].settled} :
            SetExec(r, [exec[r] EXCEPT !.phase = "unreleased", !.start = start, !.turn = turn,
                            !.why = IF @ = "startup" THEN @ ELSE None])
      BY <1>11 DEF ReleaseFails
    <2>2. start \in {"none", "pending", "ok", "failed", "unsupported"} /\ turn \in BOOLEAN
      BY <1>e, <2>1 DEF Entries, StartAfterRelease
    <2>3. \A e \in Entries : \A w \in Outcomes \cup {"stop", "suspend", "startup", None} :
            [e EXCEPT !.phase = "unreleased", !.start = start, !.turn = turn, !.why = w] \in Entries
      BY <2>2 DEF Entries, Phases
    <2>4. [exec[r] EXCEPT !.phase = "unreleased", !.start = start, !.turn = turn,
                          !.why = IF @ = "startup" THEN @ ELSE None] \in Entries
      BY <1>e, <2>3
    <2>5. exec' \in [Runs -> Entries]
      BY <2>1, <2>4, SetExecType DEF TypeOK
    <2>6. events' \in Seq(QueuedEvents)
      BY <1>11, EmittedType DEF ReleaseFails, ExecutorEvents, TypeOK, Outcomes
    <2>7. releaseFailures' \in 0..MaxReleaseFailures
      BY <1>11, RunStateAssumption DEF TypeOK, ReleaseFails
    <2>8. native' \in [Runs -> {"none", "live", "exited", "disconnected", "released"}]
      BY <1>11 DEF TypeOK, ReleaseFails
    <2> QED BY <1>11, <2>5, <2>6, <2>7, <2>8 DEF TypeOK, ReleaseFails
  <1> QED BY <1>1, <1>2, <1>3, <1>4, <1>5, <1>6, <1>7, <1>8, <1>9, <1>10, <1>11 DEF ExecutorStep

--------------------
(* Type correctness: admission, launch and the queue *)

\* delegate() and admit() keep every variable's type.
LEMMA AdmissionType ==
    ASSUME TypeOK,
           NEW d \in Delegations,
           (\E q \in Calls : Delegate(d, q)) \/ Admit(d) \/ AdmissionRefused(d)
    PROVE  TypeOK'
  <1> USE DEF tables, files, executor, tasks, lifecycle, bounds
  <1>1. ASSUME NEW q \in Calls, Delegate(d, q) PROVE TypeOK'
    BY <1>1 DEF TypeOK, Delegate
  <1>2. ASSUME AdmissionSettles(d)
        PROVE  /\ admission' \in [Delegations -> Calls \cup {None}]
               /\ deletion' \in [Conversations -> DeletionTasks]
               /\ UNCHANGED <<ctl, closed, deleting, closing, recovering>>
    <2>1. \A x \in DeletionTasks : [x EXCEPT !.waits = @ \ {d}] \in DeletionTasks
      BY DEF DeletionTasks
    <2> QED BY <1>2, <2>1 DEF TypeOK, AdmissionSettles
  <1>3. CASE Admit(d)
    <2> DEFINE q == admission[d]
               fresh == {r \in Runs : row[r].status = "absent"}
    <2>1. q \in Calls /\ First(fresh) \in Runs
      BY <1>3, FirstIsMember DEF Admit, TypeOK
    <2>2. [AbsentRow EXCEPT !.status = "enqueued", !.call = q] \in Rows
      BY <2>1 DEF AbsentRow, Rows, Statuses, ResourceStatuses
    <2>3. row' \in [Runs -> Rows]
      BY <1>3, <2>1, <2>2 DEF Admit, TypeOK
    <2>4. launch' \in [Runs -> Launches]
      BY <1>3, <2>1 DEF Admit, TypeOK, Launches
    <2> QED BY <1>2, <1>3, <2>3, <2>4 DEF TypeOK, Admit
  <1>4. CASE AdmissionRefused(d)
    BY <1>2, <1>4 DEF TypeOK, AdmissionRefused
  <1> QED BY <1>1, <1>3, <1>4

\* Launches, captures and delivery attempts keep every variable's type.
LEMMA RunStepType ==
    ASSUME TypeOK, NEW r \in Runs, RunStep(r)
    PROVE  TypeOK'
  <1> USE DEF tables, files, executor, tasks, invocations, lifecycle, bounds
  <1>e. exec[r] \in Entries /\ launch[r] \in Launches
    BY DEF TypeOK
  <1>l. \A l \in Launches : /\ [l EXCEPT !.step = "skipped", !.cancelled = TRUE] \in Launches
                            /\ [l EXCEPT !.step = "skipped", !.held = FALSE] \in Launches
                            /\ [l EXCEPT !.step = "started"] \in Launches
                            /\ \A b \in BOOLEAN : [l EXCEPT !.step = "ended", !.held = b] \in Launches
    BY DEF Launches
  <1>1. CASE LaunchBegins(r)
    <2>1. launch' \in [Runs -> Launches]
      <3>1. \E l \in Launches : launch' = [launch EXCEPT ![r] = l]
        BY <1>1, <1>e, <1>l DEF LaunchBegins
      <3> QED BY <3>1 DEF TypeOK
    <2>2. exec' \in [Runs -> Entries]
      BY <1>1, PreparingType, SetExecType DEF LaunchBegins, TypeOK
    <2>3. dirs' \subseteq Runs
      BY <1>1 DEF LaunchBegins, TypeOK
    <2> QED BY <1>1, <2>1, <2>2, <2>3 DEF LaunchBegins, TypeOK
  <1>2. CASE LaunchRefused(r)
    <2>1. launch' \in [Runs -> Launches]
      BY <1>2, <1>l DEF LaunchRefused, TypeOK
    <2>2. /\ row' \in [Runs -> Rows]
          /\ recon' \in [Runs -> {"none", "pending", "aborted"}]
      BY <1>2, TerminateType DEF LaunchRefused, TerminalStatuses
    <2> QED BY <1>2, <2>1, <2>2 DEF LaunchRefused, TypeOK
  <1>3. CASE LaunchEnds(r)
    <2>1. launch' \in [Runs -> Launches]
      <3>1. (launch[r].held /\ launch[r].cancelled) \in BOOLEAN
        BY <1>e DEF Launches
      <3>2. \E l \in Launches : launch' = [launch EXCEPT ![r] = l]
        BY <1>3, <1>e, <1>l, <3>1 DEF LaunchEnds
      <3> QED BY <3>2 DEF TypeOK
    <2>2. \A e \in Entries : [e EXCEPT !.start = "none"] \in Entries
      BY DEF Entries
    <2>3. exec' \in [Runs -> Entries]
      BY <1>3, <1>e, <2>2, SetExecType DEF LaunchEnds, TypeOK
    <2>4. /\ row' \in [Runs -> Rows]
          /\ recon' \in [Runs -> {"none", "pending", "aborted"}]
      BY <1>3, TerminateType DEF LaunchEnds, TerminalStatuses, TypeOK
    <2> QED BY <1>3, <2>1, <2>3, <2>4 DEF LaunchEnds, TypeOK
  <1>4. ASSUME NEW status \in {"completed", "failed"}, CaptureEnds(r, status) PROVE TypeOK'
    <2>1. /\ row' \in [Runs -> Rows]
          /\ recon' \in [Runs -> {"none", "pending", "aborted"}]
      BY <1>4, TerminateType DEF CaptureEnds, TerminalStatuses, TypeOK
    <2> QED BY <1>4, <2>1 DEF CaptureEnds, TypeOK
  <1>5. ASSUME NEW acknowledged \in BOOLEAN, AttemptEnds(r, acknowledged) PROVE TypeOK'
    <2>1. \A x \in Rows : [x EXCEPT !.reported = TRUE] \in Rows
      BY DEF Rows
    <2>2. row \in [Runs -> Rows] /\ row[r] \in Rows
      BY DEF TypeOK
    <2>3. row' = row \/ row' = [row EXCEPT ![r] = [row[r] EXCEPT !.reported = TRUE]]
      BY <1>5, <2>2 DEF AttemptEnds
    <2>4. row' \in [Runs -> Rows]
      BY <2>1, <2>2, <2>3
    <2> QED BY <1>5, <2>4 DEF AttemptEnds, TypeOK
  <1>6. CASE RetryDelivery(r)
    BY <1>6, ReconcilingType DEF RetryDelivery, TypeOK
  <1> QED BY <1>1, <1>2, <1>3, <1>4, <1>5, <1>6 DEF RunStep

\* The closures of the serial queue keep every variable's type.
LEMMA QueueType ==
    ASSUME TypeOK, RunNextEvent
    PROVE  TypeOK'
  <1> USE DEF files, executor, lifecycle, bounds
  <1> DEFINE e == NextEvent
  <1>1. e \in QueuedEvents /\ events' \in Seq(QueuedEvents)
    BY DEF RunNextEvent, NextEvent, TypeOK
  <1>2. e.run \in Runs /\ e.request \in Permissions \cup {None}
    BY <1>1 DEF QueuedEvents
  <1>3. row[e.run] \in Rows
    BY <1>2 DEF TypeOK
  <1>4. CASE e.kind \in ExecutorEvents
    <2>1. ApplyExecutorEvent(e) /\ UNCHANGED ctl
      BY <1>4 DEF RunNextEvent
    <2>2. /\ row' \in [Runs -> Rows]
          /\ recon' \in [Runs -> {"none", "pending", "aborted"}]
          /\ capture' \in [Runs -> {"none", "copying", "aborted"}]
      <3>1. CASE e.kind = "started" /\ Starts(e.run) /\ UNCHANGED <<recon, capture>>
        BY <1>2, <1>3, <3>1, SetRowType DEF Starts, TypeOK, Rows, Statuses, ResourceStatuses
      <3>2. CASE e.kind = "needs_user" /\ NeedsUser(e.run, e.request) /\ UNCHANGED <<recon, capture>>
        BY <1>2, <3>2, SetRowType DEF NeedsUser, TypeOK, Statuses, ResourceStatuses
      <3>3. CASE SetRow(e.run, "interrupted", None) /\ UNCHANGED <<recon, capture>>
        BY <1>2, <3>3, SetRowType DEF TypeOK, Statuses, ResourceStatuses
      <3>4. CASE Completes(e.run)
        BY <1>2, <3>4, TerminateType DEF Completes, TypeOK, TerminalStatuses
      <3>5. CASE e.kind \in {"failed", "cancelled"} /\ Terminate(e.run, e.kind) /\ UNCHANGED capture
        BY <1>2, <3>5, TerminateType DEF TypeOK, TerminalStatuses
      <3> QED BY <2>1, <3>1, <3>2, <3>3, <3>4, <3>5 DEF ApplyExecutorEvent, TypeOK
    <2> QED BY <1>1, <2>1, <2>2 DEF RunNextEvent, TypeOK
  <1>5. CASE e.kind \notin ExecutorEvents
    <2>1. /\ ApplyControl(e)
          /\ ctl' = [ctl EXCEPT ![e.by] = IdleControl]
          /\ UNCHANGED capture
      BY <1>5 DEF RunNextEvent
    <2>2. /\ row' \in [Runs -> Rows]
          /\ recon' \in [Runs -> {"none", "pending", "aborted"}]
      <3>1. CASE e.kind = "cancel" /\ Terminate(e.run, "cancelled")
        BY <1>2, <3>1, TerminateType DEF TerminalStatuses
      <3>2. CASE Pauses(e.run) /\ UNCHANGED recon
        BY <3>2, SetRowType DEF Pauses, TypeOK, Statuses, ResourceStatuses
      <3>3. CASE Resumes(e.run) /\ UNCHANGED recon
        BY <3>3, SetRowType DEF Resumes, TypeOK, Statuses, ResourceStatuses
      <3>4. CASE Responds(e.run, e.request) /\ UNCHANGED recon
        BY <3>4, SetRowType DEF Responds, TypeOK, Statuses, ResourceStatuses
      <3> QED BY <2>1, <3>1, <3>2, <3>3, <3>4 DEF ApplyControl
    <2>3. ctl' \in [Controls -> ControlTasks]
      BY <2>1 DEF TypeOK, ControlTasks, IdleControl
    <2> QED BY <1>1, <2>1, <2>2, <2>3 DEF RunNextEvent, TypeOK
  <1> QED BY <1>4, <1>5

--------------------
(* Type correctness: the controls *)

\* What a control may do to the mark of a launch keeps its type.
LEMMA MarkType ==
    ASSUME launch \in [Runs -> Launches], NEW r \in Runs, NEW b \in BOOLEAN
    PROVE  [launch EXCEPT ![r].cancelled = IF launch[r].held THEN b ELSE @] \in [Runs -> Launches]
  <1>1. \A l \in Launches : \A x \in BOOLEAN : [l EXCEPT !.cancelled = x] \in Launches
    BY DEF Launches
  <1>2. launch[r] \in Launches /\ launch[r].cancelled \in BOOLEAN
    BY DEF Launches
  <1>3. [launch[r] EXCEPT !.cancelled = IF launch[r].held THEN b ELSE launch[r].cancelled] \in Launches
    BY <1>1, <1>2
  <1> QED BY <1>3

\* Interrupt, resume, permission answers and cancel keep every variable's type.
LEMMA ControlType ==
    ASSUME TypeOK, NEW c \in Controls, ControlStep(c)
    PROVE  TypeOK'
  <1> USE DEF tables, files, executor, tasks, lifecycle, bounds
  <1>1. ASSUME NEW r \in Runs, InterruptBegins(c, r) PROVE TypeOK'
    <2>1. \A e \in Entries : [e EXCEPT !.phase = "interrupting"] \in Entries
      BY DEF Entries, Phases
    <2>2. exec' \in [Runs -> Entries]
      BY <1>1, <2>1, SetExecType DEF InterruptBegins, TypeOK
    <2>3. ctl' \in [Controls -> ControlTasks]
      BY <1>1, StepType DEF InterruptBegins, TypeOK
    <2> QED BY <1>1, <2>2, <2>3 DEF InterruptBegins, TypeOK
  <1>2. ASSUME NEW r \in Runs, ResumeBegins(c, r) PROVE TypeOK'
    <2>1. \A e \in Entries : [e EXCEPT !.phase = "turn", !.turn = TRUE] \in Entries
      BY DEF Entries, Phases
    <2>2. exec' \in [Runs -> Entries]
      BY <1>2, <2>1, SetExecType DEF ResumeBegins, TypeOK
    <2>3. ctl' \in [Controls -> ControlTasks]
      BY <1>2, StepType DEF ResumeBegins, TypeOK
    <2>4. events' \in Seq(QueuedEvents)
      BY <1>2, QueuedControlType DEF ResumeBegins, TypeOK, ControlEvents
    <2> QED BY <1>2, <2>2, <2>3, <2>4 DEF ResumeBegins, TypeOK
  <1>3. ASSUME NEW r \in Runs, RespondBegins(c, r) PROVE TypeOK'
    <2>1. \A e \in Entries : \A P \in SUBSET Permissions : [e EXCEPT !.pending = P] \in Entries
      BY DEF Entries
    <2>2. exec[r] \in Entries /\ (exec[r].pending \ {row[r].permission}) \in SUBSET Permissions
      BY DEF TypeOK, Entries
    <2>3. [exec[r] EXCEPT !.pending = @ \ {row[r].permission}] \in Entries
      BY <2>1, <2>2
    <2>4. exec' \in [Runs -> Entries]
      BY <1>3, <2>3, SetExecType DEF RespondBegins, TypeOK
    <2>5. ctl' \in [Controls -> ControlTasks]
      BY <1>3, StepType DEF RespondBegins, TypeOK
    <2>6. row[r].permission \in Permissions \cup {None}
      BY DEF TypeOK, Rows
    <2>7. events' \in Seq(QueuedEvents)
      BY <1>3, <2>6, QueuedControlType DEF RespondBegins, TypeOK, ControlEvents
    <2> QED BY <1>3, <2>4, <2>5, <2>7 DEF RespondBegins, TypeOK
  <1>4. ASSUME NEW r \in Runs, CancelBegins(c, r) PROVE TypeOK'
    <2>1. launch' \in [Runs -> Launches]
      BY <1>4, MarkType DEF CancelBegins, TypeOK
    <2>2. exec' \in [Runs -> Entries]
      BY <1>4, StoppingType, SetExecType DEF CancelBegins, TypeOK
    <2>3. ctl' \in [Controls -> ControlTasks]
      BY <1>4, StepType DEF CancelBegins, TypeOK
    <2> QED BY <1>4, <2>1, <2>2, <2>3 DEF CancelBegins, TypeOK
  <1>5. CASE InterruptFails(c)
    BY <1>5, StepType DEF InterruptFails, TypeOK
  <1>6. CASE InterruptRejected(c)
    <2>1. \A e \in Entries : [e EXCEPT !.phase = "turn"] \in Entries
      BY DEF Entries, Phases
    <2>2. ctl[c].run \in Runs
      BY <1>6, ControlledRun DEF InterruptRejected
    <2>3. exec' \in [Runs -> Entries]
      BY <1>6, <2>1, <2>2, SetExecType DEF InterruptRejected, TypeOK
    <2>4. ctl' \in [Controls -> ControlTasks]
      BY <1>6, StepType DEF InterruptRejected, TypeOK
    <2> QED BY <1>6, <2>3, <2>4 DEF InterruptRejected, TypeOK
  <1>7. CASE CancelReleased(c)
    <2>1. ctl[c].run \in Runs
      BY <1>7, ControlledRun DEF CancelReleased
    <2>2. launch' \in [Runs -> Launches]
      BY <1>7, <2>1, MarkType DEF CancelReleased, TypeOK
    <2>3. ctl' \in [Controls -> ControlTasks]
      BY <1>7, <2>1, StepType DEF CancelReleased, TypeOK
    <2>4. events' \in Seq(QueuedEvents)
      BY <1>7, <2>1, EmittedType DEF CancelReleased, TypeOK, ExecutorEvents, Outcomes
    <2> QED BY <1>7, <2>2, <2>3, <2>4 DEF CancelReleased, TypeOK
  <1>8. CASE CancelJoined(c)
    <2>1. ctl[c].run \in Runs
      BY <1>8, ControlledRun DEF CancelJoined
    <2>2. launch' \in [Runs -> Launches]
      BY <1>8 DEF CancelJoined, TypeOK, Launches
    <2>3. ctl' \in [Controls -> ControlTasks]
      BY <1>8, <2>1, StepType DEF CancelJoined, TypeOK
    <2>4. events' \in Seq(QueuedEvents)
      BY <1>8, <2>1, QueuedControlType DEF CancelJoined, TypeOK, ControlEvents
    <2> QED BY <1>8, <2>2, <2>3, <2>4 DEF CancelJoined, TypeOK
  <1> QED BY <1>1, <1>2, <1>3, <1>4, <1>5, <1>6, <1>7, <1>8 DEF ControlStep

--------------------
(* Type correctness: close() *)

\* Every step of close() keeps every variable's type.
LEMMA CloseType ==
    ASSUME TypeOK, CloseStep
    PROVE  TypeOK'
  <1> USE DEF tables, files, executor, tasks, invocations, bounds
  <1>1. CASE Close
    <2>1. \A l \in Launches : [l EXCEPT !.cancelled = @ \/ l.held] \in Launches
      BY DEF Launches
    <2>2. launch' \in [Runs -> Launches]
      BY <1>1, <2>1 DEF Close, TypeOK
    <2>3. capture' \in [Runs -> {"none", "copying", "aborted"}]
      BY <1>1, AbortType DEF Close, TypeOK
    <2>4. closing' \in ClosingTasks
      BY <1>1 DEF Close, ClosingTasks, NotClosing
    <2> QED BY <1>1, <2>2, <2>3, <2>4 DEF Close, TypeOK
  <1>2. CASE CloseProbes
    <2>1. \A t \in ClosingTasks : \A L, O, S \in SUBSET Runs :
            [t EXCEPT !.step = "suspend", !.lost = L, !.owned = O, !.todo = S] \in ClosingTasks
      BY DEF ClosingTasks
    <2>2. closing.lost \in SUBSET Runs
      BY DEF TypeOK, ClosingTasks
    <2>3. UnfinishedRuns \in SUBSET Runs /\ Suspendable \in SUBSET Runs
      BY DEF UnfinishedRuns, Suspendable
    <2>4. closing' \in ClosingTasks
      BY <1>2, <2>1, <2>2, <2>3 DEF CloseProbes, TypeOK
    <2> QED BY <1>2, <2>4 DEF CloseProbes, TypeOK
  <1>3. CASE SuspendBegins
    <2> DEFINE r == First(closing.todo)
    <2>1. r \in Runs /\ closing.todo \in SUBSET Runs
      BY <1>3, FirstIsMember DEF SuspendBegins, TypeOK, ClosingTasks
    <2>2. \A e \in Entries : [e EXCEPT !.phase = "releasing", !.why = "suspend"] \in Entries
      BY DEF Entries, Phases
    <2>3. exec' \in [Runs -> Entries]
      BY <1>3, <2>1, <2>2, StoppingType, SetExecType DEF SuspendBegins, TypeOK
    <2>4. \A t \in ClosingTasks : \A S \in SUBSET Runs : \A b \in BOOLEAN :
            /\ [t EXCEPT !.failed = TRUE, !.preserved = {}, !.todo = {}] \in ClosingTasks
            /\ [t EXCEPT !.current = r, !.todo = S, !.keeps = b] \in ClosingTasks
      BY <2>1 DEF ClosingTasks
    <2>5. Suspends(r) \in BOOLEAN
      BY <2>1 DEF Suspends, TypeOK, Entries
    <2>6. [closing EXCEPT !.current = r, !.todo = @ \ {r}, !.keeps = Suspends(r)] \in ClosingTasks
      BY <2>1, <2>4, <2>5 DEF TypeOK
    <2>7. closing' \in ClosingTasks
      BY <1>3, <2>4, <2>6 DEF SuspendBegins, TypeOK
    <2> QED BY <1>3, <2>3, <2>7 DEF SuspendBegins, TypeOK
  <1>4. CASE SuspendEnds
    <2>1. \A t \in ClosingTasks : \A S \in SUBSET Runs :
            /\ [t EXCEPT !.current = None, !.todo = {}, !.preserved = {}, !.failed = TRUE] \in ClosingTasks
            /\ [t EXCEPT !.current = None, !.preserved = S] \in ClosingTasks
      BY DEF ClosingTasks
    <2>2. closing.current \in Runs /\ closing.preserved \in SUBSET Runs
      BY <1>4 DEF SuspendEnds, TypeOK, ClosingTasks
    <2>3. [closing EXCEPT !.current = None, !.preserved = IF closing.keeps THEN @ \cup {closing.current}
                                                          ELSE @] \in ClosingTasks
      BY <2>1, <2>2 DEF TypeOK
    <2>4. closing' \in ClosingTasks
      BY <1>4, <2>1, <2>3 DEF SuspendEnds, TypeOK
    <2> QED BY <1>4, <2>4 DEF SuspendEnds, TypeOK
  <1>5. CASE CloseDrains
    <2>1. launch' \in [Runs -> Launches]
      BY <1>5 DEF CloseDrains, TypeOK, Launches
    <2>2. recon' \in [Runs -> {"none", "pending", "aborted"}]
      BY <1>5, AbortType DEF CloseDrains, TypeOK
    <2>3. closing' \in ClosingTasks
      BY <1>5 DEF CloseDrains, TypeOK, ClosingTasks
    <2> QED BY <1>5, <2>1, <2>2, <2>3 DEF CloseDrains, TypeOK
  <1>6. CASE CloseSettles
    <2>1. closing' \in ClosingTasks
      BY <1>6 DEF CloseSettles, TypeOK, ClosingTasks
    <2>2. \A x \in Rows : \A p \in Permissions \cup {None} :
            /\ [x EXCEPT !.status = "forced_termination", !.completed = TRUE, !.permission = p] \in Rows
            /\ [x EXCEPT !.status = "interrupted", !.permission = None] \in Rows
      BY DEF Rows, Statuses, ResourceStatuses, TerminalStatuses
    <2>3. \A s \in Runs : row[s] \in Rows /\ row[s].permission \in Permissions \cup {None}
      BY DEF TypeOK, Rows
    <2>4. row' \in [Runs -> Rows]
      BY <1>6, <2>2, <2>3 DEF CloseSettles
    <2>5. dirs' \subseteq Runs
      BY <1>6 DEF CloseSettles, TypeOK
    <2> QED BY <1>6, <2>1, <2>4, <2>5 DEF CloseSettles, TypeOK
  <1> QED BY <1>1, <1>2, <1>3, <1>4, <1>5, <1>6 DEF CloseStep

--------------------
(* Type correctness: the deletion of a conversation *)

\* What the steps of a deletion write is the progress of a deletion.
LEMMA DeletionTaskType ==
    ASSUME NEW t \in DeletionTasks, NEW S \in SUBSET Runs, NEW r \in Runs \cup {None}
    PROVE  /\ [t EXCEPT !.todo = S] \in DeletionTasks
           /\ [t EXCEPT !.current = r] \in DeletionTasks
           /\ [t EXCEPT !.current = r, !.todo = S] \in DeletionTasks
           /\ [t EXCEPT !.step = "rows", !.todo = S, !.unfinished = S] \in DeletionTasks
           /\ [t EXCEPT !.step = "undo", !.current = None] \in DeletionTasks
           /\ [t EXCEPT !.step = "drain"] \in DeletionTasks
           /\ [t EXCEPT !.step = "remove"] \in DeletionTasks
  BY DEF DeletionTasks

\* A deletion that is over leaves the progress of a deletion.
LEMMA NotDeletingType ==
    ASSUME NEW S \in SUBSET Runs, NEW W \in SUBSET Delegations
    PROVE  /\ NotDeleting \in DeletionTasks
           /\ [NotDeleting EXCEPT !.step = "done"] \in DeletionTasks
           /\ [NotDeleting EXCEPT !.step = "captures", !.lost = S, !.waits = W] \in DeletionTasks
  BY DEF NotDeleting, DeletionTasks

\* A deletion that gives up keeps the types of what it undoes.
LEMMA DeleteThrowsType ==
    ASSUME TypeOK, NEW c \in Conversations, DeleteThrows(c)
    PROVE  /\ launch' \in [Runs -> Launches]
           /\ deletion' \in [Conversations -> DeletionTasks]
           /\ deleting' \subseteq Conversations
  <1>1. \A l \in Launches : \A b \in BOOLEAN : [l EXCEPT !.cancelled = b] \in Launches
    BY DEF Launches
  <1>2. \A r \in Runs : (r \in Unbegun(c)) \in BOOLEAN /\ launch[r] \in Launches
    BY DEF TypeOK
  <1>3. launch' \in [Runs -> Launches]
    BY <1>1, <1>2 DEF DeleteThrows
  <1>a. deletion[c] \in DeletionTasks /\ NotDeleting \in DeletionTasks
    BY NotDeletingType DEF TypeOK
  <1>b. [deletion[c] EXCEPT !.step = "undo", !.current = None] \in DeletionTasks
    BY <1>a, DeletionTaskType
  <1>4. deletion' \in [Conversations -> DeletionTasks]
    BY <1>a, <1>b DEF DeleteThrows, TypeOK
  <1>5. deleting' \subseteq Conversations
    BY DEF DeleteThrows, TypeOK
  <1> QED BY <1>3, <1>4, <1>5

\* Every step of a conversation deletion keeps every variable's type.
LEMMA DeleteType ==
    ASSUME TypeOK, NEW c \in Conversations, DeleteStep(c)
    PROVE  TypeOK'
  <1> USE DEF tables, files, executor, tasks, deletionOthers, bounds
  <1>1. CASE DeleteBegins(c)
    <2>1. capture' \in [Runs -> {"none", "copying", "aborted"}]
      BY <1>1, AbortType DEF DeleteBegins, TypeOK
    <2>2. deletion' \in [Conversations -> DeletionTasks]
      BY <1>1, NotDeletingType DEF DeleteBegins, TypeOK, RunsOf
    <2> QED BY <1>1, <2>1, <2>2 DEF DeleteBegins, TypeOK
  <1>2. CASE DeleteCollects(c)
    <2>1. deletion' \in [Conversations -> DeletionTasks]
      BY <1>2, DeletionTaskType DEF DeleteCollects, TypeOK, RunsOf
    <2> QED BY <1>2, <2>1 DEF DeleteCollects, TypeOK
  <1>3. ASSUME NEW r \in Runs, DeleteCaptured(c, r) PROVE TypeOK'
    <2>1. deletion[c] \in DeletionTasks /\ (deletion[c].todo \ {r}) \in SUBSET Runs
      BY DEF TypeOK, DeletionTasks
    <2>2. [deletion[c] EXCEPT !.todo = @ \ {r}] \in DeletionTasks
      BY <2>1, DeletionTaskType
    <2>3. deletion' \in [Conversations -> DeletionTasks]
      BY <1>3, <2>2 DEF DeleteCaptured, TypeOK
    <2>4. row' \in [Runs -> Rows]
      BY <1>3, RecordStoppedType DEF DeleteCaptured, TypeOK
    <2> QED BY <1>3, <2>3, <2>4 DEF DeleteCaptured, TypeOK
  <1>4. ASSUME NEW r \in Runs, DeleteStops(c, r) PROVE TypeOK'
    <2>1. exec' \in [Runs -> Entries]
      BY <1>4, StoppingType, SetExecType DEF DeleteStops, TypeOK
    <2>2. /\ launch' \in [Runs -> Launches]
          /\ deletion' \in [Conversations -> DeletionTasks]
          /\ deleting' \subseteq Conversations
      <3>1. CASE DeleteThrows(c)
        BY <3>1, DeleteThrowsType
      <3>2. CASE /\ deletion' = [deletion EXCEPT ![c].current = r, ![c].todo = @ \ {r}]
                 /\ launch' = [launch EXCEPT ![r].cancelled = @ \/ launch[r].held]
                 /\ UNCHANGED deleting
        <4>1. \A l \in Launches : [l EXCEPT !.cancelled = @ \/ l.held] \in Launches
          BY DEF Launches
        <4>2. launch' \in [Runs -> Launches]
          BY <3>2, <4>1 DEF TypeOK
        <4>3. deletion[c] \in DeletionTasks /\ (deletion[c].todo \ {r}) \in SUBSET Runs
          BY DEF TypeOK, DeletionTasks
        <4>4. [deletion[c] EXCEPT !.current = r, !.todo = deletion[c].todo \ {r}] \in DeletionTasks
          BY <4>3, DeletionTaskType
        <4>5. deletion' \in [Conversations -> DeletionTasks]
          BY <3>2, <4>4 DEF TypeOK
        <4> QED BY <3>2, <4>2, <4>5 DEF TypeOK
      <3> QED BY <1>4, <3>1, <3>2 DEF DeleteStops
    <2> QED BY <1>4, <2>1, <2>2 DEF DeleteStops, TypeOK
  <1>5. CASE DeleteStopped(c)
    <2> DEFINE r == deletion[c].current
    <2>1. CASE DeleteThrows(c) /\ UNCHANGED row
      BY <1>5, <2>1, DeleteThrowsType DEF DeleteStopped, TypeOK
    <2>2. CASE /\ launch' = [launch EXCEPT ![r].held = FALSE]
               /\ row' = RecordStopped(r)
               /\ deletion' = [deletion EXCEPT ![c].current = None]
               /\ UNCHANGED deleting
      <3>1. launch' \in [Runs -> Launches]
        BY <2>2 DEF TypeOK, Launches
      <3>2. row' \in [Runs -> Rows]
        BY <2>2, RecordStoppedType DEF TypeOK
      <3>3. deletion' \in [Conversations -> DeletionTasks]
        BY <2>2, DeletionTaskType DEF TypeOK
      <3> QED BY <1>5, <2>2, <3>1, <3>2, <3>3 DEF DeleteStopped, TypeOK
    <2> QED BY <1>5, <2>1, <2>2 DEF DeleteStopped
  <1>6. CASE DeleteUndone(c)
    <2>1. \A r \in Runs : RecordStopped(r)[r] \in Rows /\ row[r] \in Rows
      BY RecordStoppedType DEF TypeOK
    <2>2. row' \in [Runs -> Rows]
      BY <1>6, <2>1 DEF DeleteUndone
    <2>3. \A l \in Launches : \A b \in BOOLEAN : [l EXCEPT !.held = b] \in Launches
      BY DEF Launches
    <2>4. \A r \in Runs : (launch[r].held /\ r \notin Unbegun(c)) \in BOOLEAN /\ launch[r] \in Launches
      BY DEF TypeOK, Launches
    <2>5. launch' \in [Runs -> Launches]
      BY <1>6, <2>3, <2>4 DEF DeleteUndone
    <2>6. deletion' \in [Conversations -> DeletionTasks]
      BY <1>6, NotDeletingType DEF DeleteUndone, TypeOK
    <2> QED BY <1>6, <2>2, <2>5, <2>6 DEF DeleteUndone, TypeOK
  <1>7. CASE DeleteDrains(c)
    <2>1. recon' \in [Runs -> {"none", "pending", "aborted"}]
      BY <1>7, AbortType DEF DeleteDrains, TypeOK
    <2>2. deletion' \in [Conversations -> DeletionTasks]
      BY <1>7, DeletionTaskType DEF DeleteDrains, TypeOK
    <2> QED BY <1>7, <2>1, <2>2 DEF DeleteDrains, TypeOK
  <1>8. CASE DeleteClears(c)
    <2>1. deletion' \in [Conversations -> DeletionTasks]
      BY <1>8, DeletionTaskType DEF DeleteClears, TypeOK
    <2> QED BY <1>8, <2>1 DEF DeleteClears, TypeOK
  <1>9. CASE DeleteEnds(c)
    <2>a. \A x \in Rows : [x EXCEPT !.status = "deleted"] \in Rows
      BY DEF Rows, Statuses
    <2>1. row' \in [Runs -> Rows]
      BY <1>9, <2>a DEF DeleteEnds, TypeOK
    <2>2. deletion' \in [Conversations -> DeletionTasks]
      BY <1>9, NotDeletingType DEF DeleteEnds, TypeOK
    <2> QED BY <1>9, <2>1, <2>2 DEF DeleteEnds, TypeOK
  <1>10. CASE DeleteFails(c)
    <2>1. deletion' \in [Conversations -> DeletionTasks]
      BY <1>10, NotDeletingType DEF DeleteFails, TypeOK
    <2> QED BY <1>10, <2>1 DEF DeleteFails, TypeOK
  <1> QED BY <1>1, <1>2, <1>3, <1>4, <1>5, <1>6, <1>7, <1>8, <1>9, <1>10 DEF DeleteStep

--------------------
(* Type correctness: restart and recovery *)

\* A restart of the Host leaves every variable with its type.
LEMMA RestartType ==
    ASSUME TypeOK, Restart
    PROVE  TypeOK'
  <1>1. exec' \in [Runs -> Entries]
    BY AbsentEntryType DEF Restart
  <1>2. launch' \in [Runs -> Launches]
    BY DEF Restart, Launches, IdleLaunch
  <1>3. events' \in Seq(QueuedEvents)
    BY DEF Restart
  <1>4. ctl' \in [Controls -> ControlTasks]
    BY DEF Restart, ControlTasks, IdleControl
  <1>5. closing' \in ClosingTasks
    BY DEF Restart, ClosingTasks, NotClosing
  <1>6. deletion' \in [Conversations -> DeletionTasks]
    BY NotDeletingType DEF Restart, TypeOK
  <1>7. recovering' \in RecoveryTasks
    BY DEF Restart, RecoveryTasks, UnfinishedRuns
  <1>8. restarts' \in 0..MaxRestarts
    BY RunStateAssumption DEF Restart, TypeOK
  <1> QED BY <1>1, <1>2, <1>3, <1>4, <1>5, <1>6, <1>7, <1>8 DEF Restart, TypeOK, tables, files

\* Every step of the recovery after a restart keeps every variable's type.
LEMMA RecoveryType ==
    ASSUME TypeOK, RecoveryStep
    PROVE  TypeOK'
  <1> USE DEF tables, files, executor, tasks, invocations, recoveryOthers, bounds
  <1>t. \A t \in RecoveryTasks : \A S \in SUBSET Runs : \A r \in Runs \cup {None} :
          /\ [t EXCEPT !.todo = S, !.current = r] \in RecoveryTasks
          /\ [t EXCEPT !.todo = S] \in RecoveryTasks
          /\ [t EXCEPT !.current = r] \in RecoveryTasks
          /\ [t EXCEPT !.step = "deliver"] \in RecoveryTasks
    BY DEF RecoveryTasks
  <1>r. recovering \in RecoveryTasks /\ recovering.todo \in SUBSET Runs
    BY DEF TypeOK, RecoveryTasks
  <1>1. CASE RestoreBegins
    <2> DEFINE r == First(recovering.todo)
    <2>1. r \in Runs
      BY <1>1, <1>r, FirstIsMember DEF RestoreBegins
    <2>2. exec' \in [Runs -> Entries]
      BY <1>1, PreparingType, SetExecType DEF RestoreBegins, TypeOK
    <2>3. record' \in [Runs -> {"none", "held", "released"}]
      BY <1>1 DEF RestoreBegins, TypeOK
    <2>4. recovering' \in RecoveryTasks
      <3>1. recovering.todo \ {r} \in SUBSET Runs
        BY <1>r
      <3>2. /\ [recovering EXCEPT !.todo = @ \ {r}, !.current = r] \in RecoveryTasks
            /\ [recovering EXCEPT !.todo = @ \ {r}] \in RecoveryTasks
        BY <1>t, <1>r, <2>1, <3>1
      <3> QED BY <1>1, <3>2 DEF RestoreBegins
    <2>5. dirs' \subseteq Runs
      BY <1>1, <2>1 DEF RestoreBegins, TypeOK
    <2> QED BY <1>1, <2>2, <2>3, <2>4, <2>5 DEF RestoreBegins, TypeOK
  <1>2. CASE RestoreDeferred
    <2>1. recovering' \in RecoveryTasks
      BY <1>2, <1>t, <1>r DEF RestoreDeferred
    <2> QED BY <1>2, <2>1 DEF RestoreDeferred, TypeOK
  <1>3. CASE RestoreEnds
    <2> DEFINE r == recovering.current
    <2>1. r \in Runs
      BY <1>3, <1>r DEF RestoreEnds, RecoveryTasks
    <2>2. \A e \in Entries : [e EXCEPT !.start = "none"] \in Entries
      BY DEF Entries
    <2>3. exec' \in [Runs -> Entries]
      BY <1>3, <2>1, <2>2, SetExecType DEF RestoreEnds, TypeOK
    <2>a. \A x \in Rows : [x EXCEPT !.status = "forced_termination", !.completed = TRUE] \in Rows
      BY DEF Rows, Statuses, TerminalStatuses
    <2>4. row' \in [Runs -> Rows]
      BY <1>3, <2>1, <2>a DEF RestoreEnds, TypeOK
    <2>5. record' \in [Runs -> {"none", "held", "released"}]
      BY <1>3 DEF RestoreEnds, TypeOK
    <2>6. recovering' \in RecoveryTasks
      BY <1>3, <1>t, <1>r DEF RestoreEnds
    <2> QED BY <1>3, <2>3, <2>4, <2>5, <2>6 DEF RestoreEnds, TypeOK
  <1>4. CASE RecoveryEnds
    <2>1. recovering' \in RecoveryTasks
      BY <1>4, <1>t, <1>r DEF RecoveryEnds
    <2> QED BY <1>4, <2>1 DEF RecoveryEnds, TypeOK
  <1>5. CASE ReconcilePending
    <2>1. recovering' \in RecoveryTasks
      BY <1>5 DEF ReconcilePending, Recovered, RecoveryTasks
    <2>2. recon' \in [Runs -> {"none", "pending", "aborted"}]
      BY <1>5, ReconcilingType DEF ReconcilePending, TypeOK
    <2> QED BY <1>5, <2>1, <2>2 DEF ReconcilePending, TypeOK
  <1> QED BY <1>1, <1>2, <1>3, <1>4, <1>5 DEF RecoveryStep

--------------------

\* The first start of a Host without Runs has the right types.
LEMMA InitType == Init => TypeOK
  <1> SUFFICES ASSUME Init PROVE TypeOK
    OBVIOUS
  <1>1. row \in [Runs -> Rows]
    BY DEF Init, AbsentRow, Rows, Statuses
  <1>2. exec \in [Runs -> Entries] /\ launch \in [Runs -> Launches]
    BY AbsentEntryType DEF Init, IdleLaunch, Launches
  <1>3. ctl \in [Controls -> ControlTasks] /\ closing \in ClosingTasks
    BY DEF Init, IdleControl, ControlTasks, NotClosing, ClosingTasks
  <1>4. deletion \in [Conversations -> DeletionTasks] /\ recovering \in RecoveryTasks
    BY NotDeletingType DEF Init, Recovered, RecoveryTasks
  <1>5. restarts \in 0..MaxRestarts /\ releaseFailures \in 0..MaxReleaseFailures
    BY RunStateAssumption DEF Init
  <1>6. /\ events \in Seq(QueuedEvents)
        /\ admission \in [Delegations -> Calls \cup {None}]
        /\ deleting \subseteq Conversations /\ convs \subseteq Conversations /\ dirs \subseteq Runs
    BY DEF Init
  <1> QED BY <1>1, <1>2, <1>3, <1>4, <1>5, <1>6 DEF Init, TypeOK

\* No step of the program breaks the type invariant.
LEMMA NextType == TypeOK /\ [Next]_vars => TypeOK'
  <1> SUFFICES ASSUME TypeOK, [Next]_vars PROVE TypeOK'
    OBVIOUS
  <1>1. CASE UNCHANGED vars
    BY <1>1 DEF TypeOK, vars
  <1>2. CASE Next
    BY <1>2, AdmissionType, RunStepType, ExecutorType, QueueType, ControlType, CloseType,
       DeleteType, RecoveryType, RestartType DEF Next
  <1> QED BY <1>1, <1>2

\* Every variable of the Run service and its executor keeps its type, whatever
\* the bounds: no step of run-service.ts writes a status, a phase or a control
\* the rest of the code does not know.
THEOREM TypeCorrect == Spec => []TypeOK
  <1>1. Init => TypeOK
    BY InitType
  <1>2. TypeOK /\ [Next]_vars => TypeOK'
    BY NextType
  <1> QED BY <1>1, <1>2, PTL DEF Spec

--------------------
(* What a group of steps leaves alone *)

\* A launch, a capture or a delivery leaves the worker, the queue and the lifecycle alone.
LEMMA RunLeaves ==
    ASSUME NEW r \in Runs, RunStep(r)
    PROVE  UNCHANGED <<convs, record, native, events, admission, ctl, closed, deleting, closing,
                       deletion, recovering, restarts, releaseFailures>>
  BY Zenon DEF RunStep, LaunchBegins, LaunchRefused, LaunchEnds, CaptureEnds, AttemptEnds,
     RetryDelivery, tables, files, executor, tasks, invocations, lifecycle, bounds

\* The executor and the worker leave the table, the launches and the lifecycle alone.
LEMMA ExecutorLeaves ==
    ASSUME NEW r \in Runs, ExecutorStep(r)
    PROVE  UNCHANGED <<row, convs, dirs, launch, capture, recon, admission, closed, deleting,
                       closing, deletion, recovering, restarts>>
  BY Zenon DEF ExecutorStep, Spawn, PrepareFails, Loads, Opened, StartFails, TurnEnds, TurnPaused,
     AsksPermission, ProcessExits, ReleaseSucceeds, ReleaseFails, outsideExecutor, tables, lifecycle

\* A control leaves the table, the worker and the lifecycle alone.
LEMMA ControlLeaves ==
    ASSUME NEW c \in Controls, ControlStep(c)
    PROVE  UNCHANGED <<row, convs, dirs, record, native, capture, recon, admission, closed,
                       deleting, closing, deletion, recovering, restarts, releaseFailures>>
  BY Zenon DEF ControlStep, InterruptBegins, ResumeBegins, RespondBegins, CancelBegins,
     InterruptFails, InterruptRejected, CancelReleased, CancelJoined, tables, files, executor,
     tasks, lifecycle, bounds

\* close() leaves the workers, the queue, the controls and the deletions alone.
LEMMA CloseLeaves ==
    ASSUME CloseStep
    PROVE  UNCHANGED <<convs, record, native, events, admission, ctl, deleting, deletion,
                       recovering, restarts, releaseFailures>>
  BY Zenon DEF CloseStep, Close, CloseProbes, SuspendBegins, SuspendEnds, CloseDrains, CloseSettles,
     tables, files, executor, tasks, invocations, lifecycle, bounds

\* A deletion leaves the workers, the queue, the controls and close() alone.
LEMMA DeleteLeaves ==
    ASSUME NEW c \in Conversations, DeleteStep(c)
    PROVE  UNCHANGED <<record, native, events, admission, ctl, closed, closing, recovering,
                       restarts, releaseFailures>>
  BY Zenon DEF DeleteStep, DeleteBegins, DeleteCollects, DeleteCaptured, DeleteStops, DeleteStopped,
     DeleteUndone, DeleteDrains, DeleteClears, DeleteEnds, DeleteFails, DeleteThrows, files,
     executor, bounds, deletionOthers

\* The recovery leaves the launches, the queue, the controls and the lifecycle alone.
LEMMA RecoveryLeaves ==
    ASSUME RecoveryStep
    PROVE  UNCHANGED <<convs, native, launch, capture, events, admission, ctl, closed, deleting,
                       closing, deletion, restarts, releaseFailures>>
  BY Zenon DEF RecoveryStep, RestoreBegins, RestoreDeferred, RestoreEnds, RecoveryEnds,
     ReconcilePending, tables, executor, tasks, invocations, bounds, recoveryOthers

--------------------
(* How a row moves *)

\* A table nobody writes does not move.
LEMMA UnchangedMoves ==
    ASSUME RowInvariant, UNCHANGED row
    PROVE  RowsMove
  BY DEF RowsMove, Moves, RowInvariant

\* Writing one row that moves well is all that happens to the table.
LEMMA OneRowMoves ==
    ASSUME TypeOK, RowInvariant, NEW r \in Runs, NEW x, Moves(row[r], x),
           row' = [row EXCEPT ![r] = x]
    PROVE  RowsMove
  <1>1. row \in [Runs -> Rows]
    BY DEF TypeOK
  <1>2. \A s \in Runs : s # r => Moves(row[s], row[s])
    BY DEF RowInvariant, Moves
  <1> QED BY <1>1, <1>2 DEF RowsMove

\* An open Run is settled.
LEMMA SettledMoves ==
    ASSUME TypeOK, RowInvariant, NEW r \in Runs, Exists(r), ~row[r].completed,
           NEW status \in TerminalStatuses, row' = Settled(r, status)
    PROVE  RowsMove
  <1> DEFINE x == [row[r] EXCEPT !.status = status, !.permission = None, !.completed = TRUE]
  <1>1. row \in [Runs -> Rows] /\ row[r] \in Rows
    BY DEF TypeOK
  <1>2. row' = [row EXCEPT ![r] = x]
    BY <1>1 DEF Settled
  <1>3. WellFormed(row[r])
    BY DEF RowInvariant
  <1>4. Moves(row[r], x)
    BY <1>1, <1>3 DEF Moves, WellFormed, Exists, Rows, TerminalStatuses
  <1> QED BY <1>2, <1>4, OneRowMoves

\* terminate() settles an open Run or does nothing.
LEMMA TerminateMoves ==
    ASSUME TypeOK, RowInvariant, NEW r \in Runs, NEW status \in TerminalStatuses,
           Terminate(r, status)
    PROVE  RowsMove
  <1>1. CASE row[r].completed \/ ~Exists(r)
    BY <1>1, UnchangedMoves DEF Terminate
  <1>2. CASE ~(row[r].completed \/ ~Exists(r))
    BY <1>2, SettledMoves DEF Terminate
  <1> QED BY <1>1, <1>2

\* recordStopped() settles a Run of the table that is not settled.
LEMMA RecordStoppedMoves ==
    ASSUME TypeOK, RowInvariant, NEW r \in Runs, Exists(r), row' = RecordStopped(r)
    PROVE  RowsMove
  <1>1. CASE row[r].completed
    BY <1>1, UnchangedMoves DEF RecordStopped
  <1>2. CASE ~row[r].completed
    BY <1>2, SettledMoves DEF RecordStopped, TerminalStatuses
  <1> QED BY <1>1, <1>2

\* An open Run goes from one unsettled status to another.
LEMMA SetRowMoves ==
    ASSUME TypeOK, RowInvariant, NEW r \in Runs, Exists(r), ~row[r].completed,
           NEW status \in ResourceStatuses, NEW permission, SetRow(r, status, permission)
    PROVE  RowsMove
  <1> DEFINE x == [row[r] EXCEPT !.status = status, !.permission = permission]
  <1>1. row \in [Runs -> Rows] /\ row[r] \in Rows
    BY DEF TypeOK
  <1>2. row' = [row EXCEPT ![r] = x]
    BY <1>1 DEF SetRow
  <1>3. WellFormed(row[r])
    BY DEF RowInvariant
  <1>4. Moves(row[r], x)
    BY <1>1, <1>3 DEF Moves, WellFormed, Exists, Rows, TerminalStatuses, ResourceStatuses
  <1> QED BY <1>2, <1>4, OneRowMoves

--------------------
(* What moving rows keep *)

\* While rows only move, conversations keep their Runs, no Run becomes
\* unfinished and none loses its settlement.
LEMMA MovesKeep ==
    ASSUME TypeOK, RowInvariant, RowsMove
    PROVE  /\ \A r \in Runs : WellFormed(row[r])'
           /\ \A c \in Conversations : RunsOf(c)' = RunsOf(c)
           /\ \A r \in Runs : Unfinished(r)' => Unfinished(r)
           /\ \A r \in Runs : row[r].completed => row'[r].completed
           /\ \A r \in Runs : row[r].status # "absent" => row'[r].status # "absent"
  <1>1. \A r \in Runs : Moves(row[r], row'[r]) /\ WellFormed(row[r]) /\ row[r] \in Rows
    BY DEF RowsMove, RowInvariant, TypeOK
  <1>2. \A r \in Runs : WellFormed(row[r])'
    BY <1>1 DEF Moves, WellFormed
  <1>3. \A r \in Runs : Exists(r)' = Exists(r) /\ row'[r].call = row[r].call
    BY <1>1 DEF Moves, Exists
  <1>4. \A c \in Conversations : RunsOf(c)' = RunsOf(c)
    BY <1>3 DEF RunsOf, Conv
  <1>5. ASSUME NEW r \in Runs, Unfinished(r)' PROVE Unfinished(r)
    <2>1. row'[r].status \in ResourceStatuses /\ ~row'[r].completed
      BY <1>5 DEF Unfinished
    <2>2. Moves(row[r], row'[r]) /\ WellFormed(row[r]) /\ row[r] \in Rows
      BY <1>1
    <2>3. row[r].status \notin {"absent", "deleted"} /\ ~row[r].completed
      BY <2>1, <2>2 DEF Moves, ResourceStatuses
    <2>4. row[r].status \in ResourceStatuses
      BY <2>2, <2>3 DEF WellFormed, Rows, Statuses
    <2> QED BY <2>3, <2>4 DEF Unfinished
  <1>6. \A r \in Runs : row[r].completed => row'[r].completed
    BY <1>1 DEF Moves
  <1>7. \A r \in Runs : row[r].status # "absent" => row'[r].status # "absent"
    BY <1>1 DEF Moves
  <1> QED BY <1>2, <1>4, <1>5, <1>6, <1>7

\* What a deletion knows stays true when rows only move under it.
LEMMA MovesKeepDeletion ==
    ASSUME TypeOK, RowInvariant, RowsMove, NEW c \in Conversations,
           c \in deleting => c \in deleting',
           deletion'[c].step = deletion[c].step,
           deletion'[c].todo = deletion[c].todo,
           deletion'[c].current = deletion[c].current,
           deletion'[c].unfinished = deletion[c].unfinished
    PROVE  DeletionKnows(c)'
  <1>1. DeletionKnows(c)
    BY DEF RowInvariant
  <1>2. RunsOf(c)' = RunsOf(c) /\ RunsOf(c) \subseteq Runs
    BY MovesKeep DEF RunsOf
  <1>3. \A r \in RunsOf(c) : Unfinished(r)' => Unfinished(r)
    BY <1>2, MovesKeep
  <1>4. \A r \in RunsOf(c) : row[r].completed => row'[r].completed
    BY <1>2, MovesKeep
  <1> QED BY <1>1, <1>2, <1>3, <1>4 DEF DeletionKnows

\* What the recovery knows stays true when it goes on and rows only move.
LEMMA MovesKeepRecovery ==
    ASSUME TypeOK, RowInvariant, RowsMove, RecoveryShrinks
    PROVE  RecoveryKnows'
  <1>1. RecoveryKnows /\ recovering \in RecoveryTasks
    BY DEF RowInvariant, TypeOK
  <1>2. recovering.todo \subseteq Runs /\ recovering.current \in Runs \cup {None}
    BY <1>1 DEF RecoveryTasks
  <1>3. \A r \in Runs : row[r].status # "absent" => row'[r].status # "absent"
    BY MovesKeep
  <1> QED BY <1>1, <1>2, <1>3 DEF RecoveryKnows, RecoveryShrinks

\* Every step of an activity other than deletion, admission and restart.
LEMMA MovesKeepInvariant ==
    ASSUME TypeOK, RowInvariant, RowsMove, DeletionsStay, RecoveryShrinks
    PROVE  RowInvariant'
  <1>1. \A c \in Conversations : DeletionKnows(c)'
    BY MovesKeepDeletion DEF DeletionsStay
  <1>2. RecoveryKnows'
    BY MovesKeepRecovery
  <1> QED BY <1>1, <1>2, MovesKeep DEF RowInvariant

--------------------
(* The steps that only move rows *)

\* Launches, captures and delivery attempts move rows.
LEMMA RunStepKeeps ==
    ASSUME TypeOK, RowInvariant, NEW r \in Runs, RunStep(r)
    PROVE  RowsMove /\ DeletionsStay /\ RecoveryShrinks
  <1> USE DEF tables, files, executor, tasks, invocations, lifecycle, bounds
  <1>u. ASSUME UNCHANGED <<deleting, deletion, recovering>>
        PROVE  DeletionsStay /\ RecoveryShrinks
    BY <1>u DEF DeletionsStay, RecoveryShrinks
  <1>1. CASE LaunchBegins(r)
    BY <1>1, <1>u, UnchangedMoves DEF LaunchBegins
  <1>2. CASE LaunchRefused(r)
    BY <1>2, <1>u, TerminateMoves DEF LaunchRefused, TerminalStatuses
  <1>3. CASE LaunchEnds(r)
    BY <1>3, <1>u, UnchangedMoves, TerminateMoves DEF LaunchEnds, TerminalStatuses
  <1>4. ASSUME NEW status \in {"completed", "failed"}, CaptureEnds(r, status)
        PROVE  RowsMove /\ DeletionsStay /\ RecoveryShrinks
    BY <1>4, <1>u, UnchangedMoves, TerminateMoves DEF CaptureEnds, TerminalStatuses
  <1>5. ASSUME NEW acknowledged \in BOOLEAN, AttemptEnds(r, acknowledged)
        PROVE  RowsMove /\ DeletionsStay /\ RecoveryShrinks
    <2> DEFINE x == [row[r] EXCEPT !.reported = TRUE]
    <2>1. row \in [Runs -> Rows] /\ row[r] \in Rows /\ WellFormed(row[r])
      BY DEF TypeOK, RowInvariant
    <2>2. Moves(row[r], x)
      BY <2>1 DEF Moves, WellFormed, Rows
    <2>3. row' = row \/ row' = [row EXCEPT ![r] = x]
      BY <1>5, <2>1 DEF AttemptEnds
    <2>4. RowsMove
      BY <2>2, <2>3, UnchangedMoves, OneRowMoves
    <2> QED BY <1>5, <1>u, <2>4 DEF AttemptEnds
  <1>6. CASE RetryDelivery(r)
    BY <1>6, <1>u, UnchangedMoves DEF RetryDelivery
  <1> QED BY <1>1, <1>2, <1>3, <1>4, <1>5, <1>6 DEF RunStep

\* The executor and the worker write no row.
LEMMA ExecutorKeeps ==
    ASSUME RowInvariant, NEW r \in Runs, ExecutorStep(r)
    PROVE  RowsMove /\ DeletionsStay /\ RecoveryShrinks
  <1>1. UNCHANGED <<row, deleting, deletion, recovering>>
    BY ExecutorLeaves
  <1> QED BY <1>1, UnchangedMoves DEF DeletionsStay, RecoveryShrinks

\* The closures of the queue move the row of an open Run.
LEMMA QueueKeeps ==
    ASSUME TypeOK, RowInvariant, RunNextEvent
    PROVE  RowsMove /\ DeletionsStay /\ RecoveryShrinks
  <1> DEFINE e == NextEvent
             r == e.run
  <1>e. e \in QueuedEvents
    BY DEF RunNextEvent, NextEvent, TypeOK
  <1>1. r \in Runs
    BY <1>e DEF QueuedEvents
  <1>2. DeletionsStay /\ RecoveryShrinks
    BY DEF RunNextEvent, lifecycle, DeletionsStay, RecoveryShrinks
  <1>3. ASSUME Unfinished(r) PROVE Exists(r) /\ ~row[r].completed
    BY <1>3 DEF Unfinished, Exists, ResourceStatuses
  <1>4. ASSUME ApplyExecutorEvent(e) PROVE RowsMove
    <2>1. CASE UNCHANGED row
      BY <2>1, UnchangedMoves
    <2>2. CASE Exists(r) /\ ~row[r].completed /\ Starts(r)
      BY <1>1, <2>2, SetRowMoves, UnchangedMoves DEF Starts, ResourceStatuses
    <2>3. CASE Exists(r) /\ ~row[r].completed /\ NeedsUser(r, e.request)
      BY <1>1, <2>3, SetRowMoves, UnchangedMoves DEF NeedsUser, ResourceStatuses
    <2>4. CASE Exists(r) /\ ~row[r].completed /\ SetRow(r, "interrupted", None)
      BY <1>1, <2>4, SetRowMoves DEF ResourceStatuses
    <2>5. CASE Completes(r)
      BY <1>1, <2>5, TerminateMoves, UnchangedMoves DEF Completes, TerminalStatuses
    <2>6. CASE e.kind \in {"failed", "cancelled"} /\ Terminate(r, e.kind)
      BY <1>1, <2>6, TerminateMoves DEF TerminalStatuses
    <2> QED BY <1>4, <2>1, <2>2, <2>3, <2>4, <2>5, <2>6 DEF ApplyExecutorEvent
  <1>5. ASSUME ApplyControl(e) PROVE RowsMove
    <2>1. CASE Terminate(r, "cancelled")
      BY <1>1, <2>1, TerminateMoves DEF TerminalStatuses
    <2>2. CASE Pauses(r)
      BY <1>1, <1>3, <2>2, SetRowMoves, UnchangedMoves DEF Pauses, ResourceStatuses
    <2>3. CASE Resumes(r)
      BY <1>1, <1>3, <2>3, SetRowMoves, UnchangedMoves DEF Resumes, ResourceStatuses
    <2>4. CASE Responds(r, e.request)
      BY <1>1, <1>3, <2>4, SetRowMoves, UnchangedMoves DEF Responds, ResourceStatuses
    <2> QED BY <1>5, <2>1, <2>2, <2>3, <2>4 DEF ApplyControl
  <1> QED BY <1>2, <1>4, <1>5 DEF RunNextEvent

\* The synchronous part of a control writes no row.
LEMMA ControlKeeps ==
    ASSUME RowInvariant, NEW c \in Controls, ControlStep(c)
    PROVE  RowsMove /\ DeletionsStay /\ RecoveryShrinks
  <1>1. UNCHANGED <<row, deleting, deletion, recovering>>
    BY ControlLeaves
  <1> QED BY <1>1, UnchangedMoves DEF DeletionsStay, RecoveryShrinks

\* close() settles or pauses unfinished Runs, at its end.
LEMMA CloseKeeps ==
    ASSUME TypeOK, RowInvariant, CloseStep
    PROVE  RowsMove /\ DeletionsStay /\ RecoveryShrinks
  <1>1. DeletionsStay /\ RecoveryShrinks
    BY CloseLeaves DEF DeletionsStay, RecoveryShrinks
  <1>2. ASSUME CloseSettles PROVE RowsMove
    <2> DEFINE stopped == {r \in Stoppable : Unfinished(r)}
    <2>1. ASSUME NEW r \in Runs PROVE Moves(row[r], row'[r])
      <3>1. row[r] \in Rows /\ WellFormed(row[r])
        BY DEF TypeOK, RowInvariant
      <3>2. \/ row'[r] = row[r]
            \/ /\ Unfinished(r)
               /\ \E p \in {row[r].permission, None} :
                    row'[r] = [row[r] EXCEPT !.status = "forced_termination",
                                             !.completed = TRUE, !.permission = p]
            \/ /\ Unfinished(r)
               /\ row'[r] = [row[r] EXCEPT !.status = "interrupted", !.permission = None]
        BY <1>2 DEF CloseSettles
      <3> QED BY <3>1, <3>2
              DEF Moves, WellFormed, Rows, Unfinished, ResourceStatuses, TerminalStatuses
    <2> QED BY <2>1 DEF RowsMove
  <1>3. ASSUME ~CloseSettles PROVE RowsMove
    <2>1. UNCHANGED row
      BY <1>3 DEF CloseStep, Close, CloseProbes, SuspendBegins, SuspendEnds, CloseDrains, tables
    <2> QED BY <2>1, UnchangedMoves
  <1> QED BY <1>1, <1>2, <1>3

\* The recovery settles a Run that was admitted and is not settled; a deleted
\* one is settled.
LEMMA RecoveryKeeps ==
    ASSUME TypeOK, RowInvariant, RecoveryStep
    PROVE  RowsMove /\ DeletionsStay /\ RecoveryShrinks
  <1> USE DEF recoveryOthers, tables
  <1>t. recovering \in RecoveryTasks /\ recovering.todo \subseteq Runs
    BY DEF TypeOK, RecoveryTasks
  <1>f. ASSUME recovering.todo # {} PROVE First(recovering.todo) \in recovering.todo
    BY <1>f, <1>t, FirstIsMember
  <1>d. DeletionsStay
    BY RecoveryLeaves DEF DeletionsStay
  <1>1. CASE RestoreBegins
    <2>1. RecoveryShrinks
      BY <1>1, <1>f, <1>t DEF RestoreBegins, RecoveryShrinks, RecoveryTasks
    <2> QED BY <1>1, <1>d, <2>1, UnchangedMoves DEF RestoreBegins
  <1>2. CASE RestoreDeferred
    <2>1. RecoveryShrinks
      BY <1>2, <1>t DEF RestoreDeferred, RecoveryShrinks, RecoveryTasks
    <2> QED BY <1>2, <1>d, <2>1, UnchangedMoves DEF RestoreDeferred
  <1>3. CASE RestoreEnds
    <2> DEFINE r == recovering.current
               x == [row[r] EXCEPT !.status = "forced_termination", !.completed = TRUE]
    <2>1. RecoveryShrinks
      BY <1>3, <1>t DEF RestoreEnds, RecoveryShrinks, RecoveryTasks
    <2>2. r \in Runs /\ row[r] \in Rows /\ WellFormed(row[r]) /\ row[r].status # "absent"
      BY <1>3, <1>t DEF RestoreEnds, TypeOK, RecoveryTasks, RowInvariant, RecoveryKnows
    <2>3. CASE row[r].completed \/ exec[r].start # "unsupported"
      BY <1>3, <1>d, <2>1, <2>3, UnchangedMoves DEF RestoreEnds
    <2>4. CASE ~row[r].completed /\ exec[r].start = "unsupported"
      <3>1. row' = [row EXCEPT ![r] = x]
        BY <1>3, <2>2, <2>4 DEF RestoreEnds, TypeOK
      <3>2. Moves(row[r], x)
        BY <2>2, <2>4 DEF Moves, WellFormed, Rows, TerminalStatuses
      <3> QED BY <1>d, <2>1, <2>2, <3>1, <3>2, OneRowMoves
    <2> QED BY <2>3, <2>4
  <1>4. CASE RecoveryEnds
    <2>1. RecoveryShrinks
      BY <1>4, <1>t DEF RecoveryEnds, RecoveryShrinks, RecoveryTasks
    <2> QED BY <1>4, <1>d, <2>1, UnchangedMoves DEF RecoveryEnds
  <1>5. CASE ReconcilePending
    <2>1. RecoveryShrinks
      BY <1>5 DEF ReconcilePending, Recovered, RecoveryShrinks
    <2> QED BY <1>5, <1>d, <2>1, UnchangedMoves DEF ReconcilePending
  <1> QED BY <1>1, <1>2, <1>3, <1>4, <1>5 DEF RecoveryStep

--------------------
(* Admission *)

\* An inserted row belongs to a conversation no deletion is going through.
LEMMA AdmissionKeeps ==
    ASSUME TypeOK, RowInvariant, NEW d \in Delegations,
           (\E q \in Calls : Delegate(d, q)) \/ Admit(d) \/ AdmissionRefused(d)
    PROVE  RowInvariant'
  <1> USE DEF tables, lifecycle
  <1>1. CASE \E q \in Calls : Delegate(d, q)
    <2>1. UNCHANGED <<row, deleting, deletion, recovering>>
      BY <1>1 DEF Delegate
    <2> QED BY <2>1, UnchangedMoves, MovesKeepInvariant DEF DeletionsStay, RecoveryShrinks
  <1>2. ASSUME AdmissionSettles(d) PROVE DeletionsStay /\ RecoveryShrinks
    <2>1. \A x \in DeletionTasks : [x EXCEPT !.waits = @ \ {d}].step = x.step
                                 /\ [x EXCEPT !.waits = @ \ {d}].todo = x.todo
                                 /\ [x EXCEPT !.waits = @ \ {d}].current = x.current
                                 /\ [x EXCEPT !.waits = @ \ {d}].unfinished = x.unfinished
      BY DEF DeletionTasks
    <2>2. \A c \in Conversations : /\ deletion[c] \in DeletionTasks
                                   /\ deletion'[c] = [deletion[c] EXCEPT !.waits = @ \ {d}]
      BY <1>2 DEF AdmissionSettles, TypeOK
    <2>3. UNCHANGED <<deleting, recovering>>
      BY <1>2 DEF AdmissionSettles
    <2> QED BY <2>1, <2>2, <2>3 DEF DeletionsStay, RecoveryShrinks
  <1>3. CASE AdmissionRefused(d)
    BY <1>2, <1>3, UnchangedMoves, MovesKeepInvariant DEF AdmissionRefused
  <1>4. CASE Admit(d)
    <2> DEFINE q == admission[d]
               fresh == {r \in Runs : row[r].status = "absent"}
               n == First(fresh)
               x == [AbsentRow EXCEPT !.status = "enqueued", !.call = q]
    <2>1. /\ q \in Calls /\ n \in fresh /\ n \in Runs
          /\ ConvOf[q] \notin deleting
          /\ row' = [row EXCEPT ![n] = x]
      BY <1>4, FirstIsMember DEF Admit, TypeOK, AdmissionOpen
    <2>2. x.status = "enqueued" /\ x.call = q /\ x.completed = FALSE
      BY DEF AbsentRow
    <2>3. row \in [Runs -> Rows] /\ row'[n] = x /\ row[n].status = "absent"
      BY <2>1 DEF TypeOK
    <2>4. \A r \in Runs : r # n => row'[r] = row[r]
      BY <2>1, <2>3
    <2> HIDE DEF n, x, q
    <2>5. \A r \in Runs : WellFormed(row[r])'
      <3>1. WellFormed(x)
        BY <2>1, <2>2 DEF WellFormed, TerminalStatuses
      <3>2. \A r \in Runs : WellFormed(row'[r])
        BY <2>3, <2>4, <3>1 DEF RowInvariant
      <3> QED BY <3>2 DEF WellFormed
    <2>6. ASSUME NEW c \in Conversations PROVE DeletionKnows(c)'
      <3>1. DeletionKnows(c)
        BY DEF RowInvariant
      <3>2. \A r \in Runs : r # n => /\ Exists(r)' = Exists(r) /\ Conv(r)' = Conv(r)
                                     /\ Unfinished(r)' = Unfinished(r)
        BY <2>4 DEF Exists, Conv, Unfinished
      <3>3. n \notin RunsOf(c)
        BY <2>3 DEF RunsOf, Exists
      <3>4. c \in deleting => n \notin RunsOf(c)'
        BY <2>1, <2>2, <2>3 DEF RunsOf, Conv
      <3>5. c \in deleting => RunsOf(c)' = RunsOf(c)
        BY <3>2, <3>3, <3>4 DEF RunsOf
      <3>6. c \in deleting => \A r \in RunsOf(c) : r # n /\ r \in Runs
        BY <3>3 DEF RunsOf
      <3>7. /\ deleting' = deleting
            /\ deletion'[c].step = deletion[c].step
            /\ deletion'[c].todo = deletion[c].todo
            /\ deletion'[c].current = deletion[c].current
            /\ deletion'[c].unfinished = deletion[c].unfinished
        BY <1>2, <1>4 DEF Admit, DeletionsStay
      <3>8. CASE c \in deleting
        BY <2>4, <3>1, <3>2, <3>5, <3>6, <3>7, <3>8 DEF DeletionKnows
      <3>9. CASE c \notin deleting
        BY <3>1, <3>7, <3>9 DEF DeletionKnows
      <3> QED BY <3>8, <3>9
    <2>7. RecoveryKnows'
      <3>1. recovering' = recovering
        BY <1>4 DEF Admit, AdmissionSettles
      <3>2. \A r \in Runs : row[r].status # "absent" => row'[r].status # "absent"
        BY <2>3, <2>4
      <3>3. recovering.todo \subseteq Runs /\ recovering.current \in Runs \cup {None}
        BY DEF TypeOK, RecoveryTasks
      <3> QED BY <3>1, <3>2, <3>3 DEF RowInvariant, RecoveryKnows
    <2> QED BY <2>5, <2>6, <2>7 DEF RowInvariant
  <1> QED BY <1>1, <1>3, <1>4

--------------------
(* The deletion of a conversation *)

\* One deletion goes on; the others, and the recovery, only see rows move.
LEMMA DeletionFrame ==
    ASSUME TypeOK, RowInvariant, RowsMove, NEW c \in Conversations,
           UNCHANGED recovering,
           \A o \in Conversations \ {c} : /\ deletion'[o] = deletion[o]
                                          /\ o \in deleting => o \in deleting',
           DeletionKnows(c)'
    PROVE  RowInvariant'
  <1>1. ASSUME NEW o \in Conversations, o # c PROVE DeletionKnows(o)'
    <2>1. deletion'[o] = deletion[o] /\ (o \in deleting => o \in deleting')
      BY <1>1
    <2> QED BY <2>1, MovesKeepDeletion
  <1>2. RecoveryKnows'
    BY MovesKeepRecovery DEF RecoveryShrinks
  <1> QED BY <1>1, <1>2, MovesKeep DEF RowInvariant

\* A deletion that is over has nothing left to know.
LEMMA DeletionOver ==
    ASSUME NEW c \in Conversations, deletion'[c].step \in {"none", "done"},
           deletion'[c].current = None
    PROVE  DeletionKnows(c)'
  BY DEF DeletionKnows

\* A deletion that gives up opens the conversation again, or keeps it closed
\* until the launches it had marked are over.
LEMMA DeleteThrowsKeeps ==
    ASSUME TypeOK, RowInvariant, RowsMove, NEW c \in Conversations,
           deletion[c].step = "rows", UNCHANGED recovering, DeleteThrows(c)
    PROVE  RowInvariant'
  <1>1. deletion \in [Conversations -> DeletionTasks] /\ DeletionKnows(c)
    BY DEF TypeOK, RowInvariant
  <1>2. CASE Unbegun(c) = {}
    <2>1. deletion' = [deletion EXCEPT ![c] = NotDeleting] /\ deleting' = deleting \ {c}
      BY <1>2 DEF DeleteThrows
    <2>2. DeletionKnows(c)'
      BY <1>1, <2>1, DeletionOver DEF NotDeleting
    <2> QED BY <1>1, <2>1, <2>2, DeletionFrame
  <1>3. CASE Unbegun(c) # {}
    <2>1. /\ deletion' = [deletion EXCEPT ![c] = [@ EXCEPT !.step = "undo", !.current = None]]
          /\ deleting' = deleting
      BY <1>3 DEF DeleteThrows
    <2>2. deletion'[c] = [deletion[c] EXCEPT !.step = "undo", !.current = None]
      BY <1>1, <2>1
    <2>3. /\ deletion'[c].step = "undo" /\ deletion'[c].current = None
          /\ deletion'[c].unfinished = deletion[c].unfinished
      BY <1>1, <2>2 DEF DeletionTasks
    <2>4. RunsOf(c)' = RunsOf(c)
      BY MovesKeep
    <2>5. DeletionKnows(c)'
      BY <1>1, <2>1, <2>3, <2>4 DEF DeletionKnows
    <2> QED BY <1>1, <2>1, <2>5, DeletionFrame
  <1> QED BY <1>2, <1>3

\* The table of a deletion in progress: it settles Runs of its own list, all of
\* which exist, and deletes rows only at its end.
LEMMA DeleteMoves ==
    ASSUME TypeOK, RowInvariant, NEW c \in Conversations, DeleteStep(c), ~DeleteEnds(c)
    PROVE  RowsMove
  <1> USE DEF tables, deletionOthers
  <1> DEFINE task == deletion[c]
  <1>t. /\ task \in DeletionTasks /\ DeletionKnows(c) /\ row \in [Runs -> Rows]
        /\ \A r \in Runs : WellFormed(row[r])
        /\ \A r \in RunsOf(c) : Exists(r) /\ r \in Runs
    BY DEF TypeOK, RowInvariant, RunsOf
  <1>1. ASSUME NEW r \in Runs, DeleteCaptured(c, r) PROVE RowsMove
    <2>1. task.step = "rows" /\ r \in task.todo /\ row' = RecordStopped(r)
      BY <1>1, <1>t, FirstIsMember DEF DeleteCaptured, Deleting, DeletionTasks
    <2> QED BY <1>t, <2>1, RecordStoppedMoves DEF DeletionKnows
  <1>2. CASE DeleteStopped(c)
    <2> DEFINE r == task.current
    <2>1. r \in Runs /\ Exists(r) /\ (row' = RecordStopped(r) \/ row' = row)
      BY <1>2, <1>t DEF DeleteStopped, DeletionKnows
    <2> QED BY <2>1, RecordStoppedMoves, UnchangedMoves
  <1>3. CASE DeleteUndone(c)
    <2>1. /\ Unbegun(c) \subseteq RunsOf(c)
          /\ row' = [r \in Runs |-> IF r \in Unbegun(c) THEN RecordStopped(r)[r] ELSE row[r]]
      BY <1>3, <1>t DEF DeleteUndone, Unbegun, DeletionKnows
    <2>2. ASSUME NEW r \in Runs PROVE Moves(row[r], row'[r])
      <3>1. row[r] \in Rows /\ WellFormed(row[r])
        BY <1>t
      <3>2. \/ row'[r] = row[r]
            \/ /\ Exists(r) /\ ~row[r].completed
               /\ row'[r] = [row[r] EXCEPT !.status = "cancelled", !.permission = None,
                                           !.completed = TRUE]
        BY <1>t, <2>1 DEF RecordStopped, Settled
      <3> QED BY <3>1, <3>2 DEF Moves, WellFormed, Exists, Rows, TerminalStatuses
    <2> QED BY <2>2 DEF RowsMove
  <1>4. CASE \/ DeleteBegins(c) \/ DeleteCollects(c) \/ \E r \in Runs : DeleteStops(c, r)
             \/ DeleteDrains(c) \/ DeleteClears(c) \/ DeleteFails(c)
    <2>1. UNCHANGED row
      BY <1>4 DEF DeleteBegins, DeleteCollects, DeleteStops, DeleteDrains, DeleteClears,
                  DeleteFails
    <2> QED BY <2>1, UnchangedMoves
  <1> QED BY <1>1, <1>2, <1>3, <1>4 DEF DeleteStep

\* Every step of a deletion: the list of unfinished Runs shrinks only by Runs
\* that are settled, and the rows are deleted when all of them are.
LEMMA DeleteKeeps ==
    ASSUME TypeOK, RowInvariant, NEW c \in Conversations, DeleteStep(c)
    PROVE  RowInvariant'
  <1> USE DEF tables, deletionOthers
  <1> DEFINE task == deletion[c]
  <1>t. /\ deletion \in [Conversations -> DeletionTasks] /\ task \in DeletionTasks
        /\ DeletionKnows(c) /\ row \in [Runs -> Rows]
        /\ \A r \in Runs : WellFormed(row[r])
    BY DEF TypeOK, RowInvariant
  <1>r. RunsOf(c) \subseteq Runs /\ \A r \in RunsOf(c) : Exists(r) /\ r \in Runs
    BY DEF RunsOf
  <1>n. None \notin Runs
    BY NoneIsNoRun
  <1>m. task.step # "remove" => RowsMove
    BY DeleteMoves DEF DeleteEnds
  <1>1. CASE DeleteBegins(c)
    <2>1. RowsMove
      BY <1>1, UnchangedMoves DEF DeleteBegins
    <2>2. deleting' = deleting \cup {c} /\ UNCHANGED recovering
      BY <1>1 DEF DeleteBegins
    <2>3. /\ \A o \in Conversations \ {c} : deletion'[o] = deletion[o]
          /\ deletion'[c].step = "captures" /\ deletion'[c].current = None
      BY <1>1, <1>t DEF DeleteBegins, NotDeleting
    <2>4. DeletionKnows(c)'
      BY <2>2, <2>3 DEF DeletionKnows
    <2> QED BY <2>1, <2>2, <2>3, <2>4, DeletionFrame
  <1>2. CASE DeleteCollects(c)
    <2> DEFINE unfinished == {r \in RunsOf(c) : Unfinished(r)}
    <2>1. RowsMove /\ UNCHANGED <<recovering, deleting, row>> /\ task.step = "captures"
      BY <1>2, UnchangedMoves DEF DeleteCollects
    <2>2. deletion' = [deletion EXCEPT ![c] = [task EXCEPT !.step = "rows", !.todo = unfinished,
                                                           !.unfinished = unfinished]]
      BY <1>2 DEF DeleteCollects
    <2>3. /\ \A o \in Conversations \ {c} : deletion'[o] = deletion[o]
          /\ deletion'[c] = [task EXCEPT !.step = "rows", !.todo = unfinished,
                                         !.unfinished = unfinished]
      BY <1>t, <2>2
    <2>4. /\ deletion'[c].step = "rows" /\ deletion'[c].todo = unfinished
          /\ deletion'[c].unfinished = unfinished /\ deletion'[c].current = None
      BY <1>t, <2>1, <2>3 DEF DeletionTasks, DeletionKnows
    <2>5. c \in deleting /\ RunsOf(c)' = RunsOf(c) /\ \A r : Unfinished(r)' = Unfinished(r)
      BY <1>t, <2>1 DEF DeletionKnows, RunsOf, Exists, Conv, Unfinished
    <2>6. DeletionKnows(c)'
      BY <2>1, <2>4, <2>5 DEF DeletionKnows
    <2> QED BY <2>1, <2>3, <2>6, DeletionFrame
  <1>3. ASSUME NEW r \in Runs, DeleteCaptured(c, r) PROVE RowInvariant'
    <2>1. /\ task.step = "rows" /\ task.current = None /\ r \in task.todo
          /\ row' = RecordStopped(r) /\ UNCHANGED <<recovering, deleting>>
          /\ deletion' = [deletion EXCEPT ![c].todo = @ \ {r}]
      BY <1>3, <1>t, FirstIsMember DEF DeleteCaptured, Deleting, DeletionTasks
    <2>2. r \in RunsOf(c) /\ RowsMove
      BY <1>3, <1>m, <1>t, <2>1 DEF DeletionKnows
    <2>3. row'[r].completed
      BY <1>t, <2>1 DEF RecordStopped, Settled, Rows
    <2>4. /\ \A o \in Conversations \ {c} : deletion'[o] = deletion[o]
          /\ deletion'[c] = [task EXCEPT !.todo = task.todo \ {r}]
      BY <1>t, <2>1
    <2>5. /\ deletion'[c].step = "rows" /\ deletion'[c].todo = task.todo \ {r}
          /\ deletion'[c].unfinished = task.unfinished /\ deletion'[c].current = None
      BY <1>t, <2>1, <2>4 DEF DeletionTasks
    <2>6. /\ RunsOf(c)' = RunsOf(c)
          /\ \A s \in RunsOf(c) : Unfinished(s)' => Unfinished(s) /\ s # r
      BY <1>r, <2>2, <2>3, MovesKeep DEF Unfinished
    <2>7. DeletionKnows(c)'
      BY <1>n, <1>r, <1>t, <2>1, <2>5, <2>6 DEF DeletionKnows
    <2> QED BY <2>1, <2>2, <2>4, <2>7, DeletionFrame
  <1>4. ASSUME NEW r \in Runs, DeleteStops(c, r) PROVE RowInvariant'
    <2>1. /\ task.step = "rows" /\ task.current = None /\ r \in task.todo
          /\ UNCHANGED <<row, recovering>>
      BY <1>4, <1>t, FirstIsMember DEF DeleteStops, Deleting, DeletionTasks
    <2>2. RowsMove
      BY <2>1, UnchangedMoves
    <2>3. CASE DeleteThrows(c)
      BY <2>1, <2>2, <2>3, DeleteThrowsKeeps
    <2>4. CASE ~DeleteThrows(c)
      <3>1. deletion' = [deletion EXCEPT ![c].current = r, ![c].todo = @ \ {r}]
        BY <1>4, <2>4 DEF DeleteStops
      <3>2. deleting' = deleting
        BY <1>4, <2>4 DEF DeleteStops
      <3>3. /\ \A o \in Conversations \ {c} : deletion'[o] = deletion[o]
            /\ deletion'[c] = [task EXCEPT !.current = r, !.todo = task.todo \ {r}]
        BY <1>t, <3>1
      <3>4. /\ deletion'[c].step = "rows" /\ deletion'[c].todo = task.todo \ {r}
            /\ deletion'[c].unfinished = task.unfinished /\ deletion'[c].current = r
        BY <1>t, <2>1, <3>3 DEF DeletionTasks
      <3>5. RunsOf(c)' = RunsOf(c) /\ \A s : Unfinished(s)' = Unfinished(s)
        BY <2>1 DEF RunsOf, Exists, Conv, Unfinished
      <3>6. DeletionKnows(c)'
        BY <1>n, <1>r, <1>t, <2>1, <3>2, <3>4, <3>5 DEF DeletionKnows
      <3> QED BY <2>1, <2>2, <3>2, <3>3, <3>6, DeletionFrame
    <2> QED BY <2>3, <2>4
  <1>5. CASE DeleteStopped(c)
    <2> DEFINE r == task.current
    <2>1. task.step = "rows" /\ r \in RunsOf(c) /\ r \in Runs /\ UNCHANGED recovering
      BY <1>5, <1>r, <1>t DEF DeleteStopped, DeletionKnows
    <2>2. CASE Active(r)
      <3>1. DeleteThrows(c) /\ UNCHANGED row
        BY <1>5, <2>2 DEF DeleteStopped
      <3> QED BY <2>1, <3>1, UnchangedMoves, DeleteThrowsKeeps
    <2>3. CASE ~Active(r)
      <3>1. /\ row' = RecordStopped(r) /\ deleting' = deleting
            /\ deletion' = [deletion EXCEPT ![c].current = None]
        BY <1>5, <2>3 DEF DeleteStopped
      <3>2. RowsMove
        BY <1>m, <2>1
      <3>3. row'[r].completed
        BY <1>t, <2>1, <3>1 DEF RecordStopped, Settled, Rows
      <3>4. /\ \A o \in Conversations \ {c} : deletion'[o] = deletion[o]
            /\ deletion'[c] = [task EXCEPT !.current = None]
        BY <1>t, <3>1
      <3>5. /\ deletion'[c].step = "rows" /\ deletion'[c].todo = task.todo
            /\ deletion'[c].unfinished = task.unfinished /\ deletion'[c].current = None
        BY <1>t, <2>1, <3>4 DEF DeletionTasks
      <3>6. /\ RunsOf(c)' = RunsOf(c)
            /\ \A s \in RunsOf(c) : Unfinished(s)' => Unfinished(s) /\ s # r
        BY <1>r, <3>2, <3>3, MovesKeep DEF Unfinished
      <3>7. DeletionKnows(c)'
        BY <1>t, <2>1, <3>1, <3>5, <3>6 DEF DeletionKnows
      <3> QED BY <2>1, <3>1, <3>2, <3>4, <3>7, DeletionFrame
    <2> QED BY <2>2, <2>3
  <1>6. CASE DeleteUndone(c)
    <2>1. /\ task.step = "undo" /\ deleting' = deleting \ {c} /\ UNCHANGED recovering
          /\ deletion' = [deletion EXCEPT ![c] = NotDeleting]
      BY <1>6 DEF DeleteUndone
    <2>4. RowsMove
      BY <1>m, <2>1
    <2>5. DeletionKnows(c)'
      BY <1>t, <2>1, DeletionOver DEF NotDeleting
    <2> QED BY <1>t, <2>1, <2>4, <2>5, DeletionFrame
  <1>7. CASE DeleteDrains(c)
    <2>1. /\ RowsMove /\ UNCHANGED <<recovering, deleting>>
          /\ task.step = "rows" /\ task.current = None /\ task.todo = {}
          /\ deletion' = [deletion EXCEPT ![c].step = "drain"]
      BY <1>7, UnchangedMoves DEF DeleteDrains
    <2>2. /\ \A o \in Conversations \ {c} : deletion'[o] = deletion[o]
          /\ deletion'[c] = [task EXCEPT !.step = "drain"]
      BY <1>t, <2>1
    <2>3. deletion'[c].step = "drain" /\ deletion'[c].current = None
      BY <1>t, <2>1, <2>2 DEF DeletionTasks
    <2>4. \A r \in RunsOf(c) : row[r].completed
      <3>1. \A r \in RunsOf(c) : ~Unfinished(r)
        BY <1>n, <1>r, <1>t, <2>1 DEF DeletionKnows
      <3> QED BY <1>r, <1>t, <3>1 DEF WellFormed, Unfinished, Exists, Rows, Statuses
    <2>5. RunsOf(c)' = RunsOf(c) /\ \A r \in RunsOf(c) : row'[r].completed
      BY <1>r, <2>1, <2>4, MovesKeep
    <2>6. DeletionKnows(c)'
      BY <1>t, <2>1, <2>3, <2>5 DEF DeletionKnows
    <2> QED BY <2>1, <2>2, <2>6, DeletionFrame
  <1>8. CASE DeleteClears(c)
    <2>1. /\ RowsMove /\ UNCHANGED <<recovering, deleting>> /\ task.step = "drain"
          /\ deletion' = [deletion EXCEPT ![c].step = "remove"]
      BY <1>8, UnchangedMoves DEF DeleteClears
    <2>2. /\ \A o \in Conversations \ {c} : deletion'[o] = deletion[o]
          /\ deletion'[c] = [task EXCEPT !.step = "remove"]
      BY <1>t, <2>1
    <2>3. deletion'[c].step = "remove" /\ deletion'[c].current = task.current
      BY <1>t, <2>1, <2>2 DEF DeletionTasks
    <2>4. RunsOf(c)' = RunsOf(c) /\ \A r \in RunsOf(c) : row'[r].completed
      BY <1>r, <1>t, <2>1, MovesKeep DEF DeletionKnows
    <2>5. DeletionKnows(c)'
      BY <1>t, <2>1, <2>3, <2>4 DEF DeletionKnows
    <2> QED BY <2>1, <2>2, <2>5, DeletionFrame
  <1>9. CASE DeleteFails(c)
    <2>1. /\ RowsMove /\ UNCHANGED <<recovering, deleting>>
          /\ deletion' = [deletion EXCEPT ![c] = NotDeleting]
      BY <1>9, UnchangedMoves DEF DeleteFails
    <2>2. DeletionKnows(c)'
      BY <1>t, <2>1, DeletionOver DEF NotDeleting
    <2> QED BY <1>t, <2>1, <2>2, DeletionFrame
  <1>10. CASE DeleteEnds(c)
    <2>1. /\ task.step = "remove" /\ UNCHANGED <<recovering, deleting>>
          /\ deletion' = [deletion EXCEPT ![c] = [NotDeleting EXCEPT !.step = "done"]]
          /\ row' = [r \in Runs |-> IF r \in RunsOf(c) THEN [row[r] EXCEPT !.status = "deleted"]
                                    ELSE row[r]]
      BY <1>10 DEF DeleteEnds
    <2>2. ASSUME NEW r \in RunsOf(c)
          PROVE  /\ row'[r].status = "deleted" /\ row'[r].completed
                 /\ row'[r].call \in Calls /\ r \in Runs
      <3>1. row[r] \in Rows /\ row[r].completed /\ row[r].call \in Calls
        BY <1>r, <1>t, <2>1 DEF DeletionKnows, WellFormed, Exists
      <3>2. row'[r] = [row[r] EXCEPT !.status = "deleted"]
        BY <1>r, <2>1
      <3> QED BY <1>r, <3>1, <3>2 DEF Rows
    <2>3. \A r \in Runs \ RunsOf(c) : row'[r] = row[r]
      BY <2>1
    <2>4. \A r \in Runs : WellFormed(row[r])'
      <3>1. \A r \in Runs : WellFormed(row'[r])
        BY <1>t, <2>2, <2>3 DEF WellFormed
      <3> QED BY <3>1 DEF WellFormed
    <2>5. DeletionKnows(c)'
      BY <1>t, <2>1, DeletionOver DEF NotDeleting
    <2>6. ASSUME NEW o \in Conversations, o # c PROVE DeletionKnows(o)'
      <3>1. DeletionKnows(o) /\ deletion'[o] = deletion[o]
        BY <1>t, <2>1, <2>6 DEF RowInvariant
      <3>2. \A r \in RunsOf(o) : r \in Runs \ RunsOf(c)
        BY <2>6 DEF RunsOf
      <3>3. RunsOf(o)' = RunsOf(o)
        <4>1. \A r \in Runs \ RunsOf(c) : Exists(r)' = Exists(r) /\ Conv(r)' = Conv(r)
          BY <2>3 DEF Exists, Conv
        <4>2. \A r \in RunsOf(c) : ~Exists(r)'
          BY <2>2 DEF Exists
        <4> QED BY <3>2, <4>1, <4>2 DEF RunsOf
      <3>4. \A r \in RunsOf(o) : row'[r] = row[r]
        BY <2>3, <3>2
      <3> QED BY <2>1, <3>1, <3>3, <3>4 DEF DeletionKnows, Unfinished
    <2>7. RecoveryKnows'
      <3>1. \A r \in Runs : row[r].status # "absent" => row'[r].status # "absent"
        BY <2>2, <2>3
      <3>2. recovering.todo \subseteq Runs /\ recovering.current \in Runs \cup {None}
        BY DEF TypeOK, RecoveryTasks
      <3> QED BY <2>1, <3>1, <3>2 DEF RowInvariant, RecoveryKnows
    <2> QED BY <2>4, <2>5, <2>6, <2>7 DEF RowInvariant
  <1> QED BY <1>1, <1>2, <1>3, <1>4, <1>5, <1>6, <1>7, <1>8, <1>9, <1>10 DEF DeleteStep

--------------------
(* The invariant holds *)

\* After a restart no deletion is in progress and the recovery has a list of
\* unfinished Runs.
LEMMA RestartKeeps ==
    ASSUME TypeOK, RowInvariant, Restart
    PROVE  RowInvariant'
  <1>1. RowsMove
    BY UnchangedMoves DEF Restart, tables
  <1>2. ASSUME NEW c \in Conversations PROVE DeletionKnows(c)'
    <2>1. /\ deletion[c].step = "done" => deletion[c].current = None
          /\ deletion'[c] = IF deletion[c].step = "done" THEN deletion[c] ELSE NotDeleting
      BY DEF Restart, RowInvariant, DeletionKnows
    <2>2. deletion'[c].step \in {"none", "done"} /\ deletion'[c].current = None
      BY <2>1 DEF NotDeleting
    <2> QED BY <2>2, DeletionOver
  <1>3. RecoveryKnows'
    <2>1. /\ recovering'.todo = UnfinishedRuns /\ recovering'.current = None
          /\ row' = row
      BY DEF Restart, tables
    <2>2. \A r \in UnfinishedRuns : row[r].status # "absent"
      BY DEF UnfinishedRuns, Unfinished, ResourceStatuses
    <2> QED BY <2>1, <2>2 DEF RecoveryKnows
  <1> QED BY <1>1, <1>2, <1>3, MovesKeep DEF RowInvariant

\* A Host without Runs.
LEMMA InitRows == Init => RowInvariant
  <1> SUFFICES ASSUME Init PROVE RowInvariant
    OBVIOUS
  <1>1. \A r \in Runs : WellFormed(row[r])
    BY DEF Init, AbsentRow, WellFormed
  <1>2. \A c \in Conversations : DeletionKnows(c)
    BY DEF Init, NotDeleting, DeletionKnows
  <1>3. RecoveryKnows
    BY DEF Init, Recovered, RecoveryKnows
  <1> QED BY <1>1, <1>2, <1>3 DEF RowInvariant

\* No step of the program breaks the invariant of the table.
LEMMA NextRows == TypeOK /\ RowInvariant /\ [Next]_vars => RowInvariant'
  <1> SUFFICES ASSUME TypeOK, RowInvariant, [Next]_vars PROVE RowInvariant'
    OBVIOUS
  <1>1. CASE UNCHANGED vars
    <2>1. UNCHANGED <<row, deleting, deletion, recovering>>
      BY <1>1 DEF vars
    <2> QED BY <2>1, UnchangedMoves, MovesKeepInvariant DEF DeletionsStay, RecoveryShrinks
  <1>2. CASE \E d \in Delegations : \/ \E q \in Calls : Delegate(d, q)
                                    \/ Admit(d) \/ AdmissionRefused(d)
    BY <1>2, AdmissionKeeps
  <1>3. CASE \E r \in Runs : RunStep(r) \/ ExecutorStep(r)
    BY <1>3, RunStepKeeps, ExecutorKeeps, MovesKeepInvariant
  <1>4. CASE RunNextEvent
    BY <1>4, QueueKeeps, MovesKeepInvariant
  <1>5. CASE \E c \in Controls : ControlStep(c)
    BY <1>5, ControlKeeps, MovesKeepInvariant
  <1>6. CASE CloseStep
    BY <1>6, CloseKeeps, MovesKeepInvariant
  <1>7. CASE \E c \in Conversations : DeleteStep(c)
    BY <1>7, DeleteKeeps
  <1>8. CASE RecoveryStep
    BY <1>8, RecoveryKeeps, MovesKeepInvariant
  <1>9. CASE Restart
    BY <1>9, RestartKeeps
  <1> QED BY <1>1, <1>2, <1>3, <1>4, <1>5, <1>6, <1>7, <1>8, <1>9 DEF Next

\* The table and what the activities know of it agree in every reachable state.
THEOREM RowsWellKept == Spec => [](TypeOK /\ RowInvariant)
  <1>1. Init => TypeOK /\ RowInvariant
    BY InitType, InitRows
  <1>2. (TypeOK /\ RowInvariant) /\ [Next]_vars => (TypeOK /\ RowInvariant)'
    BY NextType, NextRows
  <1> QED BY <1>1, <1>2, PTL DEF Spec

--------------------
(* What one step does to the table *)

\* A step moves rows, inserts one row, or deletes the settled rows of one
\* conversation.
LEMMA TableStep ==
    ASSUME TypeOK, RowInvariant, [Next]_vars
    PROVE  \/ RowsMove
           \/ \E n \in Runs : Inserts(n)
           \/ \E c \in Conversations : Deletes(RunsOf(c)) /\ DeleteEnds(c)
  <1> USE DEF tables
  <1>1. CASE UNCHANGED vars
    BY <1>1, UnchangedMoves DEF vars
  <1>2. ASSUME NEW d \in Delegations, NEW q \in Calls, Delegate(d, q) PROVE RowsMove
    BY <1>2, UnchangedMoves DEF Delegate
  <1>3. ASSUME NEW d \in Delegations, AdmissionRefused(d) PROVE RowsMove
    BY <1>3, UnchangedMoves DEF AdmissionRefused
  <1>4. ASSUME NEW d \in Delegations, Admit(d) PROVE \E n \in Runs : Inserts(n)
    <2> DEFINE fresh == {r \in Runs : row[r].status = "absent"}
    <2>1. First(fresh) \in fresh /\ First(fresh) \in Runs /\ admission[d] \in Calls
      BY <1>4, FirstIsMember DEF Admit, TypeOK
    <2>2. Inserts(First(fresh))
      BY <1>4, <2>1 DEF Admit, Inserts
    <2> QED BY <2>1, <2>2
  <1>5. ASSUME NEW r \in Runs, RunStep(r) \/ ExecutorStep(r) PROVE RowsMove
    BY <1>5, RunStepKeeps, ExecutorKeeps
  <1>6. CASE RunNextEvent
    BY <1>6, QueueKeeps
  <1>7. ASSUME NEW c \in Controls, ControlStep(c) PROVE RowsMove
    BY <1>7, ControlKeeps
  <1>8. CASE CloseStep
    BY <1>8, CloseKeeps
  <1>9. ASSUME NEW c \in Conversations, DeleteStep(c)
        PROVE  RowsMove \/ (Deletes(RunsOf(c)) /\ DeleteEnds(c))
    <2>1. CASE DeleteEnds(c)
      <3>1. /\ deletion[c].step = "remove"
            /\ row' = [r \in Runs |-> IF r \in RunsOf(c) THEN [row[r] EXCEPT !.status = "deleted"]
                                      ELSE row[r]]
        BY <2>1 DEF DeleteEnds
      <3>2. RunsOf(c) \subseteq Runs /\ \A r \in RunsOf(c) : row[r].completed
        BY <3>1 DEF RowInvariant, DeletionKnows, RunsOf
      <3> QED BY <2>1, <3>1, <3>2 DEF Deletes
    <2> QED BY <1>9, <2>1, DeleteMoves
  <1>10. CASE RecoveryStep
    BY <1>10, RecoveryKeeps
  <1>11. CASE Restart
    BY <1>11, UnchangedMoves DEF Restart
  <1> QED BY <1>1, <1>2, <1>3, <1>4, <1>5, <1>6, <1>7, <1>8, <1>9, <1>10, <1>11 DEF Next

--------------------
(* The theorems about the table *)

\* The first terminal status of a Run stays, and so does the acknowledgement of
\* its result, whatever late events, captures, controls, deletions, closes and
\* recoveries confirm afterwards.
THEOREM TerminalStays == Spec => TerminalIsFinal
  <1>1. ASSUME TypeOK, RowInvariant, [Next]_vars
        PROVE  \A r \in Runs : row[r].completed =>
                 /\ row'[r].status \in {row[r].status, "deleted"}
                 /\ row'[r].completed
                 /\ row[r].reported => row'[r].reported
    <2>1. row \in [Runs -> Rows] /\ \A r \in Runs : row[r] \in Rows /\ WellFormed(row[r])
      BY <1>1 DEF TypeOK, RowInvariant
    <2> SUFFICES ASSUME NEW r \in Runs, row[r].completed
                 PROVE  /\ row'[r].status \in {row[r].status, "deleted"}
                        /\ row'[r].completed
                        /\ row[r].reported => row'[r].reported
      OBVIOUS
    <2>2. CASE RowsMove
      BY <2>2 DEF RowsMove, Moves
    <2>3. ASSUME NEW n \in Runs, Inserts(n) PROVE row'[r] = row[r]
      BY <2>1, <2>3 DEF Inserts, WellFormed
    <2>4. ASSUME NEW c \in Conversations, Deletes(RunsOf(c))
          PROVE  /\ row'[r].status \in {row[r].status, "deleted"}
                 /\ row'[r].completed /\ row'[r].reported = row[r].reported
      <3>1. row'[r] = row[r] \/ row'[r] = [row[r] EXCEPT !.status = "deleted"]
        BY <2>4 DEF Deletes
      <3>2. row[r] \in Rows
        BY <2>1
      <3> QED BY <3>1, <3>2 DEF Rows
    <2>5. CASE \E n \in Runs : Inserts(n)
      BY <2>3, <2>5
    <2>6. CASE \E c \in Conversations : Deletes(RunsOf(c))
      BY <2>4, <2>6
    <2> QED BY <1>1, <2>2, <2>5, <2>6, TableStep
  <1> QED BY <1>1, RowsWellKept, PTL DEF Spec, TerminalIsFinal

\* Two invocations of one tool call, however they race, leave one Run.
THEOREM CallsHaveOneRun == Spec => []OneRunPerCall
  <1>1. Init => OneRunPerCall
    BY DEF Init, AbsentRow, OneRunPerCall, Exists
  <1>2. ASSUME TypeOK, RowInvariant, OneRunPerCall, [Next]_vars
        PROVE  OneRunPerCall'
    <2>1. row \in [Runs -> Rows] /\ \A r \in Runs : row[r] \in Rows
      BY <1>2 DEF TypeOK
    <2>2. ASSUME \A r \in Runs : Exists(r)' => Exists(r) /\ row'[r].call = row[r].call
          PROVE  OneRunPerCall'
      BY <1>2, <2>2 DEF OneRunPerCall
    <2>3. CASE RowsMove
      BY <2>2, <2>3 DEF RowsMove, Moves, Exists
    <2>4. ASSUME NEW n \in Runs, Inserts(n) PROVE OneRunPerCall'
      <3>1. PICK q \in Calls :
              /\ ~Admitted(q)
              /\ row' = [row EXCEPT ![n] = [AbsentRow EXCEPT !.status = "enqueued", !.call = q]]
        BY <2>4 DEF Inserts
      <3>2. row'[n].call = q /\ \A r \in Runs : r # n => row'[r] = row[r]
        BY <2>1, <3>1 DEF AbsentRow
      <3>3. \A r \in Runs : r # n /\ Exists(r)' => Exists(r) /\ row'[r].call = row[r].call
        BY <3>2 DEF Exists
      <3>4. \A r \in Runs : Exists(r) => row[r].call # q
        BY <3>1 DEF Admitted
      <3> QED BY <1>2, <3>2, <3>3, <3>4 DEF OneRunPerCall
    <2>5. ASSUME NEW c \in Conversations, Deletes(RunsOf(c)) PROVE OneRunPerCall'
      <3>1. \A r \in Runs : row'[r] = IF r \in RunsOf(c)
                                      THEN [row[r] EXCEPT !.status = "deleted"] ELSE row[r]
        BY <2>5 DEF Deletes
      <3>2. \A r \in Runs : Exists(r)' => row'[r] = row[r]
        BY <2>1, <3>1 DEF Exists, Rows
      <3> QED BY <2>2, <3>2 DEF Exists
    <2> QED BY <1>2, <2>3, <2>4, <2>5, TableStep
  <1> QED BY <1>1, <1>2, RowsWellKept, PTL DEF Spec

\* Runs that hold executor resources never exceed MAX_CONCURRENT_RUNS, although
\* admission awaits a model lookup before it counts them.
THEOREM CapacityHolds == Spec => []CapacityRespected
  <1>f. /\ IsFiniteSet(Runs) /\ MaxConcurrentRuns \in Nat
        /\ \A S \in SUBSET Runs : IsFiniteSet(S) /\ Cardinality(S) \in Nat
    <2>1. IsFiniteSet(Runs)
      BY RunStateAssumption, FS_Interval DEF Runs
    <2> QED BY <2>1, RunStateAssumption, FS_Subset, FS_CardinalityType
  <1>1. Init => CapacityRespected
    <2> SUFFICES ASSUME Init PROVE CapacityRespected
      OBVIOUS
    <2>1. UnfinishedRuns = {}
      BY DEF Init, AbsentRow, UnfinishedRuns, Unfinished, ResourceStatuses
    <2> QED BY <1>f, <2>1, FS_EmptySet DEF CapacityRespected
  <1>2. ASSUME TypeOK, RowInvariant, CapacityRespected, [Next]_vars
        PROVE  CapacityRespected'
    <2>1. row \in [Runs -> Rows] /\ \A r \in Runs : row[r] \in Rows
      BY <1>2 DEF TypeOK
    <2>2. UnfinishedRuns \in SUBSET Runs /\ UnfinishedRuns' \in SUBSET Runs
      BY DEF UnfinishedRuns
    <2>3. ASSUME \A r \in Runs : Unfinished(r)' => Unfinished(r) PROVE CapacityRespected'
      <3>1. UnfinishedRuns' \subseteq UnfinishedRuns
        BY <2>3 DEF UnfinishedRuns
      <3>2. Cardinality(UnfinishedRuns') <= Cardinality(UnfinishedRuns)
        BY <1>f, <2>2, <3>1, FS_Subset
      <3>3. CapacityRespected' <=> Cardinality(UnfinishedRuns') <= MaxConcurrentRuns
        BY DEF CapacityRespected
      <3> QED BY <1>2, <1>f, <2>2, <3>2, <3>3 DEF CapacityRespected
    <2>4. CASE RowsMove
      BY <1>2, <2>3, <2>4, MovesKeep
    <2>5. ASSUME NEW n \in Runs, Inserts(n) PROVE CapacityRespected'
      <3>1. SlotFree /\ row[n].status = "absent" /\ \A r \in Runs : r # n => row'[r] = row[r]
        BY <2>1, <2>5 DEF Inserts
      <3>2. UnfinishedRuns' \subseteq UnfinishedRuns \cup {n} /\ n \notin UnfinishedRuns
        BY <3>1 DEF UnfinishedRuns, Unfinished, ResourceStatuses
      <3>3. /\ IsFiniteSet(UnfinishedRuns \cup {n})
            /\ Cardinality(UnfinishedRuns \cup {n}) = Cardinality(UnfinishedRuns) + 1
        BY <1>f, <2>2, <3>2, FS_AddElement
      <3>4. Cardinality(UnfinishedRuns') <= Cardinality(UnfinishedRuns) + 1
        BY <3>2, <3>3, FS_Subset
      <3>5. CapacityRespected' <=> Cardinality(UnfinishedRuns') <= MaxConcurrentRuns
        BY DEF CapacityRespected
      <3> QED BY <1>f, <2>2, <3>1, <3>4, <3>5 DEF SlotFree
    <2>6. ASSUME NEW c \in Conversations, Deletes(RunsOf(c)) PROVE CapacityRespected'
      <3>1. \A r \in Runs : row'[r] = IF r \in RunsOf(c)
                                      THEN [row[r] EXCEPT !.status = "deleted"] ELSE row[r]
        BY <2>6 DEF Deletes
      <3>2. \A r \in Runs : Unfinished(r)' => row'[r] = row[r]
        BY <2>1, <3>1 DEF Unfinished, ResourceStatuses, Rows
      <3> QED BY <2>3, <3>2 DEF Unfinished
    <2> QED BY <1>2, <2>4, <2>5, <2>6, TableStep
  <1> QED BY <1>1, <1>2, RowsWellKept, PTL DEF Spec

--------------------
(* How the worker of a Run moves *)

\* What the executor, the launches and the recovery know is untouched.
LEMMA LaunchUntouched ==
    ASSUME UNCHANGED launch, NEW r \in Runs
    PROVE  LaunchStays(r)
  BY DEF LaunchStays, Marked

LEMMA EntryUntouched ==
    ASSUME UNCHANGED <<exec, native, record>>, NEW r \in Runs
    PROVE  EntryStays(r)
  BY DEF EntryStays, Active

LEMMA RecoveryUntouched ==
    ASSUME UNCHANGED recovering, NEW r \in Runs
    PROVE  RecoveryStays(r)
  BY DEF RecoveryStays

\* The entry of a Run with a worker is written, and still has one.
LEMMA ActiveEntryStays ==
    ASSUME TypeOK, NEW r \in Runs, Active(r), NEW e,
           e.phase \notin {"absent", "preparing"}, SetExec(r, e),
           UNCHANGED <<native, record>>, NEW s \in Runs
    PROVE  EntryStays(s)
  <1>1. exec' = [exec EXCEPT ![r] = e] /\ exec \in [Runs -> Entries]
    BY DEF SetExec, TypeOK
  <1>2. CASE s = r
    BY <1>1, <1>2 DEF EntryStays, Active
  <1>3. CASE s # r
    BY <1>1, <1>3 DEF EntryStays, Active
  <1> QED BY <1>2, <1>3

\* The same while the worker dies or is let go of, or leaves its record.
LEMMA WorkerEntryStays ==
    ASSUME TypeOK, NEW r \in Runs, Active(r), NEW e,
           e.phase \notin {"absent", "preparing"}, SetExec(r, e),
           \A x \in Runs \ {r} : native'[x] = native[x] /\ record'[x] = record[x],
           native'[r] = native[r] \/ (Running(r) /\ Running(r)'),
           record'[r] \in {record[r], "held"}, NEW s \in Runs
    PROVE  EntryStays(s)
  <1>1. exec' = [exec EXCEPT ![r] = e] /\ exec \in [Runs -> Entries]
    BY DEF SetExec, TypeOK
  <1>2. CASE s = r
    BY <1>1, <1>2 DEF EntryStays, Active
  <1>3. CASE s # r
    BY <1>1, <1>3 DEF EntryStays, Active
  <1> QED BY <1>2, <1>3

\* stop() leaves an entry with a worker one, and any other as it is.
LEMMA StoppingStays ==
    ASSUME TypeOK, NEW r \in Runs, SetExec(r, Stopping(r)), UNCHANGED <<native, record>>,
           NEW s \in Runs
    PROVE  EntryStays(s)
  <1>0. exec \in [Runs -> Entries] /\ exec[r] \in Entries
    BY DEF TypeOK
  <1>1. CASE ~Active(r)
    <2>1. Stopping(r) = exec[r]
      BY <1>1 DEF Stopping, StopJoins, StopRejects, Active
    <2>2. exec' = exec
      BY <1>0, <2>1 DEF SetExec
    <2> QED BY <2>2, EntryUntouched
  <1>2. CASE Active(r)
    <2>1. Stopping(r).phase \notin {"absent", "preparing"}
      BY <1>0, <1>2 DEF Stopping, StopJoins, StopRejects, Active, Entries
    <2> QED BY <1>2, <2>1, ActiveEntryStays
  <1> QED BY <1>1, <1>2

--------------------
(* The steps after which every worker stays *)

LEMMA ExecutorKeepsWorkers ==
    ASSUME TypeOK, NEW r \in Runs, ExecutorStays(r), NEW s \in Runs
    PROVE  WorkerStays(s)
  <1> USE DEF outsideExecutor, lifecycle
  <1>0. UNCHANGED <<launch, recovering>>
    BY DEF ExecutorStays, Loads, Opened, StartFails, TurnEnds, TurnPaused, AsksPermission,
           ProcessExits, ReleaseFails
  <1>t. /\ exec \in [Runs -> Entries] /\ exec[r] \in Entries
        /\ native \in [Runs -> {"none", "live", "exited", "disconnected", "released"}]
        /\ record \in [Runs -> {"none", "held", "released"}]
    BY DEF TypeOK
  <1>1. EntryStays(s)
    <2>1. ASSUME NEW e, e.phase \notin {"absent", "preparing"}, SetExec(r, e), Active(r),
                 UNCHANGED <<native, record>>
          PROVE  EntryStays(s)
      BY <2>1, ActiveEntryStays
    <2>2. CASE Loads(r)
      <3> DEFINE e == [exec[r] EXCEPT !.phase = "loading"]
      <3>1. e.phase = "loading" /\ SetExec(r, e) /\ Active(r) /\ UNCHANGED <<native, record>>
        BY <1>t, <2>2 DEF Loads, Active, Entries
      <3> HIDE DEF e
      <3> QED BY <2>1, <3>1
    <2>3. CASE Opened(r)
      <3>1. PICK saved \in BOOLEAN :
              /\ record' = IF saved THEN [record EXCEPT ![r] = "held"] ELSE record
              /\ SetExec(r, [exec[r] EXCEPT !.saved = saved, !.start = "ok",
                                !.turn = ~exec[r].restoring,
                                !.phase = IF exec[r].restoring THEN "paused" ELSE "turn"])
        BY <2>3 DEF Opened
      <3> DEFINE e == [exec[r] EXCEPT !.saved = saved, !.start = "ok",
                           !.turn = ~exec[r].restoring,
                           !.phase = IF exec[r].restoring THEN "paused" ELSE "turn"]
      <3>2. e.phase \in {"paused", "turn"}
        BY <1>t DEF Entries
      <3>3. SetExec(r, e) /\ Active(r) /\ UNCHANGED native
        BY <2>3, <3>1 DEF Opened, Active
      <3>4. /\ \A x \in Runs \ {r} : native'[x] = native[x] /\ record'[x] = record[x]
            /\ native'[r] = native[r] /\ record'[r] \in {record[r], "held"}
        BY <1>t, <3>1, <3>3
      <3> HIDE DEF e
      <3> QED BY <3>2, <3>3, <3>4, WorkerEntryStays
    <2>4. CASE StartFails(r)
      <3> DEFINE e == [exec[r] EXCEPT !.phase = "releasing", !.why = "startup"]
      <3>1. e.phase = "releasing" /\ SetExec(r, e) /\ Active(r) /\ UNCHANGED <<native, record>>
        BY <1>t, <2>4 DEF StartFails, Active, Entries
      <3> HIDE DEF e
      <3> QED BY <2>1, <3>1
    <2>5. ASSUME NEW outcome \in Outcomes, TurnEnds(r, outcome) PROVE EntryStays(s)
      <3> DEFINE e == Settling(r, outcome)
      <3>1. e.phase = "releasing" /\ SetExec(r, e) /\ Active(r) /\ UNCHANGED <<native, record>>
        BY <1>t, <2>5 DEF TurnEnds, Settling, Active, Entries
      <3> HIDE DEF e
      <3> QED BY <2>1, <3>1
    <2>6. CASE TurnPaused(r)
      <3> DEFINE e == [exec[r] EXCEPT !.phase = "paused", !.turn = FALSE]
      <3>1. e.phase = "paused" /\ SetExec(r, e) /\ Active(r) /\ UNCHANGED <<native, record>>
        BY <1>t, <2>6 DEF TurnPaused, Active, Entries
      <3> HIDE DEF e
      <3> QED BY <2>1, <3>1
    <2>7. CASE AsksPermission(r)
      <3> DEFINE e == [exec[r] EXCEPT !.asked = exec[r].asked + 1,
                                      !.pending = @ \cup {exec[r].asked + 1}]
      <3>1. e.phase = exec[r].phase /\ SetExec(r, e) /\ Active(r) /\ UNCHANGED <<native, record>>
        BY <1>t, <2>7 DEF AsksPermission, Active, Entries
      <3>2. e.phase \notin {"absent", "preparing"}
        BY <3>1 DEF Active
      <3> HIDE DEF e
      <3> QED BY <2>1, <3>1, <3>2
    <2>8. CASE ProcessExits(r)
      <3>1. /\ \A x \in Runs \ {r} : native'[x] = native[x] /\ record'[x] = record[x]
            /\ Running(r) /\ Running(r)' /\ Active(r) /\ record'[r] \in {record[r], "held"}
        BY <1>t, <2>8 DEF ProcessExits, Running
      <3>2. PICK e \in {exec[r], Settling(r, "failed")} : SetExec(r, e)
        BY <1>t, <2>8 DEF ProcessExits, SetExec
      <3>3. e.phase \notin {"absent", "preparing"}
        BY <1>t, <3>1, <3>2 DEF Active, Settling, Entries
      <3> QED BY <3>1, <3>2, <3>3, WorkerEntryStays
    <2>9. CASE ReleaseFails(r)
      <3>1. Active(r) /\ UNCHANGED record
        BY <2>9 DEF ReleaseFails, Active
      <3>2. \/ UNCHANGED native
            \/ native' = [native EXCEPT ![r] = IF @ = "live" THEN "disconnected" ELSE @]
        BY <2>9 DEF ReleaseFails
      <3>3. /\ \A x \in Runs \ {r} : native'[x] = native[x] /\ record'[x] = record[x]
            /\ native'[r] = native[r] \/ (Running(r) /\ Running(r)')
            /\ record'[r] \in {record[r], "held"}
        BY <1>t, <3>1, <3>2 DEF Running
      <3>4. PICK start \in StartAfterRelease(r), turn \in {FALSE, exec[r].turn /\ ~exec[r].settled} :
              SetExec(r, [exec[r] EXCEPT !.phase = "unreleased", !.start = start, !.turn = turn,
                             !.why = IF @ = "startup" THEN @ ELSE None])
        BY <2>9 DEF ReleaseFails
      <3> DEFINE e == [exec[r] EXCEPT !.phase = "unreleased", !.start = start, !.turn = turn,
                           !.why = IF @ = "startup" THEN @ ELSE None]
      <3>5. e.phase = "unreleased" /\ SetExec(r, e)
        BY <1>t, <3>4 DEF Entries
      <3> HIDE DEF e
      <3> QED BY <3>1, <3>3, <3>5, WorkerEntryStays
    <2> QED BY <2>2, <2>3, <2>4, <2>5, <2>6, <2>7, <2>8, <2>9 DEF ExecutorStays
  <1> QED BY <1>0, <1>1, LaunchUntouched, RecoveryUntouched DEF WorkerStays

\* An action that can be offered is offered for a worker.
LEMMA OfferedToWorker ==
    ASSUME NEW r \in Runs, NEW c, NEW action, Controllable(c, r, action),
           action # "cancel"
    PROVE  Active(r)
  <1>1. action \in RuntimeActions(r)
    BY DEF Controllable, Actions
  <1>2. RecoveryState(r) = "attached"
    BY <1>1 DEF RuntimeActions
  <1> QED BY <1>2 DEF RecoveryState

\* The controls end workers, but only through the executor.
LEMMA ControlKeepsWorkers ==
    ASSUME TypeOK, \A r \in Runs : StartKnown(r), NEW c \in Controls, ControlStep(c),
           NEW s \in Runs
    PROVE  WorkerStays(s)
  <1> USE DEF lifecycle, files, tasks, executor
  <1>t. /\ exec \in [Runs -> Entries] /\ \A x \in Runs : exec[x] \in Entries
        /\ launch \in [Runs -> Launches] /\ \A x \in Runs : launch[x] \in Launches
    BY DEF TypeOK
  <1>r. RecoveryStays(s)
    <2>1. UNCHANGED recovering
      BY ControlLeaves
    <2> QED BY <2>1, RecoveryUntouched
  <1>e. ASSUME NEW r \in Runs, NEW e, e.phase \notin {"absent", "preparing"}, SetExec(r, e),
               Active(r), UNCHANGED <<launch, native, record>>
        PROVE  WorkerStays(s)
    BY <1>e, <1>r, ActiveEntryStays, LaunchUntouched DEF WorkerStays
  <1>1. ASSUME NEW r \in Runs, InterruptBegins(c, r) PROVE WorkerStays(s)
    <2> DEFINE e == [exec[r] EXCEPT !.phase = "interrupting"]
    <2>1. Active(r)
      BY <1>1, OfferedToWorker DEF InterruptBegins
    <2>2. e.phase = "interrupting" /\ SetExec(r, e) /\ UNCHANGED <<launch, native, record>>
      BY <1>1, <1>t DEF InterruptBegins, Entries
    <2> HIDE DEF e
    <2> QED BY <2>1, <2>2, <1>e
  <1>2. ASSUME NEW r \in Runs, ResumeBegins(c, r) PROVE WorkerStays(s)
    <2> DEFINE e == [exec[r] EXCEPT !.phase = "turn", !.turn = TRUE]
    <2>1. Active(r)
      BY <1>2, OfferedToWorker DEF ResumeBegins
    <2>2. e.phase = "turn" /\ SetExec(r, e) /\ UNCHANGED <<launch, native, record>>
      BY <1>2, <1>t DEF ResumeBegins, Entries
    <2> HIDE DEF e
    <2> QED BY <2>1, <2>2, <1>e
  <1>3. ASSUME NEW r \in Runs, RespondBegins(c, r) PROVE WorkerStays(s)
    <2> DEFINE e == [exec[r] EXCEPT !.pending = @ \ {row[r].permission}]
    <2>1. Active(r)
      BY <1>3, OfferedToWorker DEF RespondBegins
    <2>2. e.phase = exec[r].phase /\ SetExec(r, e) /\ UNCHANGED <<launch, native, record>>
      BY <1>3, <1>t DEF RespondBegins, Entries
    <2>3. e.phase \notin {"absent", "preparing"}
      BY <2>1, <2>2 DEF Active
    <2> HIDE DEF e
    <2> QED BY <2>1, <2>2, <2>3, <1>e
  <1>4. ASSUME NEW r \in Runs, CancelBegins(c, r) PROVE WorkerStays(s)
    <2>1. UNCHANGED <<native, record>>
      BY <1>4 DEF CancelBegins
    <2>2. EntryStays(s)
      <3>1. UNCHANGED exec \/ SetExec(r, exec[r]) \/ SetExec(r, Stopping(r))
        BY <1>4 DEF CancelBegins
      <3>2. CASE UNCHANGED exec \/ SetExec(r, exec[r])
        BY <1>t, <2>1, <3>2, EntryUntouched DEF SetExec
      <3>3. CASE SetExec(r, Stopping(r))
        BY <2>1, <3>3, StoppingStays
      <3> QED BY <3>1, <3>2, <3>3
    <2>3. PICK b \in BOOLEAN :
            /\ launch' = [launch EXCEPT ![r].cancelled = IF launch[r].held THEN b ELSE @]
            /\ launch[r].held /\ launch[r].step = "waiting" => b
      <3> DEFINE mark(b) ==
            launch' = [launch EXCEPT ![r].cancelled = IF launch[r].held THEN b ELSE @]
      <3>1. CASE launch[r].held /\ launch[r].step \in {"waiting", "skipped"}
        <4>1. mark(TRUE)
          BY <1>4, <3>1 DEF CancelBegins
        <4> QED BY <4>1
      <3>2. CASE ~(launch[r].held /\ launch[r].step \in {"waiting", "skipped"})
        <4>1. mark(TRUE) \/ mark(FALSE)
          BY <1>4, <3>2 DEF CancelBegins
        <4> QED BY <3>2, <4>1
      <3> QED BY <3>1, <3>2
    <2>4. LaunchStays(s)
      BY <1>t, <2>3 DEF LaunchStays, Marked, Launches
    <2> QED BY <1>r, <2>2, <2>4 DEF WorkerStays
  <1>5. CASE InterruptFails(c)
    BY <1>5, <1>r, LaunchUntouched, EntryUntouched DEF InterruptFails, WorkerStays
  <1>6. CASE InterruptRejected(c)
    <2> DEFINE r == ctl[c].run
               e == [exec[r] EXCEPT !.phase = "turn"]
    <2>1. r \in Runs
      BY <1>6, ControlledRun DEF InterruptRejected
    <2>2. /\ e.phase = "turn" /\ SetExec(r, e) /\ UNCHANGED <<launch, native, record>>
          /\ Active(r)
      BY <1>6, <1>t, <2>1 DEF InterruptRejected, Entries, Active
    <2> HIDE DEF e
    <2> QED BY <2>1, <2>2, <1>e
  <1>7. CASE CancelReleased(c)
    <2> DEFINE r == ctl[c].run
    <2>1. r \in Runs
      BY <1>7, ControlledRun DEF CancelReleased
    <2>2. \/ UNCHANGED launch
          \/ Active(r) /\ launch' = [launch EXCEPT ![r].cancelled = IF launch[r].held THEN FALSE
                                                                     ELSE @]
      BY <1>7 DEF CancelReleased
    <2>3. Active(r) => launch[r].step # "waiting"
      BY <2>1 DEF StartKnown, Active
    <2>4. LaunchStays(s)
      BY <1>t, <2>1, <2>2, <2>3 DEF LaunchStays, Marked, Launches
    <2> QED BY <1>7, <1>r, <2>4, EntryUntouched DEF CancelReleased, WorkerStays
  <1>8. CASE CancelJoined(c)
    <2> DEFINE r == ctl[c].run
    <2>1. r \in Runs
      BY <1>8, ControlledRun DEF CancelJoined
    <2>2. ~Marked(r) /\ launch' = [launch EXCEPT ![r].held = FALSE]
      BY <1>8, <2>1 DEF CancelJoined, LaunchOver, Marked
    <2>3. LaunchStays(s)
      BY <1>t, <2>1, <2>2 DEF LaunchStays, Marked, Launches
    <2> QED BY <1>8, <1>r, <2>3, EntryUntouched DEF CancelJoined, WorkerStays
  <1> QED BY <1>1, <1>2, <1>3, <1>4, <1>5, <1>6, <1>7, <1>8 DEF ControlStep

\* close() suspends or stops workers, through the executor.
LEMMA CloseKeepsWorkers ==
    ASSUME TypeOK, \A r \in Runs : StartKnown(r), CloseStep, NEW s \in Runs
    PROVE  WorkerStays(s)
  <1> USE DEF lifecycle, files, tasks, executor
  <1>t. /\ exec \in [Runs -> Entries] /\ \A x \in Runs : exec[x] \in Entries
        /\ launch \in [Runs -> Launches] /\ \A x \in Runs : launch[x] \in Launches
    BY DEF TypeOK
  <1>r. RecoveryStays(s)
    <2>1. UNCHANGED recovering
      BY CloseLeaves
    <2> QED BY <2>1, RecoveryUntouched
  <1>1. CASE Close
    <2>1. LaunchStays(s)
      BY <1>1, <1>t DEF Close, LaunchStays, Marked, Launches
    <2> QED BY <1>1, <1>r, <2>1, EntryUntouched DEF Close, WorkerStays
  <1>2. CASE CloseProbes \/ SuspendEnds \/ CloseSettles
    <2>1. UNCHANGED <<launch, exec, native, record>>
      BY <1>2 DEF CloseProbes, SuspendEnds, CloseSettles
    <2> QED BY <1>r, <2>1, LaunchUntouched, EntryUntouched DEF WorkerStays
  <1>3. CASE SuspendBegins
    <2> DEFINE r == First(closing.todo)
    <2>1. r \in Runs
      <3>1. closing.todo \in SUBSET Runs /\ closing.todo # {}
        BY <1>3 DEF SuspendBegins, TypeOK, ClosingTasks
      <3> QED BY <3>1, FirstIsMember
    <2>2. UNCHANGED <<launch, native, record>>
      BY <1>3 DEF SuspendBegins
    <2>3. CASE Suspends(r)
      <3> DEFINE e == [exec[r] EXCEPT !.phase = "releasing", !.why = "suspend"]
      <3>1. Active(r)
        BY <2>1, <2>3 DEF Suspends, StartKnown, Active
      <3>2. e.phase = "releasing" /\ SetExec(r, e)
        BY <1>3, <1>t, <2>1, <2>3 DEF SuspendBegins, Entries
      <3> HIDE DEF e
      <3>3. EntryStays(s)
        BY <2>1, <2>2, <3>1, <3>2, ActiveEntryStays
      <3> QED BY <1>r, <2>2, <3>3, LaunchUntouched DEF WorkerStays
    <2>4. CASE ~Suspends(r)
      <3>1. SetExec(r, Stopping(r))
        BY <1>3, <2>4 DEF SuspendBegins
      <3>2. EntryStays(s)
        BY <2>1, <2>2, <3>1, StoppingStays
      <3> QED BY <1>r, <2>2, <3>2, LaunchUntouched DEF WorkerStays
    <2> QED BY <2>3, <2>4
  <1>4. CASE CloseDrains
    <2>1. LaunchStays(s)
      BY <1>4, <1>t DEF CloseDrains, LaunchStays, Marked, Launches, LaunchOver
    <2> QED BY <1>4, <1>r, <2>1, EntryUntouched DEF CloseDrains, WorkerStays
  <1> QED BY <1>1, <1>2, <1>3, <1>4 DEF CloseStep

\* A deletion stops workers, through the executor, and marks launches.
LEMMA DeleteKeepsWorkers ==
    ASSUME TypeOK, \A r \in Runs : StartKnown(r), NEW c \in Conversations, DeleteStep(c),
           NEW s \in Runs
    PROVE  WorkerStays(s)
  <1> USE DEF deletionOthers, files, tasks, executor
  <1>t. /\ exec \in [Runs -> Entries] /\ \A x \in Runs : exec[x] \in Entries
        /\ launch \in [Runs -> Launches] /\ \A x \in Runs : launch[x] \in Launches
        /\ deletion[c] \in DeletionTasks
    BY DEF TypeOK
  <1>r. RecoveryStays(s)
    <2>1. UNCHANGED recovering
      BY DeleteLeaves
    <2> QED BY <2>1, RecoveryUntouched
  <1>d. DeleteThrows(c) => LaunchStays(s)
    BY <1>t DEF DeleteThrows, Unbegun, LaunchStays, Marked, Launches
  <1>1. CASE \/ DeleteBegins(c) \/ DeleteCollects(c) \/ \E r \in Runs : DeleteCaptured(c, r)
             \/ DeleteDrains(c) \/ DeleteClears(c) \/ DeleteEnds(c) \/ DeleteFails(c)
    <2>1. UNCHANGED <<launch, exec, native, record>>
      BY <1>1 DEF DeleteBegins, DeleteCollects, DeleteCaptured, DeleteDrains, DeleteClears,
                  DeleteEnds, DeleteFails
    <2> QED BY <1>r, <2>1, LaunchUntouched, EntryUntouched DEF WorkerStays
  <1>2. ASSUME NEW r \in Runs, DeleteStops(c, r) PROVE WorkerStays(s)
    <2>1. UNCHANGED <<native, record>>
      BY <1>2 DEF DeleteStops
    <2>2. SetExec(r, exec[r]) \/ SetExec(r, Stopping(r))
      BY <1>2 DEF DeleteStops
    <2>3. EntryStays(s)
      BY <1>t, <2>1, <2>2, EntryUntouched, StoppingStays DEF SetExec
    <2>4. CASE DeleteThrows(c)
      BY <1>r, <1>d, <2>3, <2>4 DEF WorkerStays
    <2>5. CASE launch' = [launch EXCEPT ![r].cancelled = @ \/ launch[r].held]
      <3>1. LaunchStays(s)
        BY <1>t, <2>5 DEF LaunchStays, Marked, Launches
      <3> QED BY <1>r, <2>3, <3>1 DEF WorkerStays
    <2> QED BY <1>2, <2>4, <2>5 DEF DeleteStops
  <1>3. CASE DeleteStopped(c)
    <2> DEFINE r == deletion[c].current
    <2>1. r \in Runs
      BY <1>3, <1>t DEF DeleteStopped, DeletionTasks
    <2>2. CASE DeleteThrows(c)
      BY <1>3, <1>r, <1>d, <2>2, EntryUntouched DEF DeleteStopped, WorkerStays
    <2>3. CASE LaunchOver(r) /\ launch' = [launch EXCEPT ![r].held = FALSE]
      <3>1. LaunchStays(s)
        BY <1>t, <2>1, <2>3 DEF LaunchStays, Marked, Launches, LaunchOver
      <3> QED BY <1>3, <1>r, <3>1, EntryUntouched DEF DeleteStopped, WorkerStays
    <2> QED BY <1>3, <2>2, <2>3 DEF DeleteStopped
  <1>4. CASE DeleteUndone(c)
    <2>1. LaunchStays(s)
      BY <1>4, <1>t DEF DeleteUndone, LaunchStays, Marked, Launches
    <2> QED BY <1>4, <1>r, <2>1, EntryUntouched DEF DeleteUndone, WorkerStays
  <1> QED BY <1>1, <1>2, <1>3, <1>4 DEF DeleteStep

\* Captures, deliveries and the end of a launch touch no worker.
LEMMA RunStepKeepsWorkers ==
    ASSUME TypeOK, NEW r \in Runs, RunStep(r), ~LaunchBegins(r), ~LaunchRefused(r),
           NEW s \in Runs
    PROVE  WorkerStays(s)
  <1> USE DEF files, executor, tasks, invocations, lifecycle, tables
  <1>t. /\ exec \in [Runs -> Entries] /\ \A x \in Runs : exec[x] \in Entries
        /\ launch \in [Runs -> Launches] /\ \A x \in Runs : launch[x] \in Launches
    BY DEF TypeOK
  <1>1. CASE LaunchEnds(r)
    <2> DEFINE e == [exec[r] EXCEPT !.start = "none"]
    <2>1. /\ e.phase = exec[r].phase /\ e.saved = exec[r].saved /\ e.start = "none"
          /\ exec' = [exec EXCEPT ![r] = e] /\ exec[r].start # "pending"
          /\ UNCHANGED <<native, record, recovering>>
      BY <1>1, <1>t DEF LaunchEnds, SetExec, Entries
    <2> HIDE DEF e
    <2>2. EntryStays(s)
      BY <1>t, <2>1 DEF EntryStays, Active
    <2>3. LaunchStays(s)
      <3>1. launch[r].step = "started" /\ (launch[r].held /\ launch[r].cancelled) \in BOOLEAN
        BY <1>1, <1>t DEF LaunchEnds, Launches
      <3>2. launch' = [launch EXCEPT ![r].step = "ended",
                                     ![r].held = launch[r].held /\ launch[r].cancelled]
        BY <1>1 DEF LaunchEnds
      <3> DEFINE l(b) == [launch[r] EXCEPT !.step = "ended", !.held = b]
      <3>3. /\ launch'[r].step = "ended" /\ (launch'[r].held => launch[r].held)
            /\ \A x \in Runs \ {r} : launch'[x] = launch[x]
        <4>1. CASE launch[r].held /\ launch[r].cancelled
          <5>1. launch' = [launch EXCEPT ![r] = l(TRUE)]
            BY <1>t, <3>2, <4>1 DEF Launches
          <5>2. l(TRUE).step = "ended"
            BY <1>t DEF Launches
          <5> QED BY <1>t, <4>1, <5>1, <5>2
        <4>2. CASE ~(launch[r].held /\ launch[r].cancelled)
          <5>1. launch' = [launch EXCEPT ![r] = l(FALSE)]
            BY <1>t, <3>2, <4>2 DEF Launches
          <5>2. l(FALSE).step = "ended" /\ l(FALSE).held = FALSE
            BY <1>t DEF Launches
          <5> QED BY <1>t, <5>1, <5>2
        <4> QED BY <4>1, <4>2
      <3>4. CASE s = r
        BY <1>t, <3>1, <3>3, <3>4 DEF LaunchStays, Marked
      <3>5. CASE s # r
        BY <1>t, <3>3, <3>5 DEF LaunchStays, Marked
      <3> QED BY <3>4, <3>5
    <2> QED BY <2>1, <2>2, <2>3, RecoveryUntouched DEF WorkerStays
  <1>2. CASE ~LaunchEnds(r)
    <2>1. UNCHANGED <<launch, exec, native, record, recovering>>
      BY <1>2 DEF RunStep, CaptureEnds, AttemptEnds, RetryDelivery
    <2> QED BY <2>1, LaunchUntouched, EntryUntouched, RecoveryUntouched DEF WorkerStays
  <1> QED BY <1>1, <1>2

\* Neither do the closures of the queue, nor an invocation that is refused.
LEMMA QueueKeepsWorkers ==
    ASSUME \/ RunNextEvent
           \/ \E d \in Delegations, q \in Calls : Delegate(d, q)
           \/ \E d \in Delegations : AdmissionRefused(d),
           NEW s \in Runs
    PROVE  WorkerStays(s)
  <1>1. UNCHANGED <<launch, exec, native, record, recovering>>
    BY DEF RunNextEvent, Delegate, AdmissionRefused, AdmissionSettles, files, executor, tasks,
           lifecycle
  <1> QED BY <1>1, LaunchUntouched, EntryUntouched, RecoveryUntouched DEF WorkerStays

\* The recovery goes on from a Run it defers, or is over.
LEMMA RecoveryKeepsWorkers ==
    ASSUME TypeOK, RestoreDeferred \/ RecoveryEnds \/ ReconcilePending, NEW s \in Runs
    PROVE  WorkerStays(s)
  <1>1. UNCHANGED <<launch, exec, native, record>>
    BY DEF RestoreDeferred, RecoveryEnds, ReconcilePending, files, executor, tasks
  <1>2. RecoveryStays(s)
    <2>1. recovering \in RecoveryTasks
      BY DEF TypeOK
    <2>2. recovering'.todo \subseteq recovering.todo /\ recovering'.current \in {recovering.current, None}
      BY <2>1 DEF RestoreDeferred, RecoveryEnds, ReconcilePending, RecoveryTasks, Recovered
    <2> QED BY <2>2, NoneIsNoRun DEF RecoveryStays
  <1> QED BY <1>1, <1>2, LaunchUntouched, EntryUntouched DEF WorkerStays

--------------------
(* What is known of a Run's worker stays known *)

\* No row becomes absent.
LEMMA RowsStayAdmitted ==
    ASSUME TypeOK, RowInvariant, [Next]_vars, NEW r \in Runs, row'[r].status = "absent"
    PROVE  row[r].status = "absent"
  <1>1. CASE RowsMove
    BY <1>1 DEF RowsMove, Moves
  <1>2. ASSUME NEW n \in Runs, Inserts(n) PROVE row[r].status = "absent"
    BY <1>2 DEF Inserts, TypeOK, Rows, AbsentRow
  <1>3. ASSUME NEW c \in Conversations, Deletes(RunsOf(c)) PROVE row[r].status = "absent"
    BY <1>3 DEF Deletes, TypeOK, Rows
  <1> QED BY <1>1, <1>2, <1>3, TableStep

LEMMA StaysKnown ==
    ASSUME NEW r \in Runs, StartKnown(r), WorkerStays(r),
           row'[r].status = "absent" => row[r].status = "absent"
    PROVE  StartKnown(r)'
  <1>1. LaunchStays(r) /\ EntryStays(r) /\ RecoveryStays(r)
    BY DEF WorkerStays
  <1>2. CASE Active(r)
    <2>1. /\ Active(r)' /\ record[r] # "released" /\ record'[r] # "released"
          /\ launch[r].step \notin {"waiting", "skipped"} /\ r \notin recovering.todo
          /\ row[r].status # "absent"
      BY <1>1, <1>2 DEF StartKnown, Active, EntryStays
    <2> QED BY <1>1, <1>2, <2>1 DEF StartKnown, Active, LaunchStays, RecoveryStays
  <1>3. CASE ~Active(r)
    <2>1. /\ exec[r].phase \in {"absent", "preparing"} /\ exec'[r].phase = exec[r].phase
          /\ exec'[r].saved = exec[r].saved /\ record'[r] = record[r]
      BY <1>1, <1>3 DEF EntryStays, Active
    <2>2. \/ exec'[r].start = exec[r].start
          \/ exec[r].start # "pending" /\ exec'[r].start = "none"
      BY <1>1, <1>3 DEF EntryStays
    <2>3. Running(r)' => Running(r)
      BY <1>1 DEF EntryStays, Running
    <2>4. native[r] = "none" => native'[r] = "none"
      BY <1>1 DEF EntryStays, Running
    <2> QED BY <1>1, <2>1, <2>2, <2>3, <2>4 DEF StartKnown, LaunchStays, RecoveryStays
  <1> QED BY <1>2, <1>3

LEMMA StaysLasts ==
    ASSUME NEW r \in Runs, WorkerStays(r),
           row'[r].status = "absent" => row[r].status = "absent"
    PROVE  Lasts(r)
  <1>1. LaunchStays(r) /\ EntryStays(r) /\ RecoveryStays(r)
    BY DEF WorkerStays
  <1>2. ASSUME Ended(r) PROVE Ended(r)'
    <2>1. launch'[r].step # "waiting" /\ r \notin recovering'.todo /\ row'[r].status # "absent"
      BY <1>1, <1>2 DEF LaunchStays, RecoveryStays, Ended
    <2>2. exec'[r].phase # "preparing"
      BY <1>1, <1>2 DEF EntryStays, Active, Ended
    <2>3. exec'[r].phase = "absent" => exec[r].phase = "absent"
      BY <1>1, <1>2 DEF EntryStays, Active
    <2>4. Running(r)' => Running(r)
      BY <1>1 DEF EntryStays, Running
    <2> QED BY <1>2, <2>1, <2>2, <2>3, <2>4 DEF Ended
  <1>3. ASSUME Gone(r) PROVE Gone(r)'
    <2>1. exec'[r].phase = "absent"
      BY <1>1, <1>3 DEF Gone, EntryStays, Active
    <2> QED BY <1>2, <1>3, <2>1 DEF Gone
  <1>4. Marked(r) => Marked(r)'
    BY <1>1 DEF LaunchStays
  <1> QED BY <1>2, <1>3, <1>4 DEF Lasts

\* A step that writes nothing of a Run leaves its worker.
LEMMA OthersStay ==
    ASSUME NEW s \in Runs, launch'[s] = launch[s], exec'[s] = exec[s], native'[s] = native[s],
           record'[s] = record[s], RecoveryStays(s)
    PROVE  WorkerStays(s)
  BY DEF WorkerStays, LaunchStays, EntryStays, Marked, Active

\* admit() begins with a row nothing is known of.
LEMMA AdmitKeepsWorkers ==
    ASSUME TypeOK, RowInvariant, \A r \in Runs : StartKnown(r), NEW d \in Delegations, Admit(d),
           NEW s \in Runs
    PROVE  Keeps(s)
  <1> USE DEF files, executor, lifecycle
  <1>1. PICK n \in Runs :
          /\ row[n].status = "absent"
          /\ launch' = [launch EXCEPT ![n] = [step |-> "waiting", held |-> TRUE, cancelled |-> FALSE]]
          /\ \E q : row' = [row EXCEPT ![n] = [AbsentRow EXCEPT !.status = "enqueued", !.call = q]]
    <2> DEFINE fresh == {r \in Runs : row[r].status = "absent"}
    <2>1. First(fresh) \in fresh /\ First(fresh) \in Runs
      BY FirstIsMember DEF Admit
    <2> QED BY <2>1 DEF Admit
  <1>2. UNCHANGED <<exec, native, record, recovering>>
    BY DEF Admit, AdmissionSettles
  <1>t. launch \in [Runs -> Launches] /\ row \in [Runs -> Rows] /\ row[n].status = "absent"
    BY <1>1 DEF TypeOK
  <1>3. CASE s = n
    <2>1. StartKnown(n) /\ n \notin recovering.todo /\ recovering.current # n
      BY <1>1, <1>t, NoneIsNoRun DEF RowInvariant, RecoveryKnows
    <2>2. row'[n].status = "enqueued"
      BY <1>1, <1>2, <1>t DEF AbsentRow
    <2>3. launch[n].step = "none" /\ exec[n].phase = "absent" /\ native[n] = "none" /\ record[n] = "none"
      BY <1>t, <2>1 DEF StartKnown
    <2>4. launch'[n].step = "waiting" /\ launch'[n].held
      BY <1>1, <1>2, <1>t
    <2>5. exec[n].phase \in {"absent", "preparing"} => ~exec[n].saved
      BY <2>1 DEF StartKnown
    <2>6. StartKnown(n)'
      BY <1>2, <2>1, <2>2, <2>3, <2>4, <2>5 DEF StartKnown, Running
    <2>7. ~Ended(n) /\ ~Gone(n) /\ ~Marked(n)
      BY <1>t, <2>3 DEF Ended, Gone, Marked
    <2> QED BY <1>3, <2>6, <2>7 DEF Keeps, Lasts
  <1>4. CASE s # n
    <2>1. WorkerStays(s)
      BY <1>1, <1>2, <1>t, <1>4, RecoveryUntouched, OthersStay
    <2>2. row'[s] = row[s] /\ StartKnown(s)
      BY <1>1, <1>2, <1>t, <1>4
    <2> QED BY <2>1, <2>2, StaysKnown, StaysLasts DEF Keeps
  <1> QED BY <1>3, <1>4

\* A launch begins with the entry it found absent, or does not begin.
LEMMA LaunchKeepsWorkers ==
    ASSUME TypeOK, RowInvariant, [Next]_vars, \A r \in Runs : StartKnown(r), NEW r \in Runs,
           LaunchBegins(r) \/ LaunchRefused(r), NEW s \in Runs
    PROVE  Keeps(s)
  <1> USE DEF files, executor, tasks, tables, lifecycle
  <1>t. /\ exec \in [Runs -> Entries] /\ launch \in [Runs -> Launches] /\ launch[r] \in Launches
        /\ StartKnown(r) /\ StartKnown(s)
    BY DEF TypeOK
  <1>u. UNCHANGED <<native, record, recovering>> /\ launch[r].step = "waiting"
    BY DEF LaunchBegins, LaunchRefused
  <1>0. row'[s].status = "absent" => row[s].status = "absent"
    BY RowsStayAdmitted
  <1>1. CASE s # r
    <2>1. launch'[s] = launch[s] /\ exec'[s] = exec[s]
      BY <1>1, <1>t DEF LaunchBegins, LaunchRefused, SetExec
    <2>2. WorkerStays(s)
      BY <1>u, <2>1, RecoveryUntouched, OthersStay
    <2> QED BY <1>0, <1>t, <2>2, StaysKnown, StaysLasts DEF Keeps
  <1>2. CASE s = r
    <2>1. /\ exec[r].phase = "absent" /\ native[r] = "none" /\ record[r] = "none"
          /\ recovering.current # r /\ r \notin recovering.todo /\ row[r].status # "absent"
      BY <1>t, <1>u DEF StartKnown
    <2>2. ~Ended(r) /\ ~Gone(r) /\ ~exec[r].saved
      BY <1>t, <1>u, <2>1 DEF Ended, Gone, StartKnown
    <2>3. \/ launch'[r].step = "skipped" /\ UNCHANGED exec
          \/ launch'[r].step = "started" /\ SetExec(r, Preparing(FALSE)) /\ ~launch[r].cancelled
      <3>1. CASE LaunchRefused(r)
        BY <1>t, <3>1 DEF LaunchRefused, Launches
      <3>2. CASE LaunchBegins(r) /\ LaunchCancelled(r)
        <4>1. /\ launch' = [launch EXCEPT ![r] = [launch[r] EXCEPT !.step = "skipped", !.cancelled = TRUE]]
              /\ UNCHANGED exec
          BY <3>2 DEF LaunchBegins
        <4>2. [launch[r] EXCEPT !.step = "skipped", !.cancelled = TRUE].step = "skipped"
          BY <1>t DEF Launches
        <4> QED BY <1>t, <4>1, <4>2
      <3>3. CASE LaunchBegins(r) /\ ~LaunchCancelled(r) /\ row[r].completed
        <4>1. /\ launch' = [launch EXCEPT ![r] = [launch[r] EXCEPT !.step = "skipped", !.held = FALSE]]
              /\ UNCHANGED exec
          BY <3>3 DEF LaunchBegins
        <4>2. [launch[r] EXCEPT !.step = "skipped", !.held = FALSE].step = "skipped"
          BY <1>t DEF Launches
        <4> QED BY <1>t, <4>1, <4>2
      <3>4. CASE LaunchBegins(r) /\ ~LaunchCancelled(r) /\ ~row[r].completed
        <4>1. ~launch[r].cancelled
          BY <3>4 DEF LaunchCancelled
        <4>2. launch'[r].step = "started" /\ SetExec(r, Preparing(FALSE))
          BY <1>t, <3>4 DEF LaunchBegins, Launches
        <4> QED BY <4>1, <4>2
      <3> QED BY <3>1, <3>2, <3>3, <3>4
    <2>4. CASE launch'[r].step = "skipped" /\ UNCHANGED exec
      <3>1. StartKnown(r)'
        BY <1>0, <1>2, <1>t, <1>u, <2>1, <2>4 DEF StartKnown, Running
      <3>2. Gone(r)'
        BY <1>0, <1>2, <1>u, <2>1, <2>4 DEF Gone, Ended, Running
      <3> QED BY <1>2, <2>2, <3>1, <3>2 DEF Keeps, Lasts
    <2>5. CASE launch'[r].step = "started" /\ SetExec(r, Preparing(FALSE)) /\ ~launch[r].cancelled
      <3>1. /\ Preparing(FALSE).phase = "preparing" /\ Preparing(FALSE).start = "pending"
            /\ Preparing(FALSE).saved = FALSE
        BY DEF Preparing, AbsentExec
      <3>2. /\ exec'[r].phase = "preparing" /\ exec'[r].start = "pending"
            /\ exec'[r].saved = FALSE
        BY <1>t, <2>5, <3>1 DEF SetExec
      <3>3. StartKnown(r)'
        BY <1>0, <1>2, <1>t, <1>u, <2>1, <2>5, <3>2 DEF StartKnown, Running
      <3> QED BY <1>2, <2>2, <2>5, <3>3 DEF Keeps, Lasts, Marked
    <2> QED BY <2>3, <2>4, <2>5
  <1> QED BY <1>1, <1>2

\* The executor spawns a worker for an entry that has none, and removes the
\* entry of one it released.
LEMMA EntryKeepsWorkers ==
    ASSUME TypeOK, RowInvariant, [Next]_vars, \A r \in Runs : StartKnown(r), NEW r \in Runs,
           Spawn(r) \/ PrepareFails(r) \/ ReleaseSucceeds(r), NEW s \in Runs
    PROVE  Keeps(s)
  <1> USE DEF outsideExecutor, tasks, lifecycle
  <1>t. /\ exec \in [Runs -> Entries] /\ exec[r] \in Entries
        /\ native \in [Runs -> {"none", "live", "exited", "disconnected", "released"}]
        /\ record \in [Runs -> {"none", "held", "released"}]
        /\ StartKnown(r) /\ StartKnown(s)
    BY DEF TypeOK
  <1>u. UNCHANGED <<launch, recovering>>
    BY DEF Spawn, PrepareFails, ReleaseSucceeds
  <1>0. row'[s].status = "absent" => row[s].status = "absent"
    BY RowsStayAdmitted
  <1>1. CASE s # r
    <2>1. exec'[s] = exec[s] /\ native'[s] = native[s] /\ record'[s] = record[s]
      BY <1>1, <1>t DEF Spawn, PrepareFails, ReleaseSucceeds, SetExec
    <2>2. WorkerStays(s)
      BY <1>u, <2>1, RecoveryUntouched, OthersStay
    <2> QED BY <1>0, <1>t, <2>2, StaysKnown, StaysLasts DEF Keeps
  <1>2. CASE s = r
    <2>1. /\ exec[r].phase # "absent" /\ r \notin recovering.todo /\ row[r].status # "absent"
          /\ launch[r].step \notin {"waiting", "skipped"}
      BY <1>t DEF StartKnown, Spawn, PrepareFails, ReleaseSucceeds
    <2>2. ~Gone(r) /\ ~Marked(r) /\ (launch[r].held => launch[r].step # "none")
      BY <1>t, <2>1 DEF Gone, Marked, StartKnown
    <2>3. CASE Spawn(r)
      <3> DEFINE e == [exec[r] EXCEPT !.phase = "opening"]
      <3>1. e.phase = "opening" /\ SetExec(r, e)
        BY <1>t, <2>3 DEF Spawn, Entries
      <3> HIDE DEF e
      <3>2. exec'[r].phase = "opening" /\ record'[r] # "released" /\ ~Ended(r)
        BY <1>t, <2>3, <3>1 DEF Spawn, SetExec, StartKnown, Ended
      <3>3. StartKnown(r)'
        BY <1>0, <1>2, <1>u, <2>1, <2>2, <3>2 DEF StartKnown
      <3> QED BY <1>2, <2>2, <3>2, <3>3 DEF Keeps, Lasts
    <2>4. CASE PrepareFails(r)
      <3> DEFINE e == [AbsentExec EXCEPT !.start = "failed", !.restoring = exec[r].restoring]
      <3>1. e.phase = "absent" /\ e.saved = FALSE /\ SetExec(r, e)
        BY <2>4 DEF PrepareFails, AbsentExec
      <3> HIDE DEF e
      <3>2. /\ exec'[r].phase = "absent" /\ exec'[r].saved = FALSE
            /\ UNCHANGED <<native, record>> /\ ~Ended(r) /\ ~Running(r)
        BY <1>t, <2>4, <3>1 DEF PrepareFails, SetExec, Ended, StartKnown
      <3>3. StartKnown(r)'
        BY <1>0, <1>2, <1>u, <2>1, <2>2, <3>2 DEF StartKnown, Running
      <3> QED BY <1>2, <2>2, <3>2, <3>3 DEF Keeps, Lasts
    <2>5. CASE ReleaseSucceeds(r)
      <3>1. PICK start : SetExec(r, [AbsentExec EXCEPT !.start = start, !.restoring = exec[r].restoring])
        BY <2>5 DEF ReleaseSucceeds
      <3> DEFINE e == [AbsentExec EXCEPT !.start = start, !.restoring = exec[r].restoring]
      <3>2. e.phase = "absent" /\ e.saved = FALSE /\ SetExec(r, e)
        BY <3>1 DEF AbsentExec
      <3> HIDE DEF e
      <3>3. exec'[r].phase = "absent" /\ exec'[r].saved = FALSE /\ native'[r] = "released"
        BY <1>t, <2>5, <3>2 DEF ReleaseSucceeds, SetExec
      <3>4. StartKnown(r)'
        BY <1>0, <1>2, <1>u, <2>1, <2>2, <3>3 DEF StartKnown, Running
      <3>5. Ended(r)'
        BY <1>0, <1>2, <1>u, <2>1, <3>3 DEF Ended, Running
      <3> QED BY <1>2, <2>2, <3>4, <3>5 DEF Keeps, Lasts
    <2> QED BY <2>3, <2>4, <2>5
  <1> QED BY <1>1, <1>2

\* The recovery claims the record of a worker that was released, and gives it
\* back when nothing is left of the new one.
LEMMA RestoreKeepsWorkers ==
    ASSUME TypeOK, RowInvariant, [Next]_vars, \A r \in Runs : StartKnown(r),
           RestoreBegins \/ RestoreEnds, NEW s \in Runs
    PROVE  Keeps(s)
  <1> USE DEF tasks
  <1>t. /\ exec \in [Runs -> Entries] /\ record \in [Runs -> {"none", "held", "released"}]
        /\ recovering \in RecoveryTasks /\ StartKnown(s)
    BY DEF TypeOK
  <1>u. UNCHANGED <<launch, native>>
    BY DEF RestoreBegins, RestoreEnds
  <1>0. row'[s].status = "absent" => row[s].status = "absent"
    BY RowsStayAdmitted
  <1>1. CASE RestoreBegins
    <2>1. PICK r \in recovering.todo :
            /\ recovering.current = None
            /\ IF Restorable(r)
               THEN /\ record' = [record EXCEPT ![r] = "held"]
                    /\ SetExec(r, Preparing(TRUE))
                    /\ recovering' = [recovering EXCEPT !.todo = @ \ {r}, !.current = r]
               ELSE /\ recovering' = [recovering EXCEPT !.todo = @ \ {r}]
                    /\ UNCHANGED <<record, exec>>
      <3>1. First(recovering.todo) \in recovering.todo
        BY <1>1, <1>t, FirstIsMember DEF RestoreBegins, RecoveryTasks
      <3> QED BY <1>1, <3>1 DEF RestoreBegins
    <2>2. /\ r \in Runs /\ row[r].status # "absent" /\ StartKnown(r)
          /\ exec[r].phase = "absent" /\ launch[r].step = "none"
          /\ ~launch[r].held /\ ~exec[r].saved
      BY <1>t, <2>1 DEF RecoveryTasks, RowInvariant, RecoveryKnows, StartKnown
    <2>3. /\ recovering'.todo = recovering.todo \ {r}
          /\ recovering'.current = IF Restorable(r) THEN r ELSE None
      BY <1>t, <2>1 DEF RecoveryTasks
    <2>4. CASE s = r
      <3>1. ~Ended(r) /\ ~Gone(r) /\ ~Marked(r)
        BY <2>1, <2>2 DEF Ended, Gone, Marked
      <3>2. CASE Restorable(r)
        <4>1. /\ Preparing(TRUE).phase = "preparing" /\ Preparing(TRUE).start = "pending"
              /\ Preparing(TRUE).saved = FALSE
          BY DEF Preparing, AbsentExec
        <4>2. /\ exec'[r].phase = "preparing" /\ exec'[r].start = "pending"
              /\ exec'[r].saved = FALSE /\ record'[r] = "held" /\ ~Running(r)
          BY <1>t, <2>1, <2>2, <3>2, <4>1 DEF SetExec, Restorable, StartKnown
        <4>3. StartKnown(r)'
          BY <1>0, <1>u, <2>2, <2>3, <2>4, <4>2 DEF StartKnown, Running
        <4> QED BY <2>4, <3>1, <4>3 DEF Keeps, Lasts
      <3>3. CASE ~Restorable(r)
        <4>1. UNCHANGED <<record, exec>>
          BY <2>1, <3>3
        <4>2. StartKnown(r)'
          BY <1>0, <1>u, <2>2, <2>3, <2>4, <3>3, <4>1, NoneIsNoRun DEF StartKnown, Running
        <4> QED BY <2>4, <3>1, <4>2 DEF Keeps, Lasts
      <3> QED BY <3>2, <3>3
    <2>5. CASE s # r
      <3>1. exec'[s] = exec[s] /\ record'[s] = record[s]
        BY <1>t, <2>1, <2>5 DEF SetExec
      <3>2. RecoveryStays(s)
        BY <2>3, <2>5, NoneIsNoRun DEF RecoveryStays
      <3>3. WorkerStays(s)
        BY <1>u, <3>1, <3>2, OthersStay
      <3> QED BY <1>0, <1>t, <3>3, StaysKnown, StaysLasts DEF Keeps
    <2> QED BY <2>4, <2>5
  <1>2. CASE RestoreEnds
    <2>1. PICK r \in Runs :
            /\ r = recovering.current
            /\ exec[r].start \in {"ok", "failed", "unsupported"}
            /\ SetExec(r, [exec[r] EXCEPT !.start = "none"])
            /\ recovering' = [recovering EXCEPT !.current = None]
            /\ record' = IF exec[r].start # "ok" /\ ~Active(r)
                         THEN [record EXCEPT ![r] = "released"] ELSE record
      BY <1>2, <1>t DEF RestoreEnds, RecoveryTasks
    <2>2. recovering'.todo = recovering.todo /\ recovering'.current = None
      BY <1>t, <2>1 DEF RecoveryTasks
    <2> DEFINE e == [exec[r] EXCEPT !.start = "none"]
    <2>3. e.phase = exec[r].phase /\ e.saved = exec[r].saved /\ e.start = "none" /\ SetExec(r, e)
      BY <1>t, <2>1 DEF Entries
    <2> HIDE DEF e
    <2>4. /\ exec'[r].phase = exec[r].phase /\ exec'[r].saved = exec[r].saved
          /\ exec'[r].start = "none"
      BY <1>t, <2>3 DEF SetExec
    <2>5. CASE s = r
      <3>1. /\ launch[r].step # "waiting" /\ exec[r].phase # "preparing"
            /\ exec[r].phase = "absent" => ~Running(r)
        BY <1>t, <2>1, <2>5 DEF StartKnown
      <3>2. record'[r] = record[r] \/ exec[r].phase = "absent"
        BY <1>t, <2>1, <3>1 DEF Active
      <3>a. record'[r] = "released" => exec[r].phase = "absent" /\ ~Running(r)
        BY <1>t, <2>5, <3>1, <3>2 DEF StartKnown
      <3>b. Running(r)' <=> Running(r)
        BY <1>u DEF Running
      <3>c. /\ launch'[r] = launch[r] /\ recovering'.current # r /\ exec'[r].phase = exec[r].phase
            /\ row'[r].status = "absent" => row[r].status = "absent" /\ record'[r] = record[r]
        BY <1>0, <1>t, <1>u, <2>1, <2>2, <2>4, <2>5, NoneIsNoRun DEF RowInvariant, RecoveryKnows
      <3>3. StartKnown(r)'
        BY <1>t, <1>u, <2>2, <2>4, <2>5, <3>1, <3>a, <3>b, <3>c DEF StartKnown
      <3>4. Lasts(r)
        BY <1>0, <1>u, <2>2, <2>4, <2>5 DEF Lasts, Ended, Gone, Marked, Running
      <3> QED BY <2>5, <3>3, <3>4 DEF Keeps
    <2>6. CASE s # r
      <3>1. exec'[s] = exec[s] /\ record'[s] = record[s]
        BY <1>t, <2>1, <2>6 DEF SetExec
      <3>2. RecoveryStays(s)
        BY <2>2, NoneIsNoRun DEF RecoveryStays
      <3>3. WorkerStays(s)
        BY <1>u, <3>1, <3>2, OthersStay
      <3> QED BY <1>0, <1>t, <3>3, StaysKnown, StaysLasts DEF Keeps
    <2> QED BY <2>5, <2>6
  <1> QED BY <1>1, <1>2

LEMMA OthersKeepWorkers ==
    ASSUME TypeOK, \A r \in Runs : StartKnown(r), [Next]_vars, ~Touches, NEW s \in Runs
    PROVE  WorkerStays(s)
  <1>1. CASE UNCHANGED vars
    BY <1>1, LaunchUntouched, EntryUntouched, RecoveryUntouched DEF WorkerStays, vars
  <1>2. CASE \/ \E d \in Delegations, q \in Calls : Delegate(d, q)
             \/ \E d \in Delegations : AdmissionRefused(d)
             \/ RunNextEvent
    BY <1>2, QueueKeepsWorkers
  <1>3. ASSUME NEW r \in Runs, RunStep(r) PROVE WorkerStays(s)
    <2>1. ~LaunchBegins(r) /\ ~LaunchRefused(r)
      BY DEF Touches
    <2> QED BY <1>3, <2>1, RunStepKeepsWorkers
  <1>4. ASSUME NEW r \in Runs, ExecutorStep(r) PROVE WorkerStays(s)
    <2>1. ~Spawn(r) /\ ~PrepareFails(r) /\ ~ReleaseSucceeds(r)
      BY DEF Touches
    <2>2. ExecutorStays(r)
      BY <1>4, <2>1 DEF ExecutorStep, ExecutorStays
    <2> QED BY <2>2, ExecutorKeepsWorkers
  <1>5. CASE \E c \in Controls : ControlStep(c)
    BY <1>5, ControlKeepsWorkers
  <1>6. CASE CloseStep
    BY <1>6, CloseKeepsWorkers
  <1>7. CASE \E c \in Conversations : DeleteStep(c)
    BY <1>7, DeleteKeepsWorkers
  <1>8. CASE RecoveryStep
    <2>1. RestoreDeferred \/ RecoveryEnds \/ ReconcilePending
      BY <1>8 DEF RecoveryStep, Touches
    <2> QED BY <2>1, RecoveryKeepsWorkers
  <1>9. CASE \/ \E d \in Delegations : Admit(d)
             \/ Restart
    BY <1>9 DEF Touches
  <1> QED BY <1>1, <1>2, <1>3, <1>4, <1>5, <1>6, <1>7, <1>8, <1>9 DEF Next

LEMMA StepKeepsWorkers ==
    ASSUME TypeOK, RowInvariant, \A r \in Runs : StartKnown(r), [Next]_vars, ~Restart,
           NEW s \in Runs
    PROVE  Keeps(s)
  <1>1. CASE ~Touches
    BY <1>1, OthersKeepWorkers, RowsStayAdmitted, StaysKnown, StaysLasts DEF Keeps
  <1>2. CASE \E d \in Delegations : Admit(d)
    BY <1>2, AdmitKeepsWorkers
  <1>3. CASE \E r \in Runs : LaunchBegins(r) \/ LaunchRefused(r)
    BY <1>3, LaunchKeepsWorkers
  <1>4. CASE \E r \in Runs : Spawn(r) \/ PrepareFails(r) \/ ReleaseSucceeds(r)
    BY <1>4, EntryKeepsWorkers
  <1>5. CASE RestoreBegins \/ RestoreEnds
    BY <1>5, RestoreKeepsWorkers
  <1> QED BY <1>1, <1>2, <1>3, <1>4, <1>5 DEF Touches

\* After a crash the Host knows nothing of its workers but the records and the
\* rows.
LEMMA RestartKeepsStart ==
    ASSUME \A r \in Runs : StartKnown(r), Restart, NEW s \in Runs
    PROVE  StartKnown(s)'
  <1>1. /\ exec'[s] = AbsentExec /\ launch'[s] = IdleLaunch
        /\ UNCHANGED <<row, native, record>>
        /\ recovering' = [step |-> "rows", todo |-> UnfinishedRuns, current |-> None]
    BY DEF Restart, tables, files
  <1>2. /\ exec'[s].phase = "absent" /\ exec'[s].start = "none" /\ exec'[s].saved = FALSE
        /\ launch'[s].step = "none" /\ launch'[s].held = FALSE
        /\ recovering'.current = None
    BY <1>1 DEF AbsentExec, IdleLaunch
  <1>3. Running(s)' <=> Running(s)
    BY <1>1 DEF Running
  <1> QED BY <1>1, <1>2, <1>3 DEF StartKnown

--------------------
(* The directories *)

\* A row becomes unfinished when it is admitted, and then only.
LEMMA UnfinishedBefore ==
    ASSUME TypeOK, RowInvariant, [Next]_vars, NEW r \in Runs, Unfinished(r)'
    PROVE  Unfinished(r) \/ row[r].status = "absent"
  <1>t. row \in [Runs -> Rows] /\ row[r] \in Rows /\ WellFormed(row[r])
    BY DEF TypeOK, RowInvariant
  <1>1. CASE RowsMove
    <2>1. Moves(row[r], row'[r])
      BY <1>1 DEF RowsMove
    <2>2. /\ ~row[r].completed /\ row[r].status # "deleted"
      BY <2>1 DEF Moves, Unfinished, ResourceStatuses
    <2> QED BY <1>t, <2>2
            DEF WellFormed, Unfinished, Rows, Statuses, ResourceStatuses, TerminalStatuses
  <1>2. ASSUME NEW n \in Runs, Inserts(n) PROVE Unfinished(r) \/ row[r].status = "absent"
    BY <1>2, <1>t DEF Inserts, Unfinished
  <1>3. ASSUME NEW c \in Conversations, Deletes(RunsOf(c))
        PROVE  Unfinished(r) \/ row[r].status = "absent"
    <2>1. CASE r \in RunsOf(c)
      <3>1. row'[r].status = "deleted"
        BY <1>3, <1>t, <2>1 DEF Deletes, Rows
      <3> QED BY <3>1 DEF Unfinished, ResourceStatuses
    <2>2. CASE r \notin RunsOf(c)
      BY <1>3, <2>2 DEF Deletes, Unfinished
    <2> QED BY <2>1, <2>2
  <1> QED BY <1>1, <1>2, <1>3, TableStep

\* Only directories of Runs that are settled are removed.
LEMMA DirectoryStays ==
    ASSUME TypeOK, RowInvariant, [Next]_vars, NEW r \in Runs, r \in dirs, Unfinished(r)'
    PROVE  r \in dirs'
  <1> USE DEF files
  <1>1. CASE UNCHANGED dirs
    BY <1>1
  <1>2. CASE CloseSettles
    <2>1. row \in [Runs -> Rows] /\ row[r] \in Rows
      BY DEF TypeOK
    <2>2. r \notin {x \in Stoppable : Unfinished(x)}
      <3>1. ASSUME r \in {x \in Stoppable : Unfinished(x)} PROVE FALSE
        <4>1. row'[r].status = "forced_termination"
          BY <1>2, <2>1, <3>1 DEF CloseSettles, Rows
        <4> QED BY <4>1 DEF Unfinished, ResourceStatuses
      <3> QED BY <3>1
    <2>3. row[r].status # "absent" => Unfinished(r)
      BY UnfinishedBefore
    <2>4. Unfinished(r)
      <3>1. CASE r \in closing.preserved /\ Unfinished(r)
        BY <3>1
      <3>2. CASE ~(r \in closing.preserved /\ Unfinished(r))
        <4>1. row'[r] = row[r]
          BY <1>2, <2>2, <3>2 DEF CloseSettles
        <4> QED BY <4>1 DEF Unfinished
      <3> QED BY <3>1, <3>2
    <2>5. r \in UnfinishedRuns \ {x \in Stoppable : Unfinished(x)}
      BY <2>2, <2>4 DEF UnfinishedRuns
    <2> QED BY <1>2, <2>2, <2>5 DEF CloseSettles
  <1>3. ASSUME NEW c \in Conversations, DeleteClears(c) PROVE r \in dirs'
    <2>1. UNCHANGED row /\ dirs' = dirs \ RunsOf(c) /\ deletion[c].step = "drain"
      BY <1>3 DEF DeleteClears, tables
    <2>2. r \notin RunsOf(c)
      BY <2>1 DEF RowInvariant, DeletionKnows, Unfinished
    <2> QED BY <2>1, <2>2
  <1>4. CASE RecoveryEnds
    BY <1>4 DEF RecoveryEnds, UnfinishedRuns, Unfinished, tables
  <1>5. CASE RestoreBegins
    BY <1>5 DEF RestoreBegins
  <1>6. ASSUME NEW x \in Runs, LaunchBegins(x) PROVE r \in dirs'
    BY <1>6 DEF LaunchBegins
  <1>7. \/ UNCHANGED dirs \/ CloseSettles \/ RecoveryEnds \/ RestoreBegins
        \/ \E c \in Conversations : DeleteClears(c)
        \/ \E x \in Runs : LaunchBegins(x)
    <2>1. CASE UNCHANGED vars
      BY <2>1 DEF vars
    <2>2. CASE \E d \in Delegations : \/ \E q \in Calls : Delegate(d, q)
                                      \/ Admit(d) \/ AdmissionRefused(d)
      BY <2>2 DEF Delegate, Admit, AdmissionRefused
    <2>3. CASE \E x \in Runs : RunStep(x)
      BY <2>3 DEF RunStep, LaunchRefused, LaunchEnds, CaptureEnds, AttemptEnds, RetryDelivery
    <2>4. CASE \E x \in Runs : ExecutorStep(x)
      BY <2>4, ExecutorLeaves
    <2>5. CASE RunNextEvent
      BY <2>5 DEF RunNextEvent
    <2>6. CASE \E c \in Controls : ControlStep(c)
      BY <2>6, ControlLeaves
    <2>7. CASE CloseStep
      BY <2>7 DEF CloseStep, Close, CloseProbes, SuspendBegins, SuspendEnds, CloseDrains
    <2>8. CASE \E c \in Conversations : DeleteStep(c)
      BY <2>8 DEF DeleteStep, DeleteBegins, DeleteCollects, DeleteCaptured, DeleteStops,
         DeleteStopped, DeleteUndone, DeleteDrains, DeleteEnds, DeleteFails
    <2>9. CASE RecoveryStep
      BY <2>9 DEF RecoveryStep, RestoreDeferred, RestoreEnds, ReconcilePending
    <2>10. CASE Restart
      BY <2>10 DEF Restart
    <2> QED BY <2>1, <2>2, <2>3, <2>4, <2>5, <2>6, <2>7, <2>8, <2>9, <2>10 DEF Next
  <1> QED BY <1>1, <1>2, <1>3, <1>4, <1>5, <1>6, <1>7

\* Whoever prepares an entry has made the directory.
LEMMA WorkerHasDirectory ==
    ASSUME TypeOK, RowInvariant, \A r \in Runs : StartKnown(r), [Next]_vars, NEW s \in Runs,
           Running(s)' \/ exec'[s].phase = "preparing"
    PROVE  Running(s) \/ exec[s].phase = "preparing" \/ s \in dirs'
  <1> USE DEF files, tasks, executor
  <1>t. /\ exec \in [Runs -> Entries]
        /\ native \in [Runs -> {"none", "live", "exited", "disconnected", "released"}]
    BY DEF TypeOK
  <1>0. ASSUME exec'[s] = exec[s], native'[s] = native[s]
        PROVE  Running(s) \/ exec[s].phase = "preparing"
    BY <1>0 DEF Running
  <1>1. CASE ~Touches
    <2>1. EntryStays(s)
      BY <1>1, OthersKeepWorkers DEF WorkerStays
    <2> QED BY <2>1 DEF EntryStays, Active, Running
  <1>2. CASE \E d \in Delegations : Admit(d)
    BY <1>0, <1>2 DEF Admit
  <1>3. ASSUME NEW r \in Runs, LaunchBegins(r)
        PROVE  Running(s) \/ exec[s].phase = "preparing" \/ s \in dirs'
    <2>1. UNCHANGED native
      BY <1>3 DEF LaunchBegins
    <2>2. exec'[s] = exec[s] \/ s \in dirs'
      BY <1>3, <1>t DEF LaunchBegins, SetExec
    <2> QED BY <1>0, <2>1, <2>2
  <1>4. ASSUME NEW r \in Runs, LaunchRefused(r) PROVE Running(s) \/ exec[s].phase = "preparing"
    BY <1>0, <1>4 DEF LaunchRefused
  <1>5. ASSUME NEW r \in Runs, Spawn(r) PROVE Running(s) \/ exec[s].phase = "preparing"
    <2>1. s # r => exec'[s] = exec[s] /\ native'[s] = native[s]
      BY <1>5, <1>t DEF Spawn, SetExec
    <2> QED BY <1>0, <1>5, <2>1 DEF Spawn
  <1>6. ASSUME NEW r \in Runs, PrepareFails(r) PROVE Running(s) \/ exec[s].phase = "preparing"
    <2>1. s # r => exec'[s] = exec[s] /\ native'[s] = native[s]
      BY <1>6, <1>t DEF PrepareFails, SetExec
    <2> QED BY <1>0, <1>6, <2>1 DEF PrepareFails
  <1>7. ASSUME NEW r \in Runs, ReleaseSucceeds(r)
        PROVE  Running(s) \/ exec[s].phase = "preparing"
    <2>1. s # r => exec'[s] = exec[s] /\ native'[s] = native[s]
      BY <1>7, <1>t DEF ReleaseSucceeds, SetExec
    <2>2. PICK start : SetExec(r, [AbsentExec EXCEPT !.start = start, !.restoring = exec[r].restoring])
      BY <1>7 DEF ReleaseSucceeds
    <2>3. s = r => exec'[s].phase = "absent" /\ native'[s] = "released"
      BY <1>7, <1>t, <2>2 DEF ReleaseSucceeds, SetExec, AbsentExec
    <2>4. s # r
      BY <2>3 DEF Running
    <2> QED BY <1>0, <2>1, <2>4
  <1>8. CASE RestoreBegins
    <2>1. UNCHANGED native
      BY <1>8 DEF RestoreBegins
    <2>2. exec'[s] = exec[s] \/ s \in dirs'
      BY <1>8, <1>t DEF RestoreBegins, SetExec
    <2> QED BY <1>0, <2>1, <2>2
  <1>9. CASE RestoreEnds
    <2> DEFINE r == recovering.current
               e == [exec[r] EXCEPT !.start = "none"]
    <2>1. r \in Runs /\ UNCHANGED native /\ SetExec(r, e)
      BY <1>9 DEF RestoreEnds, TypeOK, RecoveryTasks
    <2>2. e.phase = exec[r].phase
      BY <1>t, <2>1 DEF Entries
    <2>3. exec'[s].phase = exec[s].phase
      BY <1>t, <2>1, <2>2 DEF SetExec
    <2> QED BY <2>1, <2>3 DEF Running
  <1>10. CASE Restart
    <2>1. exec'[s].phase = "absent" /\ UNCHANGED native
      BY <1>10 DEF Restart, AbsentExec
    <2> QED BY <2>1 DEF Running
  <1> QED BY <1>1, <1>2, <1>3, <1>4, <1>5, <1>6, <1>7, <1>8, <1>9, <1>10 DEF Touches

LEMMA DirectoryKept ==
    ASSUME TypeOK, RowInvariant, \A r \in Runs : StartKnown(r), [Next]_vars, NEW s \in Runs,
           DirectoryKnown(s)
    PROVE  DirectoryKnown(s)'
  <1> SUFFICES ASSUME Unfinished(s)', Running(s)' \/ exec'[s].phase = "preparing"
               PROVE  s \in dirs'
    BY DEF DirectoryKnown
  <1>1. CASE s \in dirs
    BY <1>1, DirectoryStays
  <1>2. CASE s \notin dirs
    <2>1. Unfinished(s) \/ row[s].status = "absent"
      BY UnfinishedBefore
    <2>2. ~Running(s) /\ exec[s].phase # "preparing"
      BY <1>2, <2>1 DEF DirectoryKnown, StartKnown, Running
    <2> QED BY <2>2, WorkerHasDirectory
  <1> QED BY <1>1, <1>2

--------------------
(* What the activities know of the workers *)

\* A Run with a worker, and one whose launch was skipped, get no other one.
LEMMA EndedIfActive ==
    ASSUME NEW r \in Runs, StartKnown(r), Active(r)
    PROVE  Ended(r)
  BY DEF StartKnown, Active, Ended

LEMMA GoneIfSkipped ==
    ASSUME NEW r \in Runs, StartKnown(r), launch[r].step = "skipped"
    PROVE  Gone(r)
  BY DEF StartKnown, Gone, Ended

\* Who waits for a release continues without a worker, and who waits for a
\* launch without one that is to come.
LEMMA GoneIfReleased ==
    ASSUME NEW r \in Runs, Ended(r), ~Active(r)
    PROVE  Gone(r)
  BY DEF Ended, Gone, Active

LEMMA UnmarkedIfOver ==
    ASSUME NEW r \in Runs, LaunchOver(r)
    PROVE  ~Marked(r)
  BY DEF LaunchOver, Marked

\* The count of failed releases never goes down.
LEMMA CleanBefore ==
    ASSUME TypeOK, [Next]_vars, Clean'
    PROVE  Clean
  <1>1. ASSUME UNCHANGED releaseFailures PROVE Clean
    BY <1>1 DEF Clean
  <1>2. CASE UNCHANGED vars
    BY <1>1, <1>2 DEF vars
  <1>3. CASE \E d \in Delegations : (\E q \in Calls : Delegate(d, q)) \/ Admit(d) \/ AdmissionRefused(d)
    BY <1>1, <1>3 DEF Delegate, Admit, AdmissionRefused, bounds
  <1>4. CASE \E r \in Runs : RunStep(r)
    BY <1>1, <1>4, RunLeaves
  <1>5. ASSUME NEW r \in Runs, ExecutorStep(r) PROVE Clean
    <2>1. CASE ReleaseFails(r)
      BY <2>1 DEF ReleaseFails, TypeOK, Clean
    <2>2. CASE ~ReleaseFails(r)
      BY <1>1, <1>5, <2>2 DEF ExecutorStep, Spawn, PrepareFails, Loads, Opened, StartFails, TurnEnds,
         TurnPaused, AsksPermission, ProcessExits, ReleaseSucceeds
    <2> QED BY <2>1, <2>2
  <1>6. CASE RunNextEvent \/ Restart
    BY <1>1, <1>6 DEF RunNextEvent, Restart, bounds
  <1>7. CASE \E c \in Controls : ControlStep(c)
    BY <1>1, <1>7, ControlLeaves
  <1>8. CASE CloseStep
    BY <1>1, <1>8, CloseLeaves
  <1>9. CASE \E c \in Conversations : DeleteStep(c)
    BY <1>1, <1>9, DeleteLeaves
  <1>10. CASE RecoveryStep
    BY <1>1, <1>10, RecoveryLeaves
  <1> QED BY <1>2, <1>3, <1>4, <1>5, <1>6, <1>7, <1>8, <1>9, <1>10 DEF Next

\* Otherwise it is settled when the worker is gone, and always so as completed or
\* cancelled.
LEMMA RowsFinish ==
    ASSUME TypeOK, \A r \in Runs : StartKnown(r), StopKnown, [Next]_vars, NEW s \in Runs,
           row'[s].status \in TerminalStatuses
    PROVE  \/ row'[s].status = row[s].status \/ Gone(s)
           \/ row'[s].status \in {"failed", "forced_termination"} /\ Fails(s)
  <1> USE DEF tables, TerminalStatuses
  <1> DEFINE Goal == \/ row'[s].status = row[s].status \/ Gone(s)
                     \/ row'[s].status \in {"failed", "forced_termination"} /\ Fails(s)
  <1>t. row \in [Runs -> Rows] /\ row[s] \in Rows
    BY DEF TypeOK
  <1>0. ASSUME UNCHANGED row PROVE Goal
    BY <1>0
  <1>s. ASSUME NEW r \in Runs, NEW status, row' = Settled(r, status),
               Gone(r) \/ (status = "failed" /\ Fails(r))
        PROVE  Goal
    <2>1. CASE s = r
      <3>1. row'[r].status = status
        BY <1>s, <1>t, <2>1 DEF Settled, Rows
      <3> QED BY <1>s, <2>1, <3>1
    <2>2. CASE s # r
      BY <1>s, <1>t, <2>2 DEF Settled
    <2> QED BY <2>1, <2>2
  <1>w. ASSUME NEW r \in Runs, NEW status \in {"running", "needs_user", "interrupted"},
               NEW permission, SetRow(r, status, permission)
        PROVE  Goal
    <2>1. row'[r].status = status /\ (s # r => row'[s] = row[s])
      BY <1>w, <1>t DEF SetRow, Rows, TypeOK
    <2> QED BY <1>w, <2>1
  <1>1. CASE \E d \in Delegations : Admit(d)
    <2>1. PICK r, q : row' = [row EXCEPT ![r] = [AbsentRow EXCEPT !.status = "enqueued", !.call = q]]
      BY <1>1 DEF Admit
    <2>2. row'[s] = row[s] \/ row'[s].status = "enqueued"
      BY <1>t, <2>1 DEF AbsentRow
    <2> QED BY <2>2
  <1>2. ASSUME NEW r \in Runs, RunStep(r) PROVE Goal
    <2>1. CASE LaunchRefused(r) \/ LaunchEnds(r)
      <3>1. UNCHANGED row \/ row' = Settled(r, "failed")
        BY <2>1 DEF LaunchRefused, LaunchEnds, Terminate
      <3>2. UNCHANGED row \/ Fails(r)
        BY <2>1 DEF LaunchEnds, Fails
      <3> QED BY <1>0, <1>s, <3>1, <3>2
    <2>2. ASSUME NEW status \in {"completed", "failed"}, CaptureEnds(r, status) PROVE Goal
      <3>1. UNCHANGED row \/ row' = Settled(r, status)
        BY <2>2 DEF CaptureEnds, Terminate
      <3>2. Gone(r)
        BY <2>2 DEF CaptureEnds, StopKnown, CapturesStopped
      <3> QED BY <1>0, <1>s, <3>1, <3>2
    <2>3. ASSUME NEW acknowledged \in BOOLEAN, AttemptEnds(r, acknowledged) PROVE Goal
      <3>1. row' = row \/ row' = [row EXCEPT ![r].reported = TRUE]
        BY <2>3 DEF AttemptEnds
      <3>2. row'[s].status = row[s].status
        BY <1>t, <3>1 DEF Rows
      <3> QED BY <3>2
    <2>4. CASE LaunchBegins(r) \/ RetryDelivery(r)
      BY <1>0, <2>4 DEF LaunchBegins, RetryDelivery
    <2> QED BY <1>2, <2>1, <2>2, <2>3, <2>4 DEF RunStep
  <1>3. CASE RunNextEvent
    <2> DEFINE e == NextEvent
               r == e.run
    <2>1. /\ e \in QueuedEvents /\ r \in Runs
          /\ e.kind \in {"completed", "cancelled", "cancel"} => Gone(r)
          /\ e.kind = "failed" => Fails(r)
      <3>1. events \in Seq(QueuedEvents) /\ events # <<>>
        BY <1>3 DEF RunNextEvent, TypeOK
      <3>2. e \in QueuedEvents /\ e = events[1] /\ 1 \in 1..Len(events)
        BY <3>1 DEF NextEvent
      <3> QED BY <1>3, <3>2 DEF StopKnown, QueueStopped, QueuedEvents, Settles, Outcomes, Fails
    <2>2. \/ UNCHANGED row
          \/ \E status \in {"running", "needs_user", "interrupted"} : \E p : SetRow(r, status, p)
          \/ \E status : /\ row' = Settled(r, status)
                         /\ \/ e.kind \in {"completed", "cancelled", "cancel"}
                            \/ e.kind = "failed" /\ status = "failed"
      <3>1. CASE ApplyExecutorEvent(e)
        <4>1. CASE Starts(r)
          BY <4>1 DEF Starts
        <4>2. CASE NeedsUser(r, e.request)
          BY <4>2 DEF NeedsUser
        <4>3. CASE e.kind = "completed" /\ Completes(r)
          BY <4>3 DEF Completes, Terminate
        <4>4. CASE e.kind \in {"failed", "cancelled"} /\ Terminate(r, e.kind)
          BY <4>4 DEF Terminate
        <4> QED BY <3>1, <4>1, <4>2, <4>3, <4>4 DEF ApplyExecutorEvent
      <3>2. CASE ApplyControl(e)
        <4>1. CASE e.kind = "cancel" /\ Terminate(r, "cancelled")
          BY <4>1 DEF Terminate
        <4>2. CASE Pauses(r) \/ Resumes(r) \/ Responds(r, e.request)
          BY <4>2 DEF Pauses, Resumes, Responds
        <4> QED BY <3>2, <4>1, <4>2 DEF ApplyControl
      <3> QED BY <1>3, <3>1, <3>2 DEF RunNextEvent
    <2> QED BY <1>0, <1>s, <1>w, <2>1, <2>2
  <1>4. CASE CloseSettles
    <2>1. \/ row'[s] = row[s] \/ row'[s].status = "interrupted"
          \/ row'[s].status = "forced_termination" /\ s \in Stoppable
      <3>1. CASE s \in {r \in Stoppable : Unfinished(r)}
        BY <1>4, <1>t, <3>1 DEF CloseSettles, Rows
      <3>2. CASE s \notin {r \in Stoppable : Unfinished(r)}
        BY <1>4, <1>t, <3>2 DEF CloseSettles, Rows
      <3> QED BY <3>1, <3>2
    <2> QED BY <1>4, <2>1 DEF Fails
  <1>5. ASSUME NEW c \in Conversations, DeleteStep(c) PROVE Goal
    <2>t. deletion[c] \in DeletionTasks
      BY DEF TypeOK
    <2>r. ASSUME NEW r \in Runs, row' = RecordStopped(r), Gone(r) PROVE Goal
      BY <1>0, <1>s, <2>r DEF RecordStopped
    <2>1. ASSUME NEW r \in Runs, DeleteCaptured(c, r) PROVE Goal
      BY <2>r, <2>1 DEF DeleteCaptured, StopKnown, DeletionsStopped
    <2>2. CASE DeleteStopped(c)
      <3> DEFINE r == deletion[c].current
      <3>1. r \in Runs /\ r # None
        BY <2>2, <2>t DEF DeleteStopped, DeletionTasks
      <3>2. CASE Active(r)
        BY <1>0, <2>2, <3>2 DEF DeleteStopped
      <3>3. CASE ~Active(r)
        <4>1. LaunchOver(r) /\ row' = RecordStopped(r)
          BY <2>2, <3>3 DEF DeleteStopped
        <4>2. Ended(r)
          BY <3>1, <4>1, UnmarkedIfOver DEF StopKnown, DeletionsStopped
        <4> QED BY <2>r, <3>1, <3>3, <4>1, <4>2, GoneIfReleased
      <3> QED BY <3>2, <3>3
    <2>3. CASE DeleteUndone(c)
      <3>1. CASE s \in Unbegun(c)
        BY <2>3, <3>1, GoneIfSkipped DEF DeleteUndone
      <3>2. CASE s \notin Unbegun(c)
        BY <2>3, <3>2 DEF DeleteUndone
      <3> QED BY <3>1, <3>2
    <2>4. CASE DeleteEnds(c)
      <3>1. row'[s] = row[s] \/ row'[s].status = "deleted"
        BY <1>t, <2>4 DEF DeleteEnds, Rows
      <3> QED BY <3>1
    <2>5. CASE \/ DeleteBegins(c) \/ DeleteCollects(c) \/ \E r \in Runs : DeleteStops(c, r)
               \/ DeleteDrains(c) \/ DeleteClears(c) \/ DeleteFails(c)
      BY <1>0, <2>5 DEF DeleteBegins, DeleteCollects, DeleteStops, DeleteDrains, DeleteClears,
                        DeleteFails
    <2> QED BY <1>5, <2>1, <2>2, <2>3, <2>4, <2>5 DEF DeleteStep
  <1>6. CASE RestoreEnds
    <2>1. PICK r : r = recovering.current
      OBVIOUS
    <2>2. \/ UNCHANGED row
          \/ /\ row' = [row EXCEPT ![r].status = "forced_termination", ![r].completed = TRUE]
             /\ exec[r].start = "unsupported"
      BY <1>6, <2>1 DEF RestoreEnds
    <2>3. CASE s = r
      BY <1>6, <1>t, <2>1, <2>2, <2>3 DEF Rows, Fails
    <2>4. CASE s # r
      BY <1>t, <2>2, <2>4
    <2> QED BY <2>3, <2>4
  <1>7. CASE \/ UNCHANGED vars
             \/ \E d \in Delegations : (\E q \in Calls : Delegate(d, q)) \/ AdmissionRefused(d)
             \/ Restart
    BY <1>0, <1>7 DEF vars, Delegate, AdmissionRefused, Restart
  <1>8. CASE \E r \in Runs : ExecutorStep(r)
    BY <1>0, <1>8, ExecutorLeaves
  <1>9. CASE \E c \in Controls : ControlStep(c)
    BY <1>0, <1>9, ControlLeaves
  <1>10. CASE CloseStep /\ ~CloseSettles
    BY <1>0, <1>10 DEF CloseStep, Close, CloseProbes, SuspendBegins, SuspendEnds, CloseDrains
  <1>11. CASE RecoveryStep /\ ~RestoreEnds
    BY <1>0, <1>11 DEF RecoveryStep, RestoreBegins, RestoreDeferred, RecoveryEnds, ReconcilePending
  <1> QED BY <1>1, <1>2, <1>3, <1>4, <1>5, <1>6, <1>7, <1>8, <1>9, <1>10, <1>11 DEF Next

\* What was settled, or captured, stays without a worker.
LEMMA RowsStay ==
    ASSUME TypeOK, \A r \in Runs : StartKnown(r) /\ Lasts(r), StopKnown, [Next]_vars
    PROVE  RowsStopped'
  <1> SUFFICES ASSUME NEW s \in Runs, row'[s].status \in {"completed", "cancelled"}
               PROVE  Gone(s)'
    BY DEF RowsStopped
  <1>1. Gone(s)
    BY RowsFinish DEF StopKnown, RowsStopped, TerminalStatuses
  <1> QED BY <1>1 DEF Lasts

\* A capture begins with the event of a completed turn.
LEMMA CapturesStay ==
    ASSUME TypeOK, \A r \in Runs : StartKnown(r) /\ Lasts(r), StopKnown, [Next]_vars
    PROVE  CapturesStopped'
  <1> USE DEF tasks
  <1> SUFFICES ASSUME NEW s \in Runs, capture'[s] # "none" PROVE Gone(s)'
    BY DEF CapturesStopped
  <1>t. capture \in [Runs -> {"none", "copying", "aborted"}]
    BY DEF TypeOK
  <1>0. ASSUME capture[s] # "none" PROVE Gone(s)'
    BY <1>0 DEF StopKnown, CapturesStopped, Lasts
  <1>1. CASE UNCHANGED capture
    BY <1>0, <1>1
  <1>2. CASE RunNextEvent
    <2> DEFINE e == NextEvent
               r == e.run
    <2>1. UNCHANGED capture \/ (e.kind = "completed" /\ Completes(r))
      BY <1>2 DEF RunNextEvent, ApplyExecutorEvent
    <2>2. CASE s # r /\ Completes(r)
      <3>1. capture'[s] = capture[s]
        BY <1>t, <2>2 DEF Completes
      <3> QED BY <1>0, <3>1
    <2>3. CASE s = r /\ e.kind = "completed"
      <3>1. events \in Seq(QueuedEvents) /\ events # <<>>
        BY <1>2 DEF RunNextEvent, TypeOK
      <3>2. e = events[1] /\ 1 \in 1..Len(events)
        BY <3>1 DEF NextEvent
      <3>3. Gone(s)
        BY <2>3, <3>2 DEF StopKnown, QueueStopped, Settles, Outcomes
      <3> QED BY <3>3 DEF Lasts
    <2> QED BY <1>1, <2>1, <2>2, <2>3
  <1>3. CASE Close \/ \E c \in Conversations : DeleteBegins(c)
    <2>1. PICK S : capture' = Abort(capture, S)
      BY <1>3 DEF Close, DeleteBegins
    <2>2. capture[s] # "none"
      BY <2>1 DEF Abort
    <2> QED BY <1>0, <2>2
  <1>4. ASSUME NEW r \in Runs, NEW status, CaptureEnds(r, status) PROVE Gone(s)'
    <2>1. capture' = [capture EXCEPT ![r] = "none"]
      BY <1>4 DEF CaptureEnds
    <2>2. capture[s] # "none"
      BY <1>t, <2>1
    <2> QED BY <1>0, <2>2
  <1>5. CASE Restart
    BY <1>5 DEF Restart
  <1>6. \/ UNCHANGED capture \/ RunNextEvent \/ Close \/ Restart
        \/ \E c \in Conversations : DeleteBegins(c)
        \/ \E r \in Runs, status \in {"completed", "failed"} : CaptureEnds(r, status)
    <2>1. CASE UNCHANGED vars
      BY <2>1 DEF vars
    <2>2. CASE \E d \in Delegations : \/ \E q \in Calls : Delegate(d, q)
                                      \/ Admit(d) \/ AdmissionRefused(d)
      BY <2>2 DEF Delegate, Admit, AdmissionRefused
    <2>3. CASE \E x \in Runs : RunStep(x)
      BY <2>3 DEF RunStep, LaunchBegins, LaunchRefused, LaunchEnds, AttemptEnds, RetryDelivery
    <2>4. CASE \E x \in Runs : ExecutorStep(x)
      BY <2>4, ExecutorLeaves
    <2>5. CASE \E c \in Controls : ControlStep(c)
      BY <2>5, ControlLeaves
    <2>6. CASE CloseStep
      BY <2>6 DEF CloseStep, CloseProbes, SuspendBegins, SuspendEnds, CloseDrains, CloseSettles
    <2>7. CASE \E c \in Conversations : DeleteStep(c)
      BY <2>7 DEF DeleteStep, DeleteCollects, DeleteCaptured, DeleteStops,
         DeleteStopped, DeleteUndone, DeleteDrains, DeleteClears, DeleteEnds, DeleteFails
    <2>8. CASE RecoveryStep
      BY <2>8, RecoveryLeaves
    <2> QED BY <2>1, <2>2, <2>3, <2>4, <2>5, <2>6, <2>7, <2>8 DEF Next
  <1> QED BY <1>1, <1>2, <1>3, <1>4, <1>5, <1>6

\* An outcome is reported, and a control confirmed, without a worker.
LEMMA QueueStays ==
    ASSUME TypeOK, \A r \in Runs : StartKnown(r) /\ Lasts(r), StopKnown, [Next]_vars
    PROVE  QueueStopped'
  <1> DEFINE Last == Outcomes \cup {"cancel"}
  <1>t. events \in Seq(QueuedEvents)
    BY DEF TypeOK
  <1>g. \A r, kind : Gone(r)' => Settles(r, kind)'
    BY DEF Settles, Gone
  <1>o. ASSUME NEW j \in 1..Len(events), NEW e, e = events[j], e.kind \in Last
        PROVE  Settles(e.run, e.kind)'
    <2>1. Settles(e.run, e.kind)
      BY <1>o DEF StopKnown, QueueStopped
    <2>2. e \in QueuedEvents
      BY <1>o, <1>t
    <2>3. e.run \in Runs
      BY <2>2 DEF QueuedEvents
    <2> QED BY <2>1, <2>3, CleanBefore DEF Lasts, Settles
  <1>i. ASSUME \A i \in 1..Len(events') : \A e :
                  e = events'[i] /\ e.kind \in Last => Settles(e.run, e.kind)'
        PROVE  QueueStopped'
    BY <1>i DEF QueueStopped
  <1> HIDE DEF Last
  <1>0. CASE UNCHANGED events
    BY <1>0, <1>o, <1>i
  <1>a. ASSUME NEW new \in QueuedEvents, events' = Append(events, new),
               new.kind \in Last => Settles(new.run, new.kind)'
        PROVE  QueueStopped'
    <2>1. ASSUME NEW i \in 1..Len(events'), NEW e, e = events'[i], e.kind \in Last
          PROVE  Settles(e.run, e.kind)'
      <3>1. (i \in 1..Len(events) /\ e = events[i]) \/ e = new
        BY <1>t, <1>a, <2>1
      <3> QED BY <1>a, <1>o, <2>1, <3>1
    <2> QED BY <1>i, <2>1
  <1>e. ASSUME NEW kind, NEW r \in Runs, NEW request, events' = Emitted(kind, r, request),
               Event(kind, r, request, None) \in QueuedEvents,
               kind \in Last => Settles(r, kind)'
        PROVE  QueueStopped'
    <2>1. CASE Emits(r)
      <3>1. events' = Append(events, Event(kind, r, request, None))
        BY <1>e, <2>1 DEF Emitted
      <3>2. /\ Event(kind, r, request, None).kind = kind
            /\ Event(kind, r, request, None).run = r
        BY DEF Event
      <3> QED BY <1>a, <1>e, <3>1, <3>2
    <2>2. CASE ~Emits(r)
      BY <1>0, <1>e, <2>2 DEF Emitted
    <2> QED BY <2>1, <2>2
  <1>v. ASSUME NEW kind \in ExecutorEvents \cup ControlEvents, NEW r \in Runs,
               NEW request \in Permissions \cup {None}, NEW by \in Controls \cup {None}
        PROVE  /\ Event(kind, r, request, by) \in QueuedEvents
               /\ Event(kind, r, request, by).kind = kind
               /\ Event(kind, r, request, by).run = r
    BY DEF Event, QueuedEvents
  <1>1. CASE RunNextEvent
    <2>1. events # <<>> /\ events' = Tail(events)
      BY <1>1 DEF RunNextEvent
    <2>2. ASSUME NEW i \in 1..Len(events'), NEW e, e = events'[i], e.kind \in Last
          PROVE  Settles(e.run, e.kind)'
      <3>1. i + 1 \in 1..Len(events) /\ e = events[i + 1]
        BY <1>t, <2>1, <2>2
      <3> QED BY <1>o, <2>2, <3>1
    <2> QED BY <1>i, <2>2
  <1>2. ASSUME NEW r \in Runs, Opened(r) PROVE QueueStopped'
    <2>1. PICK kind \in {"restored", "started"} : events' = Emitted(kind, r, None)
      BY <1>2 DEF Opened
    <2>2. kind \notin Last /\ Event(kind, r, None, None) \in QueuedEvents
      BY <1>v DEF Last, ExecutorEvents, Outcomes
    <2> QED BY <1>e, <2>1, <2>2
  <1>3. ASSUME NEW r \in Runs, TurnPaused(r) PROVE QueueStopped'
    <2>1. PICK c \in Controls : events' = Append(events, Event("interrupt", r, None, c))
      BY <1>3 DEF TurnPaused
    <2>2. "interrupt" \notin Last /\ "interrupt" \in ControlEvents
      BY DEF Last, ControlEvents, Outcomes
    <2> QED BY <1>a, <1>v, <2>1, <2>2
  <1>4. ASSUME NEW r \in Runs, AsksPermission(r) PROVE QueueStopped'
    <2>1. PICK request \in Permissions : events' = Emitted("needs_user", r, request)
      <3>1. /\ exec[r].asked < MaxPermissions
            /\ events' = Emitted("needs_user", r, exec[r].asked + 1)
        BY <1>4 DEF AsksPermission
      <3>2. exec[r] \in Entries
        BY DEF TypeOK
      <3>3. exec[r].asked \in 0..MaxPermissions
        BY <3>2 DEF Entries
      <3>4. exec[r].asked + 1 \in Permissions
        BY <3>1, <3>3, RunStateAssumption DEF Permissions
      <3> QED BY <3>1, <3>4
    <2>2. "needs_user" \notin Last /\ Event("needs_user", r, request, None) \in QueuedEvents
      BY <1>v DEF Last, ExecutorEvents, Outcomes
    <2> QED BY <1>e, <2>1, <2>2
  <1>5. ASSUME NEW r \in Runs, ReleaseSucceeds(r) PROVE QueueStopped'
    <2>1. CASE exec[r].why \in Outcomes
      <3>1. PICK kind \in Outcomes : events' = Emitted(kind, r, None)
        BY <1>5, <2>1 DEF ReleaseSucceeds
      <3>2. Event(kind, r, None, None) \in QueuedEvents
        BY <1>v DEF ExecutorEvents
      <3>3. Ended(r)'
        BY <1>5, EndedIfActive DEF ReleaseSucceeds, Active, Lasts
      <3>4. exec'[r].phase = "absent"
        <4>1. exec \in [Runs -> Entries]
          BY DEF TypeOK
        <4>2. PICK start : SetExec(r, [AbsentExec EXCEPT !.start = start,
                                                        !.restoring = exec[r].restoring])
          BY <1>5 DEF ReleaseSucceeds
        <4> QED BY <4>1, <4>2 DEF SetExec, AbsentExec
      <3>5. Settles(r, kind)'
        BY <1>g, <3>3, <3>4 DEF Gone
      <3> QED BY <1>e, <3>1, <3>2, <3>5
    <2>2. CASE exec[r].why \notin Outcomes
      BY <1>0, <1>5, <2>2 DEF ReleaseSucceeds
    <2> QED BY <2>1, <2>2
  <1>6. ASSUME NEW r \in Runs, ReleaseFails(r) PROVE QueueStopped'
    <2>1. UNCHANGED events \/ events' = Emitted("failed", r, None)
      BY <1>6 DEF ReleaseFails
    <2>2. Event("failed", r, None, None) \in QueuedEvents
      BY <1>v DEF ExecutorEvents, Outcomes
    <2>3. Ended(r)'
      BY <1>6, EndedIfActive DEF ReleaseFails, Active, Lasts
    <2>4. ~Clean'
      BY <1>6 DEF ReleaseFails, Clean, TypeOK
    <2> QED BY <1>0, <1>e, <2>1, <2>2, <2>3, <2>4 DEF Settles
  <1>7. ASSUME NEW c \in Controls, NEW r \in Runs, ResumeBegins(c, r) PROVE QueueStopped'
    <2>1. events' = Append(events, Event("resume", r, None, c))
      BY <1>7 DEF ResumeBegins
    <2>2. "resume" \notin Last /\ "resume" \in ControlEvents
      BY DEF Last, ControlEvents, Outcomes
    <2> QED BY <1>a, <1>v, <2>1, <2>2
  <1>8. ASSUME NEW c \in Controls, NEW r \in Runs, RespondBegins(c, r) PROVE QueueStopped'
    <2>1. row[r] \in Rows /\ exec[r] \in Entries
      BY DEF TypeOK
    <2>2. PICK request \in Permissions \cup {None} :
            events' = Append(events, Event("respond", r, request, c))
      BY <1>8, <2>1 DEF RespondBegins, Rows
    <2>3. "respond" \notin Last /\ "respond" \in ControlEvents
      BY DEF Last, ControlEvents, Outcomes
    <2> QED BY <1>a, <1>v, <2>2, <2>3
  <1>c. ASSUME NEW c \in Controls, ctl[c].step # "idle" PROVE ctl[c].run \in Runs
    <2>1. ctl[c] \in ControlTasks
      BY DEF TypeOK
    <2> QED BY <1>c, <2>1 DEF ControlTasks
  <1>9. ASSUME NEW c \in Controls, CancelReleased(c) PROVE QueueStopped'
    <2>1. PICK r : r = ctl[c].run
      OBVIOUS
    <2>2. ctl[c].step = "stop" /\ r \in Runs
      BY <1>9, <1>c, <2>1 DEF CancelReleased
    <2>3. CASE Active(r)
      BY <1>0, <1>9, <2>1, <2>3 DEF CancelReleased
    <2>4. CASE ~Active(r)
      <3>1. events' = Emitted("cancelled", r, None)
        BY <1>9, <2>1, <2>4 DEF CancelReleased
      <3>2. Ended(r)
        BY <2>1, <2>2 DEF StopKnown, ControlsStopped
      <3>3. Gone(r)'
        BY <2>2, <2>4, <3>2, GoneIfReleased DEF Lasts
      <3>4. Event("cancelled", r, None, None) \in QueuedEvents
        BY <1>v, <2>2 DEF ExecutorEvents, Outcomes
      <3> QED BY <1>e, <1>g, <2>2, <3>1, <3>3, <3>4
    <2> QED BY <2>3, <2>4
  <1>10. ASSUME NEW c \in Controls, CancelJoined(c) PROVE QueueStopped'
    <2>1. PICK r : r = ctl[c].run
      OBVIOUS
    <2>2. ctl[c].step = "join" /\ r \in Runs /\ LaunchOver(r)
      BY <1>10, <1>c, <2>1 DEF CancelJoined
    <2>3. Gone(r)
      BY <2>1, <2>2, UnmarkedIfOver DEF StopKnown, ControlsStopped
    <2>4. Gone(r)'
      BY <2>2, <2>3 DEF Lasts
    <2>5. events' = Append(events, Event("cancel", r, None, c))
      BY <1>10, <2>1 DEF CancelJoined
    <2>6. "cancel" \in ControlEvents
      BY DEF ControlEvents
    <2>7. PICK new : new = Event("cancel", r, None, c)
      OBVIOUS
    <2>8. new \in QueuedEvents /\ new.run = r /\ events' = Append(events, new)
      BY <1>v, <2>2, <2>5, <2>6, <2>7
    <2> QED BY <1>a, <1>g, <2>4, <2>8
  <1>11. CASE Restart
    BY <1>i, <1>11 DEF Restart
  <1>12. \/ UNCHANGED events \/ RunNextEvent \/ Restart
         \/ \E r \in Runs : \/ Opened(r) \/ TurnPaused(r) \/ AsksPermission(r)
                            \/ ReleaseSucceeds(r) \/ ReleaseFails(r)
         \/ \E c \in Controls : \/ \E r \in Runs : ResumeBegins(c, r) \/ RespondBegins(c, r)
                                \/ CancelReleased(c) \/ CancelJoined(c)
    <2>1. CASE UNCHANGED vars
      BY <2>1 DEF vars
    <2>2. CASE \E d \in Delegations : \/ \E q \in Calls : Delegate(d, q)
                                      \/ Admit(d) \/ AdmissionRefused(d)
      BY <2>2 DEF Delegate, Admit, AdmissionRefused
    <2>3. CASE \E x \in Runs : RunStep(x)
      BY <2>3, RunLeaves
    <2>4. CASE \E x \in Runs : ExecutorStep(x)
      BY <2>4 DEF ExecutorStep, Spawn, PrepareFails, Loads, StartFails, TurnEnds, ProcessExits
    <2>5. CASE \E c \in Controls : ControlStep(c)
      BY <2>5 DEF ControlStep, InterruptBegins, CancelBegins, InterruptFails, InterruptRejected
    <2>6. CASE CloseStep
      BY <2>6, CloseLeaves
    <2>7. CASE \E c \in Conversations : DeleteStep(c)
      BY <2>7, DeleteLeaves
    <2>8. CASE RecoveryStep
      BY <2>8, RecoveryLeaves
    <2> QED BY <2>1, <2>2, <2>3, <2>4, <2>5, <2>6, <2>7, <2>8 DEF Next
  <1> QED BY <1>0, <1>1, <1>2, <1>3, <1>4, <1>5, <1>6, <1>7, <1>8, <1>9, <1>10, <1>11, <1>12

\* A control that waits for a worker, or for a launch it marked, knows of no
\* other worker to come.
LEMMA ControlsStay ==
    ASSUME TypeOK, \A r \in Runs : StartKnown(r) /\ Lasts(r), StopKnown, [Next]_vars
    PROVE  ControlsStopped'
  <1>t. /\ ctl \in [Controls -> ControlTasks] /\ exec \in [Runs -> Entries]
        /\ launch \in [Runs -> Launches]
    BY DEF TypeOK
  <1>r. ASSUME NEW c \in Controls, ctl[c].step # "idle" PROVE ctl[c].run \in Runs
    BY <1>t, <1>r DEF ControlTasks
  <1> DEFINE Waits(t) == /\ t.step = "stop" => Ended(t.run)
                         /\ t.step = "join" => Gone(t.run) \/ Marked(t.run)
  <1>i. ASSUME NEW c \in Controls, NEW t, ctl'[c] = t, Waits(t)' PROVE Waits(ctl[c])'
    BY <1>i
  <1>k. ASSUME NEW c \in Controls, ctl'[c] = ctl[c] PROVE Waits(ctl[c])'
    <2>1. PICK t : t = ctl[c]
      OBVIOUS
    <2>2. t.step \in {"stop", "join"} => t.run \in Runs
      BY <1>r, <2>1
    <2>3. Waits(t)
      BY <2>1 DEF StopKnown, ControlsStopped
    <2>4. Waits(t)'
      BY <2>2, <2>3 DEF Lasts
    <2> QED BY <1>i, <1>k, <2>1, <2>4
  <1>n. ASSUME NEW c \in Controls, ctl'[c].step \notin {"stop", "join"} PROVE Waits(ctl[c])'
    BY <1>n
  <1>s. ASSUME NEW c \in Controls, NEW r \in Runs, NEW step \in {"turn", "apply", "idle", "stop", "join"},
               NEW k \in Controls, Step(c, step, r),
               step = "stop" => Ended(r)', step = "join" => Gone(r)' \/ Marked(r)'
        PROVE  Waits(ctl[k])'
    <2>1. CASE k # c
      BY <1>k, <1>s, <1>t, <2>1 DEF Step
    <2>2. CASE k = c
      <3>1. PICK t : t = [step |-> step, run |-> r]
        OBVIOUS
      <3>2. ctl'[k] = t /\ t.step = step /\ t.run = r
        BY <1>s, <1>t, <2>2, <3>1 DEF Step
      <3>3. Waits(t)'
        BY <1>s, <3>2
      <3> QED BY <1>i, <3>2, <3>3
    <2> QED BY <2>1, <2>2
  <1> SUFFICES ASSUME NEW k \in Controls PROVE Waits(ctl[k])'
    BY DEF ControlsStopped
  <1>0. CASE UNCHANGED ctl
    BY <1>0, <1>k
  <1>1. CASE RunNextEvent
    <2>1. ctl'[k] = ctl[k] \/ ctl'[k] = IdleControl
      BY <1>1, <1>t DEF RunNextEvent
    <2> QED BY <1>k, <1>n, <2>1 DEF IdleControl
  <1>2. ASSUME NEW r \in Runs, TurnPaused(r) PROVE Waits(ctl[k])'
    <2>1. PICK c \in Controls : ctl' = [ctl EXCEPT ![c].step = "apply"]
      BY <1>2 DEF TurnPaused
    <2>2. ctl'[k] = ctl[k] \/ ctl'[k] = [ctl[c] EXCEPT !.step = "apply"]
      BY <1>t, <2>1
    <2>3. [ctl[c] EXCEPT !.step = "apply"].step = "apply"
      BY <1>t DEF ControlTasks
    <2> QED BY <1>k, <1>n, <2>2, <2>3
  <1>3. ASSUME NEW c \in Controls, NEW r \in Runs,
               InterruptBegins(c, r) \/ ResumeBegins(c, r) \/ RespondBegins(c, r)
        PROVE  Waits(ctl[k])'
    <2>1. Step(c, "turn", r) \/ Step(c, "apply", r)
      BY <1>3 DEF InterruptBegins, ResumeBegins, RespondBegins
    <2> QED BY <1>s, <2>1
  <1>4. ASSUME NEW c \in Controls, InterruptFails(c) \/ InterruptRejected(c)
        PROVE  Waits(ctl[k])'
    <2>1. ctl'[k] = ctl[k] \/ ctl'[k].step = "idle"
      BY <1>4, <1>t DEF InterruptFails, InterruptRejected, Step
    <2> QED BY <1>k, <1>n, <2>1
  <1>5. ASSUME NEW c \in Controls, NEW r \in Runs, CancelBegins(c, r) PROVE Waits(ctl[k])'
    <2>1. CASE launch[r].held /\ launch[r].step \in {"waiting", "skipped"}
      <3>1. Step(c, "join", r)
        BY <1>5, <2>1 DEF CancelBegins
      <3>2. CASE launch[r].step = "skipped"
        <4>1. Gone(r)'
          BY <3>2, GoneIfSkipped DEF Lasts
        <4> QED BY <1>s, <3>1, <4>1
      <3>3. CASE launch[r].step = "waiting"
        <4>1. launch' = [launch EXCEPT ![r].cancelled = TRUE]
          BY <1>5, <2>1 DEF CancelBegins
        <4>2. /\ launch'[r].step = "waiting" /\ launch'[r].held = launch[r].held
              /\ launch'[r].cancelled = TRUE
          BY <1>t, <3>3, <4>1 DEF Launches
        <4>3. Marked(r)'
          BY <2>1, <4>2 DEF Marked
        <4> QED BY <1>s, <3>1, <4>3
      <3> QED BY <2>1, <3>2, <3>3
    <2>2. CASE ~(launch[r].held /\ launch[r].step \in {"waiting", "skipped"})
               /\ (~Active(r) \/ exec[r].settled \/ StopRejects(r))
      BY <1>0, <1>5, <2>2 DEF CancelBegins
    <2>3. CASE ~(launch[r].held /\ launch[r].step \in {"waiting", "skipped"})
               /\ ~(~Active(r) \/ exec[r].settled \/ StopRejects(r))
      <3>1. Step(c, "stop", r)
        BY <1>5, <2>3 DEF CancelBegins
      <3>2. Ended(r)'
        BY <2>3, EndedIfActive DEF Lasts
      <3> QED BY <1>s, <3>1, <3>2
    <2> QED BY <2>1, <2>2, <2>3
  <1>6. ASSUME NEW c \in Controls, CancelReleased(c) PROVE Waits(ctl[k])'
    <2>1. PICK r \in Runs : r = ctl[c].run
      BY <1>6, <1>r DEF CancelReleased
    <2>2. CASE Active(r)
      <3>1. ctl'[k] = ctl[k] \/ ctl'[k].step = "idle"
        BY <1>6, <1>t, <2>1, <2>2 DEF CancelReleased, Step
      <3> QED BY <1>k, <1>n, <3>1
    <2>3. CASE ~Active(r)
      <3>1. Step(c, "join", r) /\ ctl[c].step = "stop"
        BY <1>6, <2>1, <2>3 DEF CancelReleased
      <3>2. Gone(r)'
        BY <2>1, <2>3, <3>1, GoneIfReleased DEF Lasts, StopKnown, ControlsStopped
      <3> QED BY <1>s, <3>1, <3>2
    <2> QED BY <2>2, <2>3
  <1>7. ASSUME NEW c \in Controls, CancelJoined(c) PROVE Waits(ctl[k])'
    <2>1. PICK r \in Runs : r = ctl[c].run
      BY <1>7, <1>r DEF CancelJoined
    <2>2. Step(c, "apply", r)
      BY <1>7, <2>1 DEF CancelJoined
    <2> QED BY <1>s, <2>2
  <1>8. CASE Restart
    BY <1>8, <1>n DEF Restart, IdleControl
  <1>9. \/ UNCHANGED ctl \/ RunNextEvent \/ Restart \/ \E r \in Runs : TurnPaused(r)
        \/ \E c \in Controls : ControlStep(c)
    <2>1. CASE UNCHANGED vars
      BY <2>1 DEF vars
    <2>2. CASE \E d \in Delegations : \/ \E q \in Calls : Delegate(d, q)
                                      \/ Admit(d) \/ AdmissionRefused(d)
      BY <2>2 DEF Delegate, Admit, AdmissionRefused, AdmissionSettles
    <2>3. CASE \E x \in Runs : RunStep(x)
      BY <2>3, RunLeaves
    <2>4. CASE \E x \in Runs : ExecutorStep(x)
      BY <2>4 DEF ExecutorStep, Spawn, PrepareFails, Loads, Opened, StartFails, TurnEnds,
         AsksPermission, ProcessExits, ReleaseSucceeds, ReleaseFails
    <2>5. CASE CloseStep
      BY <2>5, CloseLeaves
    <2>6. CASE \E c \in Conversations : DeleteStep(c)
      BY <2>6, DeleteLeaves
    <2>7. CASE RecoveryStep
      BY <2>7, RecoveryLeaves
    <2> QED BY <2>1, <2>2, <2>3, <2>4, <2>5, <2>6, <2>7 DEF Next
  <1> QED BY <1>0, <1>1, <1>2, <1>3, <1>4, <1>5, <1>6, <1>7, <1>8, <1>9 DEF ControlStep

\* A deletion waits for a worker it asked to stop, or for a launch it marked.
LEMMA StoppingsStay ==
    ASSUME TypeOK, \A r \in Runs : StartKnown(r) /\ Lasts(r), StopKnown, [Next]_vars, ~Restart
    PROVE  DeletionsStopped'
  <1>t. /\ deletion \in [Conversations -> DeletionTasks] /\ exec \in [Runs -> Entries]
        /\ launch \in [Runs -> Launches]
    BY DEF TypeOK
  <1> DEFINE Waits(t) == /\ \A r \in t.lost : Gone(r)
                         /\ t.step = "done" => t.lost = {}
                         /\ t.current # None => Ended(t.current) \/ Marked(t.current)
             Less(t, o) == /\ t.lost \in {o.lost, {}}
                           /\ t.current \in {o.current, None}
                           /\ t.step = "done" => t.lost = {} \/ o.step = "done"
  <1>i. ASSUME NEW k \in Conversations, NEW t, deletion'[k] = t, Waits(t)'
        PROVE  Waits(deletion[k])'
    BY <1>i
  <1>o. ASSUME NEW k \in Conversations, NEW t, t = deletion[k] PROVE Waits(t) /\ Waits(t)'
    <2>1. t.lost \subseteq Runs /\ (t.current # None => t.current \in Runs)
      BY <1>o, <1>t DEF DeletionTasks
    <2>2. Waits(t)
      BY <1>o DEF StopKnown, DeletionsStopped
    <2>3. \A r \in t.lost : Gone(r)'
      BY <2>1, <2>2 DEF Lasts
    <2>4. t.current # None => Ended(t.current)' \/ Marked(t.current)'
      BY <2>1, <2>2 DEF Lasts, Gone
    <2> QED BY <2>2, <2>3, <2>4
  <1>k. ASSUME NEW k \in Conversations, Less(deletion'[k], deletion[k]) PROVE Waits(deletion[k])'
    <2>1. PICK t, o : t = deletion'[k] /\ o = deletion[k]
      OBVIOUS
    <2>2. Waits(o) /\ Waits(o)'
      BY <1>o, <2>1
    <2>3. Less(t, o)
      BY <1>k, <2>1
    <2>4. Waits(t)'
      BY <2>2, <2>3
    <2> QED BY <1>i, <2>1, <2>4
  <1> SUFFICES ASSUME NEW k \in Conversations PROVE Waits(deletion[k])'
    BY DEF DeletionsStopped
  <1>0. CASE deletion'[k] = deletion[k]
    BY <1>0, <1>k
  <1>1. ASSUME NEW d \in Delegations, AdmissionSettles(d) PROVE Waits(deletion[k])'
    <2>1. deletion'[k] = [deletion[k] EXCEPT !.waits = deletion[k].waits \ {d}]
      BY <1>1 DEF AdmissionSettles
    <2>2. Less(deletion'[k], deletion[k])
      BY <1>t, <2>1 DEF DeletionTasks
    <2> QED BY <1>k, <2>2
  <1>2. ASSUME NEW c \in Conversations, DeleteThrows(c) PROVE Waits(deletion[k])'
    <2>1. CASE Unbegun(c) = {}
      <3>1. deletion' = [deletion EXCEPT ![c] = NotDeleting]
        BY <1>2, <2>1 DEF DeleteThrows
      <3>2. Less(deletion'[k], deletion[k])
        BY <1>t, <3>1 DEF NotDeleting
      <3> QED BY <1>k, <3>2
    <2>2. CASE Unbegun(c) # {}
      <3>1. deletion' = [deletion EXCEPT ![c] = [@ EXCEPT !.step = "undo", !.current = None]]
        BY <1>2, <2>2 DEF DeleteThrows
      <3>2. Less(deletion'[k], deletion[k])
        BY <1>t, <3>1 DEF DeletionTasks
      <3> QED BY <1>k, <3>2
    <2> QED BY <2>1, <2>2
  <1>3. ASSUME NEW c \in Conversations, DeleteBegins(c) PROVE Waits(deletion[k])'
    <2>1. CASE k # c
      <3>1. deletion'[k] = deletion[k]
        BY <1>3, <1>t, <2>1 DEF DeleteBegins
      <3> QED BY <1>0, <3>1
    <2>2. CASE k = c
      <3>1. PICK t : t = deletion'[k]
        OBVIOUS
      <3>2. /\ t.step = "captures" /\ t.current = None
            /\ t.lost = {r \in RunsOf(c) : capture[r] # "none"}
        BY <1>3, <1>t, <2>2, <3>1 DEF DeleteBegins, NotDeleting
      <3>3. \A r \in t.lost : r \in Runs /\ Gone(r)
        BY <3>2 DEF StopKnown, CapturesStopped, RunsOf
      <3>4. \A r \in t.lost : Gone(r)'
        BY <3>3 DEF Lasts
      <3> QED BY <1>i, <3>1, <3>2, <3>4
    <2> QED BY <2>1, <2>2
  <1>4. ASSUME NEW c \in Conversations, NEW r \in Runs, DeleteStops(c, r)
        PROVE  Waits(deletion[k])'
    <2> DEFINE stops == Begun(r) \/ ~launch[r].held
    <2>1. CASE Refused(r) \/ (stops /\ StopRejects(r))
      BY <1>2, <1>4, <2>1 DEF DeleteStops
    <2>2. CASE ~(Refused(r) \/ (stops /\ StopRejects(r)))
      <3>1. /\ deletion' = [deletion EXCEPT ![c].current = r, ![c].todo = deletion[c].todo \ {r}]
            /\ launch' = [launch EXCEPT ![r].cancelled = launch[r].cancelled \/ launch[r].held]
            /\ deletion[c].step = "rows"
        BY <1>4, <2>2 DEF DeleteStops, Deleting
      <3>2. Ended(r)' \/ Marked(r)'
        <4>1. CASE stops
          <5>1. Active(r)
            BY <2>2, <4>1 DEF Refused, RecoveryState, Begun
          <5> QED BY <5>1, EndedIfActive DEF Lasts
        <4>2. CASE ~stops /\ launch[r].step = "skipped"
          BY <4>2, GoneIfSkipped DEF Lasts, Gone
        <4>3. CASE ~stops /\ launch[r].step # "skipped"
          <5>1. launch[r] \in Launches
            BY <1>t
          <5>2. launch[r].held /\ launch[r].step = "waiting"
            BY <4>3, <5>1 DEF Begun, StartKnown, Launches
          <5>3. launch'[r] = [launch[r] EXCEPT !.cancelled = TRUE]
            BY <1>t, <3>1, <5>2
          <5>4. /\ launch'[r].step = launch[r].step /\ launch'[r].held = launch[r].held
                /\ launch'[r].cancelled = TRUE
            BY <5>1, <5>3 DEF Launches
          <5> QED BY <5>2, <5>4 DEF Marked
        <4> QED BY <4>1, <4>2, <4>3
      <3>3. CASE k # c
        <4>1. deletion'[k] = deletion[k]
          BY <1>t, <3>1, <3>3
        <4> QED BY <1>0, <4>1
      <3>4. CASE k = c
        <4>1. PICK t, o : t = deletion'[k] /\ o = deletion[k]
          OBVIOUS
        <4>2. t.step = "rows" /\ t.current = r /\ t.lost = o.lost
          BY <1>t, <3>1, <3>4, <4>1 DEF DeletionTasks
        <4>3. Waits(o)'
          BY <1>o, <4>1
        <4> QED BY <1>i, <3>2, <4>1, <4>2, <4>3
      <3> QED BY <3>3, <3>4
    <2> QED BY <2>1, <2>2
  <1>5. ASSUME NEW c \in Conversations,
               \/ DeleteCollects(c) \/ \E r \in Runs : DeleteCaptured(c, r)
               \/ (DeleteStopped(c) /\ ~DeleteThrows(c)) \/ DeleteUndone(c)
               \/ DeleteDrains(c) \/ DeleteClears(c) \/ DeleteEnds(c) \/ DeleteFails(c)
        PROVE  Waits(deletion[k])'
    <2>0. CASE k # c
      <3>1. deletion'[k] = deletion[k]
        BY <1>5, <1>t, <2>0 DEF DeleteCollects, DeleteCaptured, DeleteStopped, DeleteUndone,
           DeleteDrains, DeleteClears, DeleteEnds, DeleteFails
      <3> QED BY <1>0, <3>1
    <2>1. CASE k = c
      <3>1. CASE \/ DeleteCollects(c) \/ \E r \in Runs : DeleteCaptured(c, r)
                 \/ (DeleteStopped(c) /\ ~DeleteThrows(c)) \/ DeleteDrains(c) \/ DeleteClears(c)
        <4>1. /\ deletion'[c].lost = deletion[c].lost
              /\ deletion'[c].current \in {deletion[c].current, None}
              /\ deletion'[c].step # "done"
          <5>1. CASE DeleteCollects(c)
            BY <1>t, <5>1 DEF DeleteCollects, DeletionTasks
          <5>2. CASE \E r \in Runs : DeleteCaptured(c, r)
            BY <1>t, <5>2 DEF DeleteCaptured, Deleting, DeletionTasks
          <5>3. CASE DeleteStopped(c) /\ ~DeleteThrows(c)
            BY <1>t, <5>3 DEF DeleteStopped, DeletionTasks
          <5>4. CASE DeleteDrains(c) \/ DeleteClears(c)
            BY <1>t, <5>4 DEF DeleteDrains, DeleteClears, DeletionTasks
          <5> QED BY <3>1, <5>1, <5>2, <5>3, <5>4
        <4> QED BY <1>k, <2>1, <4>1
      <3>2. CASE DeleteUndone(c) \/ DeleteEnds(c) \/ DeleteFails(c)
        <4>1. deletion'[c].lost = {} /\ deletion'[c].current = None
          BY <1>t, <3>2 DEF DeleteUndone, DeleteEnds, DeleteFails, NotDeleting
        <4> QED BY <1>k, <2>1, <4>1
      <3> QED BY <1>5, <3>1, <3>2
    <2> QED BY <2>0, <2>1
  <1>6. ASSUME NEW c \in Conversations, DeleteStep(c) PROVE Waits(deletion[k])'
    BY <1>2, <1>3, <1>4, <1>5, <1>6 DEF DeleteStep
  <1>7. CASE UNCHANGED vars
    BY <1>0, <1>7 DEF vars
  <1>8. CASE \E d \in Delegations : \/ \E q \in Calls : Delegate(d, q)
                                    \/ Admit(d) \/ AdmissionRefused(d)
    BY <1>0, <1>1, <1>8 DEF Delegate, Admit, AdmissionRefused, lifecycle
  <1>9. CASE \E x \in Runs : RunStep(x)
    BY <1>0, <1>9, RunLeaves
  <1>10. CASE \E x \in Runs : ExecutorStep(x)
    BY <1>0, <1>10, ExecutorLeaves
  <1>11. CASE RunNextEvent
    BY <1>0, <1>11 DEF RunNextEvent, lifecycle
  <1>12. CASE \E c \in Controls : ControlStep(c)
    BY <1>0, <1>12, ControlLeaves
  <1>13. CASE CloseStep
    BY <1>0, <1>13, CloseLeaves
  <1>14. CASE RecoveryStep
    BY <1>0, <1>14, RecoveryLeaves
  <1> QED BY <1>6, <1>7, <1>8, <1>9, <1>10, <1>11, <1>12, <1>13, <1>14 DEF Next

\* After a restart nothing waits, and no row that says the worker is gone is
\* recovered.
LEMMA RestartKeepsStopped ==
    ASSUME TypeOK, RowInvariant, StopKnown, Restart
    PROVE  StopKnown'
  <1>1. /\ UNCHANGED <<row, native>> /\ events' = <<>>
        /\ exec' = [r \in Runs |-> AbsentExec] /\ launch' = [r \in Runs |-> IdleLaunch]
        /\ capture' = [r \in Runs |-> "none"] /\ ctl' = [c \in Controls |-> IdleControl]
        /\ recovering' = [step |-> "rows", todo |-> UnfinishedRuns, current |-> None]
    BY DEF Restart, tables
  <1>2. RowsStopped'
    <2> SUFFICES ASSUME NEW r \in Runs, row[r].status \in {"completed", "cancelled"}
                 PROVE  Gone(r)'
      BY <1>1 DEF RowsStopped
    <2>1. Gone(r)
      BY DEF StopKnown, RowsStopped
    <2>2. ~Running(r)'
      BY <1>1, <2>1 DEF Gone, Ended, Running
    <2>3. r \notin recovering'.todo
      BY <1>1 DEF UnfinishedRuns, Unfinished, ResourceStatuses
    <2>4. exec'[r].phase = "absent" /\ launch'[r].step = "none"
      BY <1>1 DEF AbsentExec, IdleLaunch
    <2> QED BY <1>1, <2>2, <2>3, <2>4 DEF Gone, Ended
  <1>3. CapturesStopped' /\ QueueStopped'
    BY <1>1 DEF CapturesStopped, QueueStopped
  <1>4. ControlsStopped'
    BY <1>1 DEF ControlsStopped, IdleControl
  <1>5. DeletionsStopped'
    <2> SUFFICES ASSUME NEW c \in Conversations
                 PROVE  deletion'[c].lost = {} /\ deletion'[c].current = None
      BY DEF DeletionsStopped
    <2>1. deletion'[c] = IF deletion[c].step = "done" THEN deletion[c] ELSE NotDeleting
      BY DEF Restart
    <2> QED BY <2>1 DEF NotDeleting, StopKnown, DeletionsStopped, RowInvariant, DeletionKnows
  <1> QED BY <1>2, <1>3, <1>4, <1>5 DEF StopKnown

--------------------
(* The theorems about the worker *)

LEMMA InitWorkers == Init => WorkerInvariant
  <1> SUFFICES ASSUME Init PROVE WorkerInvariant
    OBVIOUS
  <1>1. ASSUME NEW r \in Runs
        PROVE  /\ row[r] = AbsentRow /\ exec[r] = AbsentExec /\ launch[r] = IdleLaunch
               /\ native[r] = "none" /\ record[r] = "none" /\ recovering = Recovered
    BY DEF Init
  <1>2. ASSUME NEW r \in Runs PROVE StartKnown(r) /\ DirectoryKnown(r)
    BY <1>1 DEF StartKnown, DirectoryKnown, Running, Unfinished, ResourceStatuses,
       AbsentRow, AbsentExec, IdleLaunch, Recovered
  <1>3. StopKnown
    <2>1. RowsStopped
      BY <1>1 DEF RowsStopped, AbsentRow
    <2>2. CapturesStopped /\ QueueStopped
      BY DEF Init, CapturesStopped, QueueStopped
    <2>3. ControlsStopped /\ DeletionsStopped
      BY DEF Init, ControlsStopped, DeletionsStopped, IdleControl, NotDeleting
    <2> QED BY <2>1, <2>2, <2>3 DEF StopKnown
  <1> QED BY <1>2, <1>3 DEF WorkerInvariant

LEMMA NextWorkers ==
    TypeOK /\ RowInvariant /\ WorkerInvariant /\ [Next]_vars => WorkerInvariant'
  <1> SUFFICES ASSUME TypeOK, RowInvariant, WorkerInvariant, [Next]_vars
               PROVE  WorkerInvariant'
    OBVIOUS
  <1>1. (\A r \in Runs : StartKnown(r) /\ DirectoryKnown(r)) /\ StopKnown
    BY DEF WorkerInvariant
  <1>2. \A r \in Runs : StartKnown(r)'
    BY <1>1, StepKeepsWorkers, RestartKeepsStart DEF Keeps
  <1>3. \A r \in Runs : DirectoryKnown(r)'
    BY <1>1, DirectoryKept
  <1>4. StopKnown'
    <2>1. CASE Restart
      BY <1>1, <2>1, RestartKeepsStopped
    <2>2. CASE ~Restart
      <3>1. \A r \in Runs : StartKnown(r) /\ Lasts(r)
        BY <1>1, <2>2, StepKeepsWorkers DEF Keeps
      <3> QED BY <1>1, <2>2, <3>1, RowsStay, CapturesStay, QueueStays, ControlsStay,
                 StoppingsStay DEF StopKnown
    <2> QED BY <2>1, <2>2
  <1> QED BY <1>2, <1>3, <1>4 DEF WorkerInvariant

\* What the service, the executor and the activities that await a worker know of
\* it agrees with what really runs, in every reachable state.
THEOREM WorkersWellKept == Spec => [](TypeOK /\ RowInvariant /\ WorkerInvariant)
  <1>1. Init => TypeOK /\ RowInvariant /\ WorkerInvariant
    BY InitType, InitRows, InitWorkers
  <1>2. (TypeOK /\ RowInvariant /\ WorkerInvariant) /\ [Next]_vars
          => (TypeOK /\ RowInvariant /\ WorkerInvariant)'
    BY NextType, NextRows, NextWorkers
  <1> QED BY <1>1, <1>2, PTL DEF Spec

\* When a row says completed or cancelled, no worker of the Run is left: the
\* outcome of a turn, a control and a deletion are written after the release
\* they waited for, and nothing can start another worker meanwhile.
THEOREM SettledAfterStop == Spec => []StoppedBeforeSettled
  <1>1. WorkerInvariant => StoppedBeforeSettled
    BY DEF WorkerInvariant, StopKnown, RowsStopped, Gone, Ended, StoppedBeforeSettled
  <1> QED BY <1>1, WorkersWellKept, PTL

\* A worker is spawned only for a Run without one, although the Host may crash
\* anywhere in close() and in recovery and releases may fail.
THEOREM OneWorkerPerRun == Spec => NoSecondWorker
  <1>1. ASSUME WorkerInvariant
        PROVE  \A r \in Runs : exec[r].phase = "preparing" /\ exec'[r].phase = "opening"
                 => ~Running(r)
    BY <1>1 DEF WorkerInvariant, StartKnown
  <1> QED BY <1>1, WorkersWellKept, PTL DEF NoSecondWorker

\* The directory in which a worker runs is there as long as its Run may go on:
\* close(), a close() that failed, a deletion and the recovery remove others.
THEOREM DirectoriesStay == Spec => []UnfinishedKeepsDirectory
  <1>1. WorkerInvariant => UnfinishedKeepsDirectory
    BY DEF WorkerInvariant, DirectoryKnown, UnfinishedKeepsDirectory
  <1> QED BY <1>1, WorkersWellKept, PTL
--------------------
(* What the entries and the launches know of each other *)

\* A launch that is not there is not marked, and none is over.
LEMMA EntryFrame ==
    ASSUME NEW s \in Runs, StartKnown(s), EntryKnown(s), exec'[s] = exec[s], native'[s] = native[s],
           launch'[s].step = launch[s].step,
           HeldStays(s),
           launch'[s].cancelled => launch[s].cancelled \/ launch[s].held
    PROVE  EntryKnown(s)'
  BY DEF EntryKnown, EntryTells, StartKnown, HeldStays

\* The same for a step that writes one entry and one worker.
LEMMA OneEntry ==
    ASSUME TypeOK, NEW r \in Runs, NEW e, SetExec(r, e), UNCHANGED launch,
           NEW n, native' = [native EXCEPT ![r] = n], EntryTells(e, launch[r], n),
           NEW s \in Runs, StartKnown(s), EntryKnown(s)
    PROVE  EntryKnown(s)'
  <1>t. exec \in [Runs -> Entries]
        /\ native \in [Runs -> {"none", "live", "exited", "disconnected", "released"}]
    BY DEF TypeOK
  <1>1. CASE s = r
    <2>1. exec'[s] = e /\ native'[s] = n /\ launch'[s] = launch[r]
      BY <1>1, <1>t DEF SetExec
    <2> QED BY <2>1, <1>1 DEF EntryKnown
  <1>2. CASE s # r
    <2>1. exec'[s] = exec[s] /\ native'[s] = native[s]
      BY <1>2, <1>t DEF SetExec
    <2> QED BY <2>1, EntryFrame DEF HeldStays
  <1> QED BY <1>1, <1>2

\* The same for a step that writes one entry and no worker.
LEMMA OneEntryOnly ==
    ASSUME TypeOK, NEW r \in Runs, NEW e, SetExec(r, e), UNCHANGED <<launch, native>>,
           EntryTells(e, launch[r], native[r]),
           NEW s \in Runs, StartKnown(s), EntryKnown(s)
    PROVE  EntryKnown(s)'
  <1>1. native' = [native EXCEPT ![r] = native[r]]
    BY DEF TypeOK
  <1> QED BY <1>1, OneEntry

\* The executor opens, prompts, pauses and releases.
LEMMA ExecutorKeepsEntries ==
    ASSUME TypeOK, \A r \in Runs : StartKnown(r) /\ EntryKnown(r), NEW r \in Runs, ExecutorStep(r),
           NEW s \in Runs
    PROVE  EntryKnown(s)'
  <1> USE DEF outsideExecutor
  <1>t. /\ exec[r] \in Entries /\ StartKnown(r) /\ EntryTells(exec[r], launch[r], native[r])
        /\ native[r] \in {"none", "live", "exited", "disconnected", "released"}
    BY DEF TypeOK, EntryKnown
  <1>0. UNCHANGED launch
    BY ExecutorLeaves
  <1>1. CASE Spawn(r)
    <2> DEFINE e == [exec[r] EXCEPT !.phase = "opening"]
    <2>1. /\ e.phase = "opening" /\ e.start = exec[r].start /\ e.pending = exec[r].pending
          /\ e.asked = exec[r].asked /\ e.saved = exec[r].saved /\ SetExec(r, e)
          /\ native' = [native EXCEPT ![r] = "live"]
      BY <1>1, <1>t DEF Spawn, Entries
    <2> HIDE DEF e
    <2>2. EntryTells(e, launch[r], "live")
      BY <1>1, <1>t, <2>1 DEF Spawn, EntryTells
    <2> QED BY <1>0, <2>1, <2>2, OneEntry
  <1>2. CASE PrepareFails(r)
    <2> DEFINE e == [AbsentExec EXCEPT !.start = "failed", !.restoring = exec[r].restoring]
    <2>1. /\ e.phase = "absent" /\ e.start = "failed" /\ e.pending = {}
          /\ e.asked = 0 /\ e.saved = FALSE /\ SetExec(r, e) /\ UNCHANGED native
      BY <1>2, <1>t DEF PrepareFails, AbsentExec
    <2> HIDE DEF e
    <2>2. EntryTells(e, launch[r], native[r])
      BY <1>2, <1>t, <2>1 DEF PrepareFails, EntryTells
    <2> QED BY <1>0, <2>1, <2>2, OneEntryOnly
  <1>3. CASE Loads(r)
    <2> DEFINE e == [exec[r] EXCEPT !.phase = "loading"]
    <2>1. /\ e.phase = "loading" /\ e.start = exec[r].start /\ e.pending = exec[r].pending
          /\ e.asked = exec[r].asked /\ e.saved = exec[r].saved /\ SetExec(r, e) /\ UNCHANGED native
      BY <1>3, <1>t DEF Loads, Entries
    <2> HIDE DEF e
    <2>2. EntryTells(e, launch[r], native[r])
      BY <1>3, <1>t, <2>1 DEF Loads, EntryTells
    <2> QED BY <1>0, <2>1, <2>2, OneEntryOnly
  <1>4. CASE Opened(r)
    <2>1. PICK saved \in BOOLEAN :
            SetExec(r, [exec[r] EXCEPT !.saved = saved, !.start = "ok",
                           !.turn = ~exec[r].restoring,
                           !.phase = IF exec[r].restoring THEN "paused" ELSE "turn"])
      BY <1>4 DEF Opened
    <2> DEFINE e == [exec[r] EXCEPT !.saved = saved, !.start = "ok",
                           !.turn = ~exec[r].restoring,
                           !.phase = IF exec[r].restoring THEN "paused" ELSE "turn"]
    <2>2. /\ e.phase \in {"paused", "turn"} /\ e.start = "ok" /\ e.pending = exec[r].pending
          /\ e.asked = exec[r].asked /\ SetExec(r, e) /\ UNCHANGED native
      BY <1>4, <1>t, <2>1 DEF Opened, Entries
    <2> HIDE DEF e
    <2>3. EntryTells(e, launch[r], native[r])
      BY <1>4, <1>t, <2>2 DEF Opened, EntryTells
    <2> QED BY <1>0, <2>2, <2>3, OneEntryOnly
  <1>5. CASE StartFails(r)
    <2> DEFINE e == [exec[r] EXCEPT !.phase = "releasing", !.why = "startup"]
    <2>1. /\ e.phase = "releasing" /\ e.why = "startup" /\ e.start = exec[r].start
          /\ e.pending = exec[r].pending
          /\ e.asked = exec[r].asked /\ e.saved = exec[r].saved /\ SetExec(r, e) /\ UNCHANGED native
      BY <1>5, <1>t DEF StartFails, Entries
    <2> HIDE DEF e
    <2>2. EntryTells(e, launch[r], native[r])
      BY <1>5, <1>t, <2>1 DEF StartFails, EntryTells, Outcomes
    <2> QED BY <1>0, <2>1, <2>2, OneEntryOnly
  <1>6. ASSUME NEW outcome \in Outcomes, TurnEnds(r, outcome) PROVE EntryKnown(s)'
    <2> DEFINE e == Settling(r, outcome)
    <2>1. /\ e.phase = "releasing" /\ e.why = outcome /\ e.start = exec[r].start
          /\ e.pending = exec[r].pending
          /\ e.asked = exec[r].asked /\ e.saved = exec[r].saved /\ SetExec(r, e) /\ UNCHANGED native
      BY <1>6, <1>t DEF TurnEnds, Entries, Settling
    <2> HIDE DEF e
    <2>2. EntryTells(e, launch[r], native[r])
      BY <1>6, <1>t, <2>1 DEF TurnEnds, EntryTells, Outcomes
    <2> QED BY <1>0, <2>1, <2>2, OneEntryOnly
  <1>7. CASE TurnPaused(r)
    <2> DEFINE e == [exec[r] EXCEPT !.phase = "paused", !.turn = FALSE]
    <2>1. /\ e.phase = "paused" /\ e.start = exec[r].start
          /\ e.pending = exec[r].pending
          /\ e.asked = exec[r].asked /\ e.saved = exec[r].saved /\ SetExec(r, e) /\ UNCHANGED native
      BY <1>7, <1>t DEF TurnPaused, Entries
    <2> HIDE DEF e
    <2>2. EntryTells(e, launch[r], native[r])
      BY <1>7, <1>t, <2>1 DEF TurnPaused, EntryTells
    <2> QED BY <1>0, <2>1, <2>2, OneEntryOnly
  <1>8. CASE AsksPermission(r)
    <2> DEFINE e == [exec[r] EXCEPT !.asked = exec[r].asked + 1,
                                    !.pending = @ \cup {exec[r].asked + 1}]
    <2>0. SetExec(r, e)
      BY <1>8 DEF AsksPermission
    <2>1. /\ e.phase = exec[r].phase /\ e.start = exec[r].start
          /\ e.pending = exec[r].pending \cup {exec[r].asked + 1}
          /\ e.asked = exec[r].asked + 1 /\ e.saved = exec[r].saved /\ UNCHANGED native
      BY <1>8, <1>t DEF AsksPermission, Entries
    <2> HIDE DEF e
    <2>a. exec[r].asked \in Nat
      BY <1>t, RunStateAssumption DEF Entries
    <2>2. EntryTells(e, launch[r], native[r])
      BY <1>8, <1>t, <2>1, <2>a DEF AsksPermission, EntryTells
    <2> QED BY <1>0, <2>0, <2>1, <2>2, OneEntryOnly
  <1>9. CASE ProcessExits(r)
    <2>1. PICK e \in {exec[r], Settling(r, "failed")} : SetExec(r, e)
      BY <1>9, <1>t DEF ProcessExits, SetExec, TypeOK
    <2>2. native' = [native EXCEPT ![r] = "exited"]
      BY <1>9 DEF ProcessExits
    <2>3. CASE e = exec[r]
      <3>1. EntryTells(e, launch[r], "exited")
        BY <1>t, <2>3 DEF EntryTells
      <3> QED BY <1>0, <2>1, <2>2, <3>1, OneEntry
    <2>4. CASE e = Settling(r, "failed")
      <3>1. /\ e.phase = "releasing" /\ e.why = "failed" /\ e.start = exec[r].start
            /\ e.pending = exec[r].pending /\ e.asked = exec[r].asked /\ e.saved = exec[r].saved
        BY <1>t, <2>4 DEF Settling, Entries
      <3>2. EntryTells(e, launch[r], "exited")
        BY <1>t, <3>1 DEF EntryTells, Outcomes
      <3> QED BY <1>0, <2>1, <2>2, <3>2, OneEntry
    <2> QED BY <2>1, <2>3, <2>4
  <1>10. CASE ReleaseSucceeds(r)
    <2>1. PICK start \in StartAfterRelease(r) \cup Unsupported(r) :
            SetExec(r, [AbsentExec EXCEPT !.start = start, !.restoring = exec[r].restoring])
      BY <1>10 DEF ReleaseSucceeds
    <2> DEFINE e == [AbsentExec EXCEPT !.start = start, !.restoring = exec[r].restoring]
    <2>2. /\ e.phase = "absent" /\ e.start = start /\ e.pending = {} /\ e.asked = 0
          /\ e.saved = FALSE
          /\ SetExec(r, e) /\ native' = [native EXCEPT ![r] = "released"]
      BY <1>10, <2>1 DEF ReleaseSucceeds, AbsentExec
    <2> HIDE DEF e
    <2>3. launch[r].step = "ended" => start = "none"
      BY <1>10, <1>t, <2>1 DEF StartAfterRelease, Unsupported, EntryTells, ReleaseSucceeds
    <2>4. EntryTells(e, launch[r], "released")
      BY <1>t, <2>2, <2>3 DEF EntryTells
    <2> QED BY <1>0, <2>2, <2>4, OneEntry
  <1>11. CASE ReleaseFails(r)
    <2>1. PICK start \in StartAfterRelease(r), turn \in {FALSE, exec[r].turn /\ ~exec[r].settled} :
            SetExec(r, [exec[r] EXCEPT !.phase = "unreleased", !.start = start, !.turn = turn,
                           !.why = IF @ = "startup" THEN @ ELSE None])
      BY <1>11 DEF ReleaseFails
    <2> DEFINE e == [exec[r] EXCEPT !.phase = "unreleased", !.start = start, !.turn = turn,
                         !.why = IF @ = "startup" THEN @ ELSE None]
    <2>2. /\ e.phase = "unreleased" /\ e.start = start /\ e.pending = exec[r].pending
          /\ e.asked = exec[r].asked /\ e.saved = exec[r].saved /\ SetExec(r, e)
      BY <1>t, <2>1 DEF Entries
    <2> HIDE DEF e
    <2>3. /\ launch[r].step = "ended" => start = "none"
          /\ exec[r].saved => start \in {"ok", "none"}
      BY <1>t, <2>1 DEF StartAfterRelease, EntryTells
    <2>4. PICK n \in {native[r], "disconnected"} : native' = [native EXCEPT ![r] = n]
      <3>1. \/ UNCHANGED native
            \/ native' = [native EXCEPT ![r] = IF @ = "live" THEN "disconnected" ELSE @]
        BY <1>11 DEF ReleaseFails
      <3>2. native = [native EXCEPT ![r] = native[r]]
        BY DEF TypeOK
      <3> QED BY <3>1, <3>2
    <2>5. EntryTells(e, launch[r], n)
      BY <1>11, <1>t, <2>2, <2>3 DEF EntryTells, ReleaseFails
    <2> QED BY <1>0, <2>2, <2>4, <2>5, OneEntry
  <1> QED BY <1>1, <1>2, <1>3, <1>4, <1>5, <1>6, <1>7, <1>8, <1>9, <1>10, <1>11 DEF ExecutorStep

\* stop() leaves an entry that tells the same.
LEMMA StoppingTells ==
    ASSUME TypeOK, NEW r \in Runs, EntryKnown(r)
    PROVE  EntryTells(Stopping(r), launch[r], native[r])
  <1>t. exec[r] \in Entries /\ EntryTells(exec[r], launch[r], native[r])
    BY DEF TypeOK, EntryKnown
  <1>1. CASE StopJoins(r)
    <2>1. Stopping(r) = exec[r]
      BY <1>1 DEF Stopping, StopJoins, StopRejects
    <2> QED BY <1>t, <2>1
  <1>2. CASE ~StopJoins(r) /\ StopRejects(r)
    <2> DEFINE e == [exec[r] EXCEPT !.why = None]
    <2>1. /\ e.phase = "unreleased" /\ exec[r].phase = "unreleased" /\ e.start = exec[r].start
          /\ e.pending = exec[r].pending /\ e.asked = exec[r].asked /\ e.saved = exec[r].saved
          /\ Stopping(r) = e
      BY <1>2, <1>t DEF Stopping, StopRejects, Entries
    <2> HIDE DEF e
    <2> QED BY <1>t, <2>1 DEF EntryTells
  <1>3. CASE ~StopJoins(r) /\ ~StopRejects(r)
    <2> DEFINE e == [exec[r] EXCEPT !.phase = "releasing", !.why = "stop"]
    <2>1. /\ e.phase = "releasing" /\ e.why = "stop" /\ e.start = exec[r].start
          /\ e.pending = exec[r].pending /\ e.asked = exec[r].asked /\ e.saved = exec[r].saved
          /\ Stopping(r) = e
      BY <1>3, <1>t DEF Stopping, Entries
    <2>2. exec[r].phase \notin {"absent", "preparing"}
      BY <1>3 DEF StopJoins
    <2> HIDE DEF e
    <2> QED BY <1>t, <2>1, <2>2 DEF EntryTells
  <1> QED BY <1>1, <1>2, <1>3

\* A step that writes one entry and marks a launch.
LEMMA EntryAndMark ==
    ASSUME TypeOK, NEW r \in Runs, NEW e, SetExec(r, e), UNCHANGED native,
           EntryTells(e, launch[r], native[r]),
           \A x \in Runs : /\ launch'[x].step = launch[x].step /\ HeldStays(x)
                           /\ launch'[x].cancelled => launch[x].cancelled \/ launch[x].held,
           NEW s \in Runs, StartKnown(s), EntryKnown(s)
    PROVE  EntryKnown(s)'
  <1>t. exec \in [Runs -> Entries]
    BY DEF TypeOK
  <1>1. CASE s = r
    <2>1. exec'[s] = e /\ native'[s] = native[r]
      BY <1>1, <1>t DEF SetExec
    <2> QED BY <2>1, <1>1 DEF EntryKnown, EntryTells, StartKnown, HeldStays
  <1>2. CASE s # r
    <2>1. exec'[s] = exec[s] /\ native'[s] = native[s]
      BY <1>2, <1>t DEF SetExec
    <2> QED BY <2>1, EntryFrame
  <1> QED BY <1>1, <1>2

\* The controls.
LEMMA ControlKeepsEntries ==
    ASSUME TypeOK, \A r \in Runs : StartKnown(r) /\ EntryKnown(r), NEW c \in Controls,
           ControlStep(c), NEW s \in Runs
    PROVE  EntryKnown(s)'
  <1> USE DEF lifecycle, files, tasks, executor, HeldStays
  <1>t. \A x \in Runs : /\ exec[x] \in Entries /\ launch[x] \in Launches
                        /\ EntryTells(exec[x], launch[x], native[x])
    BY DEF TypeOK, EntryKnown
  <1>x. exec \in [Runs -> Entries] /\ launch \in [Runs -> Launches]
    BY DEF TypeOK
  <1>1. ASSUME NEW r \in Runs, InterruptBegins(c, r) PROVE EntryKnown(s)'
    <2> DEFINE e == [exec[r] EXCEPT !.phase = "interrupting"]
    <2>1. /\ e.phase = "interrupting" /\ e.start = exec[r].start /\ e.pending = exec[r].pending
          /\ e.asked = exec[r].asked /\ e.saved = exec[r].saved /\ SetExec(r, e)
          /\ UNCHANGED <<launch, native>>
      BY <1>1, <1>t DEF InterruptBegins, Entries
    <2>2. exec[r].phase = "turn"
      BY <1>1 DEF InterruptBegins, Controllable, Actions, RuntimeActions
    <2> HIDE DEF e
    <2>3. EntryTells(e, launch[r], native[r])
      BY <1>t, <2>1, <2>2 DEF EntryTells
    <2> QED BY <2>1, <2>3, OneEntryOnly
  <1>2. ASSUME NEW r \in Runs, ResumeBegins(c, r) PROVE EntryKnown(s)'
    <2> DEFINE e == [exec[r] EXCEPT !.phase = "turn", !.turn = TRUE]
    <2>1. /\ e.phase = "turn" /\ e.start = exec[r].start /\ e.pending = exec[r].pending
          /\ e.asked = exec[r].asked /\ e.saved = exec[r].saved /\ SetExec(r, e)
          /\ UNCHANGED <<launch, native>>
      BY <1>2, <1>t DEF ResumeBegins, Entries
    <2>2. exec[r].phase = "paused"
      BY <1>2 DEF ResumeBegins, Controllable, Actions, RuntimeActions
    <2> HIDE DEF e
    <2>3. EntryTells(e, launch[r], native[r])
      BY <1>t, <2>1, <2>2 DEF EntryTells
    <2> QED BY <2>1, <2>3, OneEntryOnly
  <1>3. ASSUME NEW r \in Runs, RespondBegins(c, r) PROVE EntryKnown(s)'
    <2> DEFINE e == [exec[r] EXCEPT !.pending = @ \ {row[r].permission}]
    <2>1. /\ e.phase = exec[r].phase /\ e.start = exec[r].start
          /\ e.pending \subseteq exec[r].pending
          /\ e.why = exec[r].why
          /\ e.asked = exec[r].asked /\ e.saved = exec[r].saved /\ SetExec(r, e)
          /\ UNCHANGED <<launch, native>>
      BY <1>3, <1>t DEF RespondBegins, Entries
    <2> HIDE DEF e
    <2>3. EntryTells(e, launch[r], native[r])
      BY <1>t, <2>1 DEF EntryTells
    <2> QED BY <2>1, <2>3, OneEntryOnly
  <1>4. ASSUME NEW r \in Runs, CancelBegins(c, r) PROVE EntryKnown(s)'
    <2>1. UNCHANGED native /\ \/ UNCHANGED exec \/ SetExec(r, exec[r]) \/ SetExec(r, Stopping(r))
      BY <1>4 DEF CancelBegins
    <2>2. PICK b \in BOOLEAN :
            launch' = [launch EXCEPT ![r].cancelled = IF launch[r].held THEN b ELSE @]
      <3> DEFINE mark(b) ==
            launch' = [launch EXCEPT ![r].cancelled = IF launch[r].held THEN b ELSE @]
      <3>1. mark(TRUE) \/ mark(FALSE)
        BY <1>4 DEF CancelBegins
      <3> QED BY <3>1
    <2>3. \A x \in Runs : /\ launch'[x].step = launch[x].step /\ HeldStays(x)
                          /\ launch'[x].cancelled => launch[x].cancelled \/ launch[x].held
      BY <1>t, <1>x, <2>2 DEF Launches
    <2>4. PICK e \in {exec[r], Stopping(r)} : SetExec(r, e)
      BY <1>x, <2>1 DEF SetExec
    <2>5. EntryTells(e, launch[r], native[r])
      BY <1>t, StoppingTells
    <2> QED BY <2>1, <2>3, <2>4, <2>5, EntryAndMark
  <1>5. CASE InterruptFails(c)
    BY <1>5, EntryFrame DEF InterruptFails
  <1>6. CASE InterruptRejected(c)
    <2> DEFINE r == ctl[c].run
               e == [exec[r] EXCEPT !.phase = "turn"]
    <2>1. r \in Runs
      BY <1>6, ControlledRun DEF InterruptRejected
    <2>2. /\ e.phase = "turn" /\ e.start = exec[r].start /\ e.pending = exec[r].pending
          /\ e.asked = exec[r].asked /\ e.saved = exec[r].saved /\ SetExec(r, e)
          /\ UNCHANGED <<launch, native>>
          /\ exec[r].phase = "interrupting"
      BY <1>6, <1>t, <2>1 DEF InterruptRejected, Entries
    <2> HIDE DEF e
    <2>3. EntryTells(e, launch[r], native[r])
      BY <1>t, <2>1, <2>2 DEF EntryTells
    <2> QED BY <2>1, <2>2, <2>3, OneEntryOnly
  <1>7. CASE CancelReleased(c)
    <2> DEFINE r == ctl[c].run
    <2>1. r \in Runs
      BY <1>7, ControlledRun DEF CancelReleased
    <2>2. \/ UNCHANGED launch
          \/ launch' = [launch EXCEPT ![r].cancelled = IF launch[r].held THEN FALSE ELSE @]
      BY <1>7 DEF CancelReleased
    <2> HIDE DEF r
    <2>a. CASE UNCHANGED launch
      BY <1>7, <2>a, EntryFrame DEF CancelReleased
    <2>b. CASE launch' = [launch EXCEPT ![r].cancelled = IF launch[r].held THEN FALSE ELSE @]
      <3>1. /\ launch'[s].step = launch[s].step /\ HeldStays(s)
            /\ launch'[s].cancelled => launch[s].cancelled
        BY <1>t, <1>x, <2>1, <2>b DEF Launches, HeldStays
      <3> QED BY <1>7, <3>1, EntryFrame DEF CancelReleased
    <2> QED BY <2>2, <2>a, <2>b
  <1>8. CASE CancelJoined(c)
    <2> DEFINE r == ctl[c].run
    <2>1. r \in Runs
      BY <1>8, ControlledRun DEF CancelJoined
    <2>2. /\ launch'[s].step = launch[s].step /\ HeldStays(s)
          /\ launch'[s].cancelled => launch[s].cancelled
      BY <1>8, <1>t, <1>x, <2>1 DEF Launches, CancelJoined, LaunchOver, HeldStays
    <2> QED BY <1>8, <2>2, EntryFrame DEF CancelJoined
  <1> QED BY <1>1, <1>2, <1>3, <1>4, <1>5, <1>6, <1>7, <1>8 DEF ControlStep

\* close() releases workers through the executor, and marks launches.
LEMMA CloseKeepsEntries ==
    ASSUME TypeOK, \A r \in Runs : StartKnown(r) /\ EntryKnown(r), CloseStep, NEW s \in Runs
    PROVE  EntryKnown(s)'
  <1> USE DEF lifecycle, files, tasks, executor, HeldStays
  <1>t. /\ \A x \in Runs : /\ exec[x] \in Entries /\ launch[x] \in Launches
                           /\ EntryTells(exec[x], launch[x], native[x])
        /\ launch \in [Runs -> Launches]
    BY DEF TypeOK, EntryKnown
  <1>1. CASE Close \/ CloseDrains
    <2>1. /\ launch'[s].step = launch[s].step /\ HeldStays(s)
          /\ launch'[s].cancelled => launch[s].cancelled \/ launch[s].held
      BY <1>1, <1>t DEF Close, CloseDrains, LaunchOver, Launches, HeldStays
    <2> QED BY <1>1, <2>1, EntryFrame DEF Close, CloseDrains
  <1>2. CASE CloseProbes \/ SuspendEnds \/ CloseSettles
    BY <1>2, EntryFrame DEF CloseProbes, SuspendEnds, CloseSettles
  <1>3. CASE SuspendBegins
    <2> DEFINE r == First(closing.todo)
    <2>1. r \in Runs
      <3>1. closing.todo \in SUBSET Runs /\ closing.todo # {}
        BY <1>3 DEF SuspendBegins, TypeOK, ClosingTasks
      <3> QED BY <3>1, FirstIsMember
    <2>2. UNCHANGED <<launch, native>>
      BY <1>3 DEF SuspendBegins
    <2>3. CASE Suspends(r)
      <3> DEFINE e == [exec[r] EXCEPT !.phase = "releasing", !.why = "suspend"]
      <3>1. /\ e.phase = "releasing" /\ e.why = "suspend" /\ e.start = exec[r].start
            /\ e.pending = exec[r].pending /\ e.asked = exec[r].asked /\ e.saved = exec[r].saved
            /\ SetExec(r, e)
        BY <1>3, <1>t, <2>1, <2>3 DEF SuspendBegins, Entries
      <3>2. exec[r].phase \notin {"absent", "preparing"}
        BY <2>1, <2>3 DEF Suspends, StartKnown
      <3> HIDE DEF e
      <3>3. EntryTells(e, launch[r], native[r])
        BY <1>t, <2>1, <3>1, <3>2 DEF EntryTells
      <3> QED BY <2>1, <2>2, <3>1, <3>3, OneEntryOnly
    <2>4. CASE ~Suspends(r)
      <3>1. SetExec(r, Stopping(r))
        BY <1>3, <2>4 DEF SuspendBegins
      <3>2. EntryTells(Stopping(r), launch[r], native[r])
        BY <2>1, StoppingTells
      <3> HIDE DEF r
      <3> QED BY <2>1, <2>2, <3>1, <3>2, OneEntryOnly
    <2> QED BY <2>3, <2>4
  <1> QED BY <1>1, <1>2, <1>3 DEF CloseStep

\* So do the deletions.
LEMMA DeleteKeepsEntries ==
    ASSUME TypeOK, \A r \in Runs : StartKnown(r) /\ EntryKnown(r), NEW c \in Conversations,
           DeleteStep(c), NEW s \in Runs
    PROVE  EntryKnown(s)'
  <1> USE DEF deletionOthers, files, tasks, executor, HeldStays
  <1>t. /\ \A x \in Runs : /\ exec[x] \in Entries /\ launch[x] \in Launches
                           /\ EntryTells(exec[x], launch[x], native[x])
        /\ launch \in [Runs -> Launches] /\ exec \in [Runs -> Entries]
    BY DEF TypeOK, EntryKnown
  <1>d. ASSUME DeleteThrows(c), NEW x \in Runs
        PROVE  /\ launch'[x].step = launch[x].step /\ HeldStays(x)
               /\ launch'[x].cancelled => launch[x].cancelled \/ launch[x].held
    BY <1>d, <1>t DEF DeleteThrows, Launches, HeldStays
  <1>1. CASE \/ DeleteBegins(c) \/ DeleteCollects(c) \/ \E r \in Runs : DeleteCaptured(c, r)
             \/ DeleteDrains(c) \/ DeleteClears(c) \/ DeleteEnds(c) \/ DeleteFails(c)
    <2>1. UNCHANGED <<launch, exec, native>>
      BY <1>1 DEF DeleteBegins, DeleteCollects, DeleteCaptured, DeleteDrains, DeleteClears,
                  DeleteEnds, DeleteFails
    <2> QED BY <2>1, EntryFrame
  <1>2. ASSUME NEW r \in Runs, DeleteStops(c, r) PROVE EntryKnown(s)'
    <2>1. UNCHANGED native
      BY <1>2 DEF DeleteStops
    <2>2. PICK e \in {exec[r], Stopping(r)} : SetExec(r, e)
      BY <1>2 DEF DeleteStops
    <2>3. EntryTells(e, launch[r], native[r])
      BY <1>t, StoppingTells
    <2>4. ASSUME NEW x \in Runs
          PROVE  /\ launch'[x].step = launch[x].step /\ HeldStays(x)
                 /\ launch'[x].cancelled => launch[x].cancelled \/ launch[x].held
      <3>1. CASE DeleteThrows(c)
        BY <1>d, <3>1
      <3>2. CASE launch' = [launch EXCEPT ![r].cancelled = @ \/ launch[r].held]
        BY <1>t, <3>2 DEF Launches, HeldStays
      <3> QED BY <1>2, <3>1, <3>2 DEF DeleteStops
    <2> QED BY <2>1, <2>2, <2>3, <2>4, EntryAndMark
  <1>3. CASE DeleteStopped(c)
    <2> DEFINE r == deletion[c].current
    <2>1. r \in Runs
      BY <1>3 DEF DeleteStopped, DeletionTasks, TypeOK
    <2>2. CASE DeleteThrows(c)
      BY <1>3, <1>d, <2>2, EntryFrame DEF DeleteStopped
    <2>3. CASE launch' = [launch EXCEPT ![r].held = FALSE] /\ LaunchOver(r)
      <3>1. /\ launch'[s].step = launch[s].step /\ HeldStays(s)
            /\ launch'[s].cancelled => launch[s].cancelled
        BY <1>t, <2>1, <2>3 DEF Launches, LaunchOver, HeldStays
      <3> QED BY <1>3, <3>1, EntryFrame DEF DeleteStopped
    <2> QED BY <1>3, <2>2, <2>3 DEF DeleteStopped
  <1>4. CASE DeleteUndone(c)
    <2>1. /\ launch'[s].step = launch[s].step /\ HeldStays(s)
          /\ launch'[s].cancelled => launch[s].cancelled
      BY <1>4, <1>t DEF DeleteUndone, Launches, HeldStays
    <2> QED BY <1>4, <2>1, EntryFrame DEF DeleteUndone
  <1> QED BY <1>1, <1>2, <1>3, <1>4 DEF DeleteStep

\* A launch begins with a new entry, and is over when it has its result.
LEMMA RunStepKeepsEntries ==
    ASSUME TypeOK, \A r \in Runs : StartKnown(r) /\ EntryKnown(r), NEW r \in Runs, RunStep(r),
           NEW s \in Runs
    PROVE  EntryKnown(s)'
  <1> USE DEF files, executor, tasks, invocations, lifecycle, tables, HeldStays
  <1>t. /\ \A x \in Runs : /\ exec[x] \in Entries /\ launch[x] \in Launches
                           /\ EntryTells(exec[x], launch[x], native[x])
        /\ launch \in [Runs -> Launches] /\ exec \in [Runs -> Entries]
    BY DEF TypeOK, EntryKnown
  <1>1. CASE s # r /\ (LaunchBegins(r) \/ LaunchRefused(r) \/ LaunchEnds(r))
    <2>1. launch'[s] = launch[s] /\ exec'[s] = exec[s] /\ native'[s] = native[s]
      BY <1>1, <1>t DEF LaunchBegins, LaunchRefused, LaunchEnds, SetExec
    <2> QED BY <2>1, EntryFrame
  <1>2. CASE s = r /\ (LaunchBegins(r) \/ LaunchRefused(r))
    <2>1. launch[r].step = "waiting" /\ exec[r].phase = "absent"
      BY <1>2 DEF LaunchBegins, LaunchRefused, StartKnown
    <2>2. UNCHANGED native
      BY <1>2 DEF LaunchBegins, LaunchRefused
    <2>3. CASE LaunchRefused(r)
      <3>1. launch'[r].step = "skipped" /\ UNCHANGED exec
        BY <1>t, <2>3 DEF LaunchRefused, Launches
      <3> QED BY <1>2, <1>t, <2>1, <2>2, <3>1 DEF EntryKnown, EntryTells
    <2>4. CASE LaunchBegins(r) /\ LaunchCancelled(r)
      <3>1. /\ launch' = [launch EXCEPT
                ![r] = [launch[r] EXCEPT !.step = "skipped", !.cancelled = TRUE]]
            /\ UNCHANGED exec
        BY <2>4 DEF LaunchBegins
      <3>2. [launch[r] EXCEPT !.step = "skipped", !.cancelled = TRUE].step = "skipped"
        BY <1>t DEF Launches
      <3>3. launch'[r].step = "skipped"
        BY <1>t, <3>1, <3>2
      <3> QED BY <1>2, <1>t, <2>1, <2>2, <3>1, <3>3 DEF EntryKnown, EntryTells
    <2>5. CASE LaunchBegins(r) /\ ~LaunchCancelled(r) /\ row[r].completed
      <3>1. /\ launch' = [launch EXCEPT
                ![r] = [launch[r] EXCEPT !.step = "skipped", !.held = FALSE]]
            /\ UNCHANGED exec
        BY <2>5 DEF LaunchBegins
      <3>2. [launch[r] EXCEPT !.step = "skipped", !.held = FALSE].step = "skipped"
        BY <1>t DEF Launches
      <3>3. launch'[r].step = "skipped"
        BY <1>t, <3>1, <3>2
      <3> QED BY <1>2, <1>t, <2>1, <2>2, <3>1, <3>3 DEF EntryKnown, EntryTells
    <2>6. CASE LaunchBegins(r) /\ ~LaunchCancelled(r) /\ ~row[r].completed
      <3>1. launch'[r].step = "started" /\ launch'[r].held /\ SetExec(r, Preparing(FALSE))
        <4> DEFINE l == [launch[r] EXCEPT !.step = "started"]
        <4>1. launch' = [launch EXCEPT ![r] = l] /\ SetExec(r, Preparing(FALSE))
          BY <2>6 DEF LaunchBegins
        <4>2. l.step = "started" /\ l.held
          BY <1>t, <2>1 DEF Launches, EntryTells
        <4> HIDE DEF l
        <4> QED BY <1>t, <4>1, <4>2
      <3>2. /\ Preparing(FALSE).phase = "preparing" /\ Preparing(FALSE).start = "pending"
            /\ Preparing(FALSE).pending = {} /\ Preparing(FALSE).asked = 0
            /\ Preparing(FALSE).saved = FALSE
        BY DEF Preparing, AbsentExec
      <3>3. exec'[r] = Preparing(FALSE)
        BY <1>t, <3>1 DEF SetExec
      <3> QED BY <1>2, <1>t, <2>1, <2>2, <3>1, <3>2, <3>3 DEF EntryKnown, EntryTells
    <2> QED BY <1>2, <2>3, <2>4, <2>5, <2>6
  <1>3. CASE s = r /\ LaunchEnds(r)
    <2> DEFINE e == [exec[r] EXCEPT !.start = "none"]
    <2>1. /\ e.phase = exec[r].phase /\ e.why = exec[r].why /\ e.start = "none"
          /\ e.pending = exec[r].pending /\ e.asked = exec[r].asked /\ e.saved = exec[r].saved
          /\ exec' = [exec EXCEPT ![r] = e] /\ exec[r].start # "pending" /\ UNCHANGED native
      BY <1>3, <1>t DEF LaunchEnds, SetExec, Entries
    <2> HIDE DEF e
    <2>2. launch'[r].step = "ended"
      <3> DEFINE l == [launch[r] EXCEPT !.step = "ended"]
                 b == launch[r].held /\ launch[r].cancelled
      <3>1. launch' = [launch EXCEPT ![r] = [l EXCEPT !.held = b]]
        BY <1>3, <1>t DEF LaunchEnds, Launches
      <3>2. l \in Launches /\ l.step = "ended"
        BY <1>t DEF Launches
      <3> HIDE DEF l, b
      <3>3. [l EXCEPT !.held = b].step = "ended"
        BY <3>2 DEF Launches
      <3> QED BY <1>t, <3>1, <3>3
    <2>3. exec'[r] = e
      BY <1>t, <2>1
    <2>4. EntryTells(e, launch'[r], native[r])
      BY <1>t, <2>1, <2>2 DEF EntryTells
    <2> QED BY <1>3, <2>1, <2>3, <2>4 DEF EntryKnown
  <1>4. CASE ~(LaunchBegins(r) \/ LaunchRefused(r) \/ LaunchEnds(r))
    <2>1. UNCHANGED <<launch, exec, native>>
      BY <1>4 DEF RunStep, CaptureEnds, AttemptEnds, RetryDelivery
    <2> QED BY <2>1, EntryFrame
  <1> QED BY <1>1, <1>2, <1>3, <1>4

\* The recovery begins with entries for Runs without a launch.
LEMMA RecoveryKeepsEntries ==
    ASSUME TypeOK, \A r \in Runs : StartKnown(r) /\ EntryKnown(r), RecoveryStep, NEW s \in Runs
    PROVE  EntryKnown(s)'
  <1> USE DEF tasks, files, executor, HeldStays
  <1>t. /\ \A x \in Runs : exec[x] \in Entries /\ EntryTells(exec[x], launch[x], native[x])
        /\ exec \in [Runs -> Entries] /\ recovering \in RecoveryTasks
    BY DEF TypeOK, EntryKnown
  <1>1. CASE RestoreBegins
    <2> DEFINE r == First(recovering.todo)
    <2>1. r \in Runs /\ r \in recovering.todo
      BY <1>1, <1>t, FirstIsMember DEF RestoreBegins, RecoveryTasks
    <2>2. UNCHANGED <<launch, native>> /\ (UNCHANGED exec \/ SetExec(r, Preparing(TRUE)))
      BY <1>1 DEF RestoreBegins
    <2>3. /\ Preparing(TRUE).phase = "preparing" /\ Preparing(TRUE).start = "pending"
          /\ Preparing(TRUE).pending = {} /\ Preparing(TRUE).asked = 0
          /\ Preparing(TRUE).saved = FALSE
      BY DEF Preparing, AbsentExec
    <2>4. launch[r].step = "none"
      BY <2>1 DEF StartKnown
    <2>5. EntryTells(Preparing(TRUE), launch[r], native[r])
      BY <1>t, <2>1, <2>3, <2>4 DEF EntryTells
    <2> HIDE DEF r
    <2>6. CASE UNCHANGED exec
      BY <2>2, <2>6, EntryFrame
    <2>7. CASE SetExec(r, Preparing(TRUE))
      <3>1. PICK e : e = Preparing(TRUE)
        OBVIOUS
      <3> QED BY <2>1, <2>2, <2>5, <2>7, <3>1, OneEntryOnly
    <2> QED BY <2>2, <2>6, <2>7
  <1>2. CASE RestoreEnds
    <2> DEFINE r == recovering.current
               e == [exec[r] EXCEPT !.start = "none"]
    <2>1. r \in Runs /\ UNCHANGED <<launch, native>> /\ SetExec(r, e) /\ exec[r].start # "pending"
      BY <1>2, <1>t DEF RestoreEnds, RecoveryTasks
    <2>2. /\ e.phase = exec[r].phase /\ e.why = exec[r].why /\ e.start = "none"
          /\ e.pending = exec[r].pending /\ e.asked = exec[r].asked /\ e.saved = exec[r].saved
      BY <1>t, <2>1 DEF Entries
    <2> HIDE DEF e
    <2>3. EntryTells(e, launch[r], native[r])
      BY <1>t, <2>1, <2>2 DEF EntryTells
    <2> HIDE DEF r
    <2> QED BY <2>1, <2>3, OneEntryOnly
  <1>3. CASE RestoreDeferred \/ RecoveryEnds \/ ReconcilePending
    BY <1>3, EntryFrame DEF RestoreDeferred, RecoveryEnds, ReconcilePending
  <1> QED BY <1>1, <1>2, <1>3 DEF RecoveryStep

\* Every step keeps what an entry and its launch know of each other.
LEMMA StepKeepsEntries ==
    ASSUME TypeOK, \A r \in Runs : StartKnown(r) /\ EntryKnown(r), [Next]_vars, NEW s \in Runs
    PROVE  EntryKnown(s)'
  <1> USE DEF files, executor, tasks, lifecycle, tables, HeldStays
  <1>1. CASE UNCHANGED vars
    BY <1>1, EntryFrame DEF vars
  <1>2. CASE \/ \E d \in Delegations, q \in Calls : Delegate(d, q)
             \/ \E d \in Delegations : AdmissionRefused(d)
             \/ RunNextEvent
    BY <1>2, EntryFrame DEF Delegate, AdmissionRefused, RunNextEvent
  <1>3. ASSUME NEW d \in Delegations, Admit(d) PROVE EntryKnown(s)'
    <2> DEFINE fresh == {r \in Runs : row[r].status = "absent"}
    <2>1. First(fresh) \in fresh /\ First(fresh) \in Runs
      BY <1>3, FirstIsMember DEF Admit
    <2>2. PICK n \in Runs :
            /\ row[n].status = "absent"
            /\ launch' = [launch EXCEPT
                ![n] = [step |-> "waiting", held |-> TRUE, cancelled |-> FALSE]]
      BY <1>3, <2>1 DEF Admit
    <2>3. UNCHANGED <<exec, native>> /\ launch \in [Runs -> Launches]
      BY <1>3 DEF Admit, TypeOK
    <2>4. CASE s = n
      <3>1. launch'[s].step = "waiting" /\ launch'[s].held
        BY <2>2, <2>3, <2>4
      <3> QED BY <2>3, <3>1 DEF EntryKnown, EntryTells
    <2>5. CASE s # n
      <3>1. launch'[s] = launch[s]
        BY <2>2, <2>3, <2>5
      <3> QED BY <2>3, <3>1, EntryFrame
    <2> QED BY <2>4, <2>5
  <1>4. CASE Restart
    <2>1. exec'[s] = AbsentExec /\ launch'[s] = IdleLaunch
      BY <1>4 DEF Restart
    <2> QED BY <2>1 DEF EntryKnown, EntryTells, AbsentExec, IdleLaunch
  <1> QED BY <1>1, <1>2, <1>3, <1>4, RunStepKeepsEntries, ExecutorKeepsEntries,
             ControlKeepsEntries, CloseKeepsEntries, DeleteKeepsEntries, RecoveryKeepsEntries
          DEF Next

--------------------
(* What close() preserves *)

\* A Run without a launch or a recovery to come keeps its suspended worker as it is.
LEMMA SuspendedStays ==
    ASSUME TypeOK, RowInvariant, \A r \in Runs : StartKnown(r), [Next]_vars, ~Restart,
           NEW s \in Runs, Suspended(s)
    PROVE  Suspended(s)'
  <1> USE DEF files, tasks, executor
  <1>t. /\ exec \in [Runs -> Entries] /\ record \in [Runs -> {"none", "held", "released"}]
    BY DEF TypeOK
  <1>g. /\ Gone(s)' /\ exec[s].phase = "absent" /\ s \notin recovering.todo
        /\ launch[s].step # "waiting" /\ row[s].status # "absent"
    BY StepKeepsWorkers DEF Keeps, Lasts, Suspended, Gone, Ended
  <1>d. Unfinished(s)' => s \in dirs'
    <2>1. Unfinished(s)' => Unfinished(s)
      BY <1>g, UnfinishedBefore
    <2> QED BY <2>1, DirectoryStays DEF Suspended
  <1>1. record'[s] = record[s] /\ exec'[s].start \in {exec[s].start, "none"}
    <2>1. CASE ~Touches
      <3>1. EntryStays(s)
        BY <2>1, OthersKeepWorkers DEF WorkerStays
      <3> QED BY <1>g, <3>1 DEF EntryStays, Active
    <2>2. CASE \E d \in Delegations : Admit(d)
      BY <2>2 DEF Admit
    <2>3. ASSUME NEW r \in Runs, LaunchBegins(r) \/ LaunchRefused(r)
          PROVE  record'[s] = record[s] /\ exec'[s] = exec[s]
      <3>1. s # r
        BY <1>g, <2>3 DEF LaunchBegins, LaunchRefused
      <3> QED BY <1>t, <2>3, <3>1 DEF LaunchBegins, LaunchRefused, SetExec
    <2>4. ASSUME NEW r \in Runs, Spawn(r) \/ PrepareFails(r) \/ ReleaseSucceeds(r)
          PROVE  record'[s] = record[s] /\ exec'[s] = exec[s]
      <3>1. s # r
        BY <1>g, <2>4 DEF Spawn, PrepareFails, ReleaseSucceeds
      <3> QED BY <1>t, <2>4, <3>1 DEF Spawn, PrepareFails, ReleaseSucceeds, SetExec
    <2>5. CASE RestoreBegins
      <3> DEFINE r == First(recovering.todo)
      <3>1. r \in recovering.todo
        BY <2>5, FirstIsMember DEF RestoreBegins, TypeOK, RecoveryTasks
      <3>2. s # r
        BY <1>g, <3>1
      <3>3. \/ UNCHANGED <<record, exec>>
            \/ record' = [record EXCEPT ![r] = "held"] /\ SetExec(r, Preparing(TRUE))
        BY <2>5 DEF RestoreBegins
      <3> HIDE DEF r
      <3> QED BY <1>t, <3>2, <3>3 DEF SetExec
    <2>6. CASE RestoreEnds
      <3> DEFINE r == recovering.current
                 e == [exec[r] EXCEPT !.start = "none"]
      <3>1. r \in Runs /\ SetExec(r, e)
        BY <2>6 DEF RestoreEnds, TypeOK, RecoveryTasks
      <3>2. e.start = "none"
        BY <1>t, <3>1 DEF Entries
      <3>3. \/ UNCHANGED record
            \/ exec[r].start # "ok" /\ record' = [record EXCEPT ![r] = "released"]
        BY <2>6 DEF RestoreEnds
      <3>4. exec[r].start \in {"ok", "failed", "unsupported"}
        BY <2>6 DEF RestoreEnds
      <3>5. s = r => exec[r].start = "ok"
        BY <3>4 DEF Suspended
      <3> HIDE DEF e, r
      <3> QED BY <1>t, <3>1, <3>2, <3>3, <3>5 DEF SetExec
    <2> QED BY <2>1, <2>2, <2>3, <2>4, <2>5, <2>6 DEF Touches
  <1> QED BY <1>1, <1>g, <1>d DEF Suspended

\* Who stops a worker that is being released joins the release.
LEMMA ReleaseIsJoined ==
    ASSUME TypeOK, NEW s \in Runs, Releasing(s), NEW r \in Runs, ReleaseObserved(r),
           NEW e \in {exec[r], Stopping(r)}, SetExec(r, e)
    PROVE  ReleaseStays(s)
  <1>t. exec \in [Runs -> Entries] /\ exec[s] \in Entries
    BY DEF TypeOK
  <1>1. CASE s # r
    BY <1>t, <1>1 DEF SetExec, ReleaseStays
  <1>2. CASE s = r
    <2>1. exec[r].phase = "releasing"
      BY <1>2 DEF Releasing, ReleaseObserved
    <2>2. Stopping(r) = exec[r]
      BY <2>1 DEF Stopping, StopJoins, StopRejects
    <2> QED BY <1>2, <1>t, <2>2 DEF SetExec, ReleaseStays
  <1> QED BY <1>1, <1>2

\* The result of a start is taken.
LEMMA StartIsTaken ==
    ASSUME TypeOK, NEW s \in Runs, NEW r \in Runs, SetExec(r, [exec[r] EXCEPT !.start = "none"])
    PROVE  ReleaseStays(s)
  <1>t. exec \in [Runs -> Entries] /\ exec[r] \in Entries
    BY DEF TypeOK
  <1> DEFINE e == [exec[r] EXCEPT !.start = "none"]
  <1>1. e.phase = exec[r].phase /\ e.why = exec[r].why /\ e.start = "none"
    BY <1>t DEF Entries
  <1>2. exec' = [exec EXCEPT ![r] = e]
    BY DEF SetExec
  <1> HIDE DEF e
  <1> QED BY <1>t, <1>1, <1>2 DEF ReleaseStays

\* A release goes on until it succeeds, fails or the process restarts.
LEMMA OnlyReleasesEnd ==
    ASSUME TypeOK, \A r \in Runs : StartKnown(r), [Next]_vars, ~Restart, NEW s \in Runs,
           Releasing(s), ~ReleaseSucceeds(s), ~ReleaseFails(s)
    PROVE  ReleaseStays(s)
  <1> USE DEF files, tasks, executor, invocations, lifecycle
  <1>t. exec \in [Runs -> Entries] /\ exec[s] \in Entries
    BY DEF TypeOK
  <1>u. UNCHANGED exec => ReleaseStays(s)
    BY DEF ReleaseStays
  <1>w. ASSUME NEW r \in Runs, NEW e, SetExec(r, e), r # s PROVE ReleaseStays(s)
    BY <1>t, <1>w DEF SetExec, ReleaseStays
  <1>p. exec[s].phase \in {"releasing", "unreleased"}
    BY DEF Releasing
  <1>1. CASE UNCHANGED vars
    BY <1>1, <1>u DEF vars
  <1>2. CASE \/ \E d \in Delegations, q \in Calls : Delegate(d, q)
             \/ \E d \in Delegations : Admit(d) \/ AdmissionRefused(d)
             \/ RunNextEvent
    BY <1>2, <1>u DEF Delegate, Admit, AdmissionRefused, RunNextEvent
  <1>3. ASSUME NEW r \in Runs, RunStep(r) PROVE ReleaseStays(s)
    <2>1. CASE LaunchEnds(r)
      BY <2>1, StartIsTaken DEF LaunchEnds
    <2>2. CASE LaunchBegins(r)
      <3>1. r # s
        BY <1>p, <2>2 DEF LaunchBegins, StartKnown
      <3>2. UNCHANGED exec \/ SetExec(r, Preparing(FALSE))
        BY <2>2 DEF LaunchBegins
      <3> QED BY <1>u, <1>t, <3>1, <3>2 DEF SetExec, ReleaseStays
    <2>3. CASE ~LaunchEnds(r) /\ ~LaunchBegins(r)
      BY <1>3, <1>u, <2>3 DEF RunStep, LaunchRefused, CaptureEnds, AttemptEnds, RetryDelivery
    <2> QED BY <2>1, <2>2, <2>3
  <1>4. ASSUME NEW r \in Runs, ExecutorStep(r) PROVE ReleaseStays(s)
    <2>1. CASE r # s
      BY <1>4, <1>t, <2>1 DEF ExecutorStep, Spawn, PrepareFails, Loads, Opened, StartFails,
         TurnEnds,
         TurnPaused, AsksPermission, ProcessExits, ReleaseSucceeds, ReleaseFails, SetExec,
         ReleaseStays
    <2>2. CASE r = s
      <3>1. \/ \E outcome \in Outcomes : TurnEnds(s, outcome)
            \/ ProcessExits(s)
        BY <1>4, <1>p, <2>2 DEF ExecutorStep, Spawn, PrepareFails, Loads, Opened, StartFails,
           TurnPaused, AsksPermission
      <3>2. ReleaseObserved(s)
        BY <3>1 DEF TurnEnds, ProcessExits
      <3>3. exec[s].phase = "releasing"
        BY <3>2 DEF Releasing, ReleaseObserved
      <3>4. UNCHANGED exec
        BY <3>1, <3>3 DEF TurnEnds, ProcessExits
      <3> QED BY <1>u, <3>4
    <2> QED BY <2>1, <2>2
  <1>5. ASSUME NEW c \in Controls, ControlStep(c) PROVE ReleaseStays(s)
    <2>1. ASSUME NEW r \in Runs, InterruptBegins(c, r) \/ ResumeBegins(c, r) \/ RespondBegins(c, r)
          PROVE  ReleaseStays(s)
      <3>1. r # s
        <4>1. PICK action \in {"interrupt", "resume", "respondPermission"} :
                   Controllable(c, r, action)
          BY <2>1 DEF InterruptBegins, ResumeBegins, RespondBegins
        <4>2. action \in RuntimeActions(r)
          BY <4>1 DEF Controllable, Actions
        <4> QED BY <1>p, <4>2 DEF RuntimeActions
      <3> QED BY <1>t, <2>1, <3>1 DEF InterruptBegins, ResumeBegins, RespondBegins, SetExec,
                 ReleaseStays
    <2>2. ASSUME NEW r \in Runs, CancelBegins(c, r) PROVE ReleaseStays(s)
      <3>1. ReleaseObserved(r)
        BY <2>2 DEF CancelBegins
      <3>2. PICK e \in {exec[r], Stopping(r)} : UNCHANGED exec \/ SetExec(r, e)
        BY <2>2 DEF CancelBegins
      <3> QED BY <1>u, <3>1, <3>2, ReleaseIsJoined
    <2>3. CASE InterruptRejected(c)
      <3> DEFINE r == ctl[c].run
      <3>1. r \in Runs /\ exec[r].phase = "interrupting"
        BY <2>3, ControlledRun DEF InterruptRejected
      <3>2. r # s
        BY <1>p, <3>1
      <3> QED BY <1>t, <2>3, <3>1, <3>2 DEF InterruptRejected, SetExec, ReleaseStays
    <2>4. CASE InterruptFails(c) \/ CancelReleased(c) \/ CancelJoined(c)
      BY <2>4, <1>u DEF InterruptFails, CancelReleased, CancelJoined
    <2> QED BY <1>5, <2>1, <2>2, <2>3, <2>4 DEF ControlStep
  <1>6. CASE CloseStep
    <2>1. CASE SuspendBegins
      <3> DEFINE r == First(closing.todo)
      <3>1. r \in Runs
        BY <2>1, FirstIsMember DEF SuspendBegins, TypeOK, ClosingTasks
      <3>2. ReleaseObserved(r)
        BY <2>1 DEF SuspendBegins
      <3>3. CASE Suspends(r)
        <4>1. exec[r].phase # "releasing"
          BY <3>3 DEF Suspends
        <4>2. r # s
          BY <3>2, <4>1 DEF ReleaseObserved, Releasing
        <4>3. SetExec(r, [exec[r] EXCEPT !.phase = "releasing", !.why = "suspend"])
          BY <2>1, <3>3 DEF SuspendBegins
        <4> HIDE DEF r
        <4> QED BY <1>t, <3>1, <4>2, <4>3 DEF SetExec, ReleaseStays
      <3>4. CASE ~Suspends(r)
        <4>1. SetExec(r, Stopping(r))
          BY <2>1, <3>4 DEF SuspendBegins
        <4> HIDE DEF r
        <4>2. PICK e : e = Stopping(r)
          OBVIOUS
        <4> QED BY <3>1, <3>2, <4>1, <4>2, ReleaseIsJoined
      <3> QED BY <3>3, <3>4
    <2>2. CASE ~SuspendBegins
      BY <1>6, <1>u, <2>2 DEF CloseStep, Close, CloseProbes, SuspendEnds, CloseDrains, CloseSettles
    <2> QED BY <2>1, <2>2
  <1>7. ASSUME NEW c \in Conversations, DeleteStep(c) PROVE ReleaseStays(s)
    <2>1. ASSUME NEW r \in Runs, DeleteStops(c, r) PROVE ReleaseStays(s)
      <3>1. ReleaseObserved(r)
        BY <2>1 DEF DeleteStops
      <3>2. PICK e \in {exec[r], Stopping(r)} : SetExec(r, e)
        BY <2>1 DEF DeleteStops
      <3> QED BY <3>1, <3>2, ReleaseIsJoined
    <2>2. CASE ~\E r \in Runs : DeleteStops(c, r)
      BY <1>7, <1>u, <2>2 DEF DeleteStep, DeleteBegins, DeleteCollects, DeleteCaptured,
         DeleteStopped,
             DeleteUndone, DeleteDrains, DeleteClears, DeleteEnds, DeleteFails
    <2> QED BY <2>1, <2>2
  <1>8. CASE RecoveryStep
    <2>1. CASE RestoreBegins
      <3> DEFINE r == First(recovering.todo)
      <3>1. r \in Runs /\ r \in recovering.todo
        BY <2>1, FirstIsMember DEF RestoreBegins, TypeOK, RecoveryTasks
      <3>2. r # s
        BY <1>p, <3>1 DEF StartKnown
      <3>3. UNCHANGED exec \/ SetExec(r, Preparing(TRUE))
        BY <2>1 DEF RestoreBegins
      <3> HIDE DEF r
      <3> QED BY <1>t, <1>u, <3>2, <3>3 DEF SetExec, ReleaseStays
    <2>2. CASE RestoreEnds
      <3>1. recovering.current \in Runs
        BY <2>2 DEF RestoreEnds, TypeOK, RecoveryTasks
      <3> QED BY <2>2, <3>1, StartIsTaken DEF RestoreEnds
    <2>3. CASE RestoreDeferred \/ RecoveryEnds \/ ReconcilePending
      BY <2>3, <1>u DEF RestoreDeferred, RecoveryEnds, ReconcilePending
    <2> QED BY <1>8, <2>1, <2>2, <2>3 DEF RecoveryStep
  <1> QED BY <1>1, <1>2, <1>3, <1>4, <1>5, <1>6, <1>7, <1>8 DEF Next

\* The release of the worker that close() waits for succeeds or fails, and nothing
\* else happens to it.
LEMMA SuspendingStays ==
    ASSUME TypeOK, RowInvariant, WorkerInvariant, \A r \in Runs : EntryKnown(r), [Next]_vars,
           ~Restart, NEW s \in Runs, closing.current = s,
           Suspending(s) \/ exec[s].phase = "unreleased"
    PROVE  Suspended(s)' \/ Suspending(s)' \/ exec'[s].phase = "unreleased"
  <1> USE DEF outsideExecutor
  <1>t. /\ exec \in [Runs -> Entries] /\ record \in [Runs -> {"none", "held", "released"}]
        /\ exec[s] \in Entries /\ \A r \in Runs : StartKnown(r) /\ DirectoryKnown(r)
        /\ EntryTells(exec[s], launch[s], native[s])
    BY DEF TypeOK, WorkerInvariant, EntryKnown
  <1>0. Releasing(s)
    BY DEF Releasing, Suspending, Awaited
  <1>1. CASE ReleaseSucceeds(s)
    <2>1. Suspending(s)
      BY <1>1 DEF ReleaseSucceeds
    <2>2. PICK start \in StartAfterRelease(s) \cup Unsupported(s) :
            SetExec(s, [AbsentExec EXCEPT !.start = start, !.restoring = exec[s].restoring])
      BY <1>1 DEF ReleaseSucceeds
    <2>3. start = exec[s].start
      BY <2>1, <2>2 DEF StartAfterRelease, Unsupported, Suspending
    <2>4. exec'[s].phase = "absent" /\ exec'[s].start \in {"ok", "none"}
      BY <1>t, <2>1, <2>2, <2>3 DEF SetExec, AbsentExec, Suspending
    <2>5. record'[s] = "released"
      BY <1>1, <1>t, <2>1 DEF ReleaseSucceeds, Suspending
    <2>6. Ended(s)'
      BY <1>t, <2>1, StepKeepsWorkers, EndedIfActive DEF Keeps, Lasts, Suspending, Active
    <2>7. Running(s) /\ row[s].status # "absent"
      BY <1>t, <2>1 DEF Suspending, EntryTells, Running, StartKnown
    <2>8. Unfinished(s)' => s \in dirs'
      <3>1. Unfinished(s)' => Unfinished(s)
        BY <2>7, UnfinishedBefore
      <3>2. Unfinished(s) => s \in dirs
        BY <1>t, <2>7 DEF DirectoryKnown
      <3> QED BY <3>1, <3>2, DirectoryStays
    <2> QED BY <2>4, <2>5, <2>6, <2>8 DEF Suspended, Gone
  <1>2. CASE ReleaseFails(s)
    <2>1. PICK start, turn :
            SetExec(s, [exec[s] EXCEPT !.phase = "unreleased", !.start = start, !.turn = turn,
                           !.why = IF @ = "startup" THEN @ ELSE None])
      BY <1>2 DEF ReleaseFails
    <2>2. exec'[s].phase = "unreleased"
      BY <1>t, <2>1 DEF SetExec, Entries
    <2> QED BY <2>2
  <1>3. CASE ~ReleaseSucceeds(s) /\ ~ReleaseFails(s)
    <2>1. ReleaseStays(s)
      BY <1>0, <1>3, <1>t, OnlyReleasesEnd
    <2> QED BY <2>1 DEF ReleaseStays, Suspending
  <1> QED BY <1>1, <1>2, <1>3

\* Only close() and a restart write the progress of close().
LEMMA ClosingWritten ==
    ASSUME [Next]_vars
    PROVE  Restart \/ CloseStep \/ UNCHANGED closing
  <1>1. CASE UNCHANGED vars
    BY <1>1 DEF vars
  <1>2. CASE \E d \in Delegations : \/ \E q \in Calls : Delegate(d, q)
                                    \/ Admit(d) \/ AdmissionRefused(d)
    BY <1>2 DEF Delegate, Admit, AdmissionRefused, AdmissionSettles, lifecycle
  <1>3. CASE \E x \in Runs : RunStep(x)
    BY <1>3, RunLeaves
  <1>4. CASE \E x \in Runs : ExecutorStep(x)
    BY <1>4, ExecutorLeaves
  <1>5. CASE RunNextEvent
    BY <1>5 DEF RunNextEvent, lifecycle
  <1>6. CASE \E c \in Controls : ControlStep(c)
    BY <1>6, ControlLeaves
  <1>7. CASE \E c \in Conversations : DeleteStep(c)
    BY <1>7, DeleteLeaves
  <1>8. CASE RecoveryStep
    BY <1>8, RecoveryLeaves
  <1> QED BY <1>1, <1>2, <1>3, <1>4, <1>5, <1>6, <1>7, <1>8 DEF Next

\* What close() preserved stays as close() found it, whatever else happens.
LEMMA PreservedStays ==
    ASSUME TypeOK, RowInvariant, WorkerInvariant, \A r \in Runs : EntryKnown(r), PreservedKnown,
           [Next]_vars
    PROVE  PreservedKnown'
  <1>t. /\ closing \in ClosingTasks /\ exec \in [Runs -> Entries]
        /\ \A r \in Runs : StartKnown(r) /\ exec[r] \in Entries
                           /\ EntryTells(exec[r], launch[r], native[r])
        /\ closing.preserved \subseteq Runs
    BY DEF TypeOK, WorkerInvariant, EntryKnown, ClosingTasks
  <1>1. CASE Restart
    BY <1>1, NoneIsNoRun DEF Restart, NotClosing, PreservedKnown
  <1>s. ASSUME ~Restart, NEW s \in Runs, Suspended(s) PROVE Suspended(s)'
    BY <1>s, <1>t, SuspendedStays
  <1>c. ASSUME ~Restart, NEW s \in Runs, closing.current = s, closing.keeps
        PROVE  Suspended(s)' \/ Suspending(s)' \/ exec'[s].phase = "unreleased"
    <2>1. CASE Suspended(s)
      BY <1>c, <1>s, <2>1
    <2>2. CASE Suspending(s) \/ exec[s].phase = "unreleased"
      BY <1>c, <2>2, SuspendingStays
    <2> QED BY <1>c, <2>1, <2>2 DEF PreservedKnown
  <1>2. ASSUME ~Restart, closing'.preserved \subseteq closing.preserved,
               \A r \in Runs : closing'.current = r /\ closing'.keeps
                                 => closing.current = r /\ closing.keeps
        PROVE  PreservedKnown'
    <2>1. \A r \in closing'.preserved : Suspended(r)'
      BY <1>2, <1>s, <1>t DEF PreservedKnown
    <2>2. \A r \in Runs : closing'.current = r /\ closing'.keeps =>
            Suspended(r)' \/ Suspending(r)' \/ exec'[r].phase = "unreleased"
      BY <1>2, <1>c
    <2> QED BY <2>1, <2>2 DEF PreservedKnown
  <1>3. CASE ~Restart /\ UNCHANGED closing
    BY <1>2, <1>3
  <1>4. CASE CloseStep /\ ~Restart
    <2>1. CASE Close
      BY <1>2, <1>4, <2>1, NoneIsNoRun DEF Close, NotClosing
    <2>2. CASE CloseProbes \/ CloseDrains \/ CloseSettles
      <3>1. /\ closing'.preserved = closing.preserved /\ closing'.current = closing.current
            /\ closing'.keeps = closing.keeps
        BY <1>t, <2>2 DEF CloseProbes, CloseDrains, CloseSettles, ClosingTasks
      <3> QED BY <1>2, <1>4, <3>1
    <2>3. CASE SuspendBegins
      <3>1. PICK r \in Runs : r = First(closing.todo)
        BY <1>t, <2>3, FirstIsMember DEF SuspendBegins, ClosingTasks
      <3>2. CASE StopRejects(r)
        <4>1. closing' = [closing EXCEPT !.failed = TRUE, !.preserved = {}, !.todo = {}]
          BY <2>3, <3>1, <3>2 DEF SuspendBegins
        <4>2. closing'.preserved = {} /\ closing'.current = None
          BY <1>t, <2>3, <4>1 DEF SuspendBegins, ClosingTasks
        <4> QED BY <1>2, <1>4, <4>2, NoneIsNoRun
      <3>3. CASE ~StopRejects(r)
        <4>1. closing' = [closing EXCEPT !.current = r, !.todo = @ \ {r}, !.keeps = Suspends(r)]
          BY <2>3, <3>1, <3>3 DEF SuspendBegins
        <4>2. /\ closing'.preserved = closing.preserved /\ closing'.current = r
              /\ closing'.keeps <=> Suspends(r)
          BY <1>t, <3>1, <4>1 DEF ClosingTasks
        <4>3. Suspends(r) => Suspending(r)'
          <5> SUFFICES ASSUME Suspends(r) PROVE Suspending(r)'
            OBVIOUS
          <5> DEFINE e == [exec[r] EXCEPT !.phase = "releasing", !.why = "suspend"]
          <5>1. SetExec(r, e)
            BY <2>3, <3>1 DEF SuspendBegins
          <5>2. e.phase = "releasing" /\ e.why = "suspend" /\ e.start = exec[r].start
            BY <1>t, <3>1 DEF Entries
          <5>3. exec[r].start \in {"ok", "none"}
            BY <1>t, <3>1 DEF Suspends, EntryTells
          <5> HIDE DEF e
          <5>4. exec'[r] = e
            BY <1>t, <3>1, <5>1 DEF SetExec
          <5> QED BY <5>2, <5>3, <5>4 DEF Suspending
        <4>4. \A s \in closing'.preserved : Suspended(s)'
          BY <1>4, <1>s, <1>t, <4>2 DEF PreservedKnown
        <4> QED BY <4>2, <4>3, <4>4 DEF PreservedKnown
      <3> QED BY <3>2, <3>3
    <2>4. CASE SuspendEnds
      <3>1. PICK r \in Runs : r = closing.current /\ exec[r].phase # "releasing"
        BY <1>t, <2>4 DEF SuspendEnds, ClosingTasks
      <3>2. CASE Active(r)
        <4>1. closing'.preserved = {} /\ closing'.current = None
          BY <1>t, <2>4, <3>1, <3>2 DEF SuspendEnds, ClosingTasks
        <4> QED BY <1>2, <1>4, <4>1, NoneIsNoRun
      <3>3. CASE ~Active(r)
        <4>1. /\ closing'.current = None
              /\ closing'.preserved = IF closing.keeps THEN closing.preserved \cup {r}
                                      ELSE closing.preserved
          BY <1>t, <2>4, <3>1, <3>3 DEF SuspendEnds, ClosingTasks
        <4>2. closing.keeps => Suspended(r)
          BY <3>1, <3>3 DEF PreservedKnown, Suspending, Active
        <4>3. \A s \in closing'.preserved : Suspended(s)'
          BY <1>4, <1>s, <1>t, <3>1, <4>1, <4>2 DEF PreservedKnown
        <4> QED BY <4>1, <4>3, NoneIsNoRun DEF PreservedKnown
      <3> QED BY <3>2, <3>3
    <2> QED BY <1>4, <2>1, <2>2, <2>3, <2>4 DEF CloseStep
  <1>5. Restart \/ CloseStep \/ UNCHANGED closing
    BY ClosingWritten
  <1> QED BY <1>1, <1>3, <1>4, <1>5

\* Before the first Run nothing is preserved and no entry is in use.
LEMMA InitEntries == Init => (\A r \in Runs : EntryKnown(r)) /\ PreservedKnown
  <1> SUFFICES ASSUME Init PROVE (\A r \in Runs : EntryKnown(r)) /\ PreservedKnown
    OBVIOUS
  <1>1. ASSUME NEW r \in Runs PROVE EntryKnown(r)
    <2>1. exec[r] = AbsentExec /\ launch[r] = IdleLaunch
      BY DEF Init
    <2> QED BY <2>1 DEF EntryKnown, EntryTells, AbsentExec, IdleLaunch
  <1>2. PreservedKnown
    BY NoneIsNoRun DEF Init, NotClosing, PreservedKnown
  <1> QED BY <1>1, <1>2

\* What the entries, the launches and a close() in progress know of each other
\* holds always.
THEOREM EntriesWellKept ==
    Spec => [](TypeOK /\ RowInvariant /\ WorkerInvariant /\ EntryInvariant)
  <1>1. Init => EntryInvariant
    BY InitEntries DEF EntryInvariant
  <1>2. TypeOK /\ RowInvariant /\ WorkerInvariant /\ EntryInvariant /\ [Next]_vars
          => EntryInvariant'
    <2> SUFFICES ASSUME TypeOK, RowInvariant, WorkerInvariant, EntryInvariant, [Next]_vars
                 PROVE  EntryInvariant'
      OBVIOUS
    <2>1. \A r \in Runs : StartKnown(r) /\ EntryKnown(r)
      BY DEF WorkerInvariant, EntryInvariant
    <2>2. \A r \in Runs : EntryKnown(r)'
      BY <2>1, StepKeepsEntries
    <2>3. PreservedKnown'
      BY <2>1, PreservedStays DEF EntryInvariant
    <2> QED BY <2>2, <2>3 DEF EntryInvariant
  <1> QED BY <1>1, <1>2, WorkersWellKept, PTL DEF Spec

\* A successful close() does not end the unfinished Runs it preserved: they are
\* paused, their workers released, and record and directory are there.
THEOREM PreservedReturn == Spec => PreservedComeBack
  <1> DEFINE Returns ==
        closing.step = "drain" /\ closing'.step = "closed" =>
          \A r \in closing.preserved \ closing.lost :
            Unfinished(r) => /\ row'[r].status = "interrupted" /\ ~row'[r].completed
                             /\ record[r] = "released" /\ r \in dirs' /\ ~Running(r)
  <1>1. TypeOK /\ RowInvariant /\ WorkerInvariant /\ EntryInvariant /\ [Next]_vars => Returns
    <2> SUFFICES ASSUME TypeOK, RowInvariant, WorkerInvariant, EntryInvariant, [Next]_vars,
                        closing.step = "drain", closing'.step = "closed",
                        NEW r \in closing.preserved \ closing.lost, Unfinished(r)
                 PROVE  /\ row'[r].status = "interrupted" /\ ~row'[r].completed
                        /\ record[r] = "released" /\ r \in dirs' /\ ~Running(r)
      OBVIOUS
    <2>t. row \in [Runs -> Rows] /\ r \in Runs /\ row[r] \in Rows /\ closing \in ClosingTasks
      BY DEF TypeOK, ClosingTasks
    <2>1. CloseSettles
      <3>1. closing' # closing
        OBVIOUS
      <3>2. CloseStep \/ Restart
        BY <3>1, ClosingWritten
      <3>3. ~Restart
        BY DEF Restart, NotClosing
      <3>4. ~Close /\ ~CloseProbes /\ ~SuspendBegins /\ ~SuspendEnds /\ ~CloseDrains
        BY <2>t DEF Close, CloseProbes, SuspendBegins, SuspendEnds, CloseDrains, NotClosing,
           ClosingTasks
      <3> QED BY <3>2, <3>3, <3>4 DEF CloseStep
    <2>2. ~closing.failed
      BY <2>1, <2>t DEF CloseSettles, ClosingTasks
    <2>3. r \notin Stoppable
      BY <2>2 DEF Stoppable
    <2>4. row'[r] = [row[r] EXCEPT !.status = "interrupted", !.permission = None]
      BY <2>1, <2>3, <2>t DEF CloseSettles
    <2>5. row'[r].status = "interrupted" /\ row'[r].completed = row[r].completed
      BY <2>4, <2>t DEF Rows
    <2>6. Suspended(r)
      BY DEF EntryInvariant, PreservedKnown
    <2>7. r \in UnfinishedRuns \ {x \in Stoppable : Unfinished(x)}
      BY <2>3, <2>t DEF UnfinishedRuns
    <2>8. r \in dirs'
      BY <2>1, <2>3, <2>6, <2>7 DEF CloseSettles, Suspended
    <2> QED BY <2>5, <2>6, <2>8 DEF Suspended, Gone, Ended, Unfinished
  <1>2. Spec => [][TypeOK /\ RowInvariant /\ WorkerInvariant /\ EntryInvariant /\ [Next]_vars]_vars
    BY EntriesWellKept, PTL DEF Spec
  <1> HIDE DEF Returns
  <1>3. Spec => [][Returns]_vars
    BY <1>1, <1>2, EntriesWellKept, PTL DEF Spec
  <1> QED BY <1>3 DEF PreservedComeBack, Returns

--------------------
(* What the queue does to a row *)

\* A closure takes a row to a row.
LEMMA AfterType ==
    ASSUME NEW e \in QueuedEvents, NEW x \in Rows
    PROVE  After(e, x) \in Rows
  <1>1. e.kind \in ExecutorEvents \cup ControlEvents /\ e.request \in Permissions \cup {None}
    BY DEF QueuedEvents
  <1>2. \/ After(e, x) = x
        \/ \E status \in Statuses : After(e, x) = [x EXCEPT !.status = status]
        \/ \E status \in Statuses, request \in Permissions \cup {None} :
             After(e, x) = [x EXCEPT !.status = status, !.permission = request]
        \/ \E status \in Statuses :
             After(e, x) = [x EXCEPT !.status = status, !.permission = None, !.completed = TRUE]
    <2> USE DEF Statuses, ResourceStatuses, TerminalStatuses
    <2>1. CASE x.completed
      BY <2>1 DEF After
    <2>2. CASE ~x.completed
      BY <1>1, <2>2 DEF After, ExecutorEvents, ControlEvents, Outcomes
    <2> QED BY <2>1, <2>2
  <1> QED BY <1>1, <1>2 DEF Rows

\* An empty queue leaves the row as it is.
LEMMA ReplayEmpty ==
    ASSUME NEW s, NEW x \in Rows
    PROVE  Replay(<<>>, s, x, x)
  <1> DEFINE f == [i \in 0..0 |-> x]
  <1>1. f \in [0..Len(<<>>) -> Rows] /\ f[0] = x /\ f[Len(<<>>)] = x
    OBVIOUS
  <1>2. \A i \in 1..Len(<<>>) : f[i] = Apply(<<>>[i], s, f[i - 1])
    OBVIOUS
  <1> HIDE DEF f
  <1> QED BY <1>1, <1>2 DEF Replay

\* A closure that is added acts on what the queue before it leaves.
LEMMA ReplayAppend ==
    ASSUME NEW es \in Seq(QueuedEvents), NEW e \in QueuedEvents, NEW s, NEW x \in Rows,
           NEW y \in Rows,
           Replay(es, s, x, y)
    PROVE  Replay(Append(es, e), s, x, Apply(e, s, y))
  <1> DEFINE n == Len(es)
             z == Apply(e, s, y)
  <1>0. n \in Nat /\ z \in Rows
    BY AfterType DEF Apply
  <1>1. PICK f \in [0..n -> Rows] :
          f[0] = x /\ f[n] = y /\ \A i \in 1..n : f[i] = Apply(es[i], s, f[i - 1])
    BY DEF Replay
  <1> DEFINE g == [i \in 0..(n + 1) |-> IF i = n + 1 THEN z ELSE f[i]]
             as == Append(es, e)
  <1>2. Len(as) = n + 1 /\ as[n + 1] = e /\ \A i \in 1..n : as[i] = es[i]
    OBVIOUS
  <1>3. g \in [0..(n + 1) -> Rows] /\ g[0] = x /\ g[n + 1] = z
    BY <1>0, <1>1
  <1>4. ASSUME NEW i \in 1..(n + 1) PROVE g[i] = Apply(as[i], s, g[i - 1])
    <2>1. CASE i = n + 1
      <3>1. g[i - 1] = y
        BY <1>0, <1>1, <2>1
      <3> QED BY <1>2, <1>3, <2>1, <3>1
    <2>2. CASE i # n + 1
      <3>1. i \in 1..n /\ g[i] = f[i] /\ g[i - 1] = f[i - 1]
        BY <1>0, <2>2
      <3> QED BY <1>1, <1>2, <3>1
    <2> QED BY <2>1, <2>2
  <1> HIDE DEF g, as, z
  <1>5. Replay(as, s, x, z)
    BY <1>2, <1>3, <1>4 DEF Replay
  <1> QED BY <1>5 DEF as, z

\* A closure that has run has done its part.
LEMMA ReplayTail ==
    ASSUME NEW es \in Seq(QueuedEvents), es # <<>>, NEW s, NEW x \in Rows, NEW y \in Rows,
           Replay(es, s, x, y)
    PROVE  Replay(Tail(es), s, Apply(Head(es), s, x), y)
  <1> DEFINE n == Len(es)
             ts == Tail(es)
  <1>0. n \in Nat /\ n >= 1 /\ Head(es) = es[1]
    OBVIOUS
  <1>1. PICK f \in [0..n -> Rows] :
          f[0] = x /\ f[n] = y /\ \A i \in 1..n : f[i] = Apply(es[i], s, f[i - 1])
    BY DEF Replay
  <1> DEFINE g == [i \in 0..(n - 1) |-> f[i + 1]]
  <1>2. Len(ts) = n - 1 /\ \A i \in 1..(n - 1) : ts[i] = es[i + 1]
    BY <1>0
  <1>3. g \in [0..(n - 1) -> Rows] /\ g[0] = f[1] /\ g[n - 1] = y
    BY <1>0, <1>1
  <1>4. f[1] = Apply(Head(es), s, x)
    BY <1>0, <1>1
  <1>5. ASSUME NEW i \in 1..(n - 1) PROVE g[i] = Apply(ts[i], s, g[i - 1])
    <2>1. g[i] = f[i + 1] /\ g[i - 1] = f[i] /\ i + 1 \in 1..n /\ (i + 1) - 1 = i
      BY <1>0
    <2>2. f[i + 1] = Apply(es[i + 1], s, f[(i + 1) - 1])
      BY <1>1, <2>1
    <2> QED BY <1>2, <2>1, <2>2
  <1> HIDE DEF g, ts
  <1>6. Replay(ts, s, f[1], y)
    BY <1>2, <1>3, <1>5 DEF Replay
  <1> QED BY <1>4, <1>6 DEF ts

\* A queue without a closure of s leaves its row as it is.
LEMMA ReplayNone ==
    ASSUME NEW es \in Seq(QueuedEvents), NEW s, NEW x \in Rows, NEW y \in Rows, Replay(es, s, x, y),
           \A i \in 1..Len(es) : es[i].run # s
    PROVE  y = x
  <1> DEFINE n == Len(es)
  <1>0. n \in Nat
    OBVIOUS
  <1>1. PICK f \in [0..n -> Rows] :
          f[0] = x /\ f[n] = y /\ \A i \in 1..n : f[i] = Apply(es[i], s, f[i - 1])
    BY DEF Replay
  <1>2. SUFFICES ASSUME y # x PROVE FALSE
    OBVIOUS
  <1> DEFINE S == {i \in 0..n : f[i] # x}
  <1>3. S \in SUBSET Nat /\ S # {}
    BY <1>0, <1>1, <1>2
  <1>4. PICK m \in S : \A i \in S : m <= i
    BY <1>3, LeastNatural
  <1>5. m \in 1..n /\ m - 1 \in 0..n /\ m - 1 \notin S
    BY <1>0, <1>1, <1>4
  <1>6. f[m] = f[m - 1]
    BY <1>1, <1>5 DEF Apply
  <1> QED BY <1>4, <1>5, <1>6

--------------------
(* The closures of the controls *)

\* A step that adds no closure of a control and takes no control from its wait.
LEMMA ClosuresStay ==
    ASSUME TypeOK, ClosuresOwned,
           \/ UNCHANGED events
           \/ \E e \in QueuedEvents : e.kind \in ExecutorEvents /\ events' = Append(events, e),
           \A c \in Controls : ctl[c].step = "apply" => ctl'[c].step = "apply"
    PROVE  ClosuresOwned'
  <1>t. events \in Seq(QueuedEvents) /\ Len(events) \in Nat
    BY DEF TypeOK
  <1>1. CASE UNCHANGED events
    BY <1>1 DEF ClosuresOwned
  <1>2. ASSUME NEW e \in QueuedEvents, e.kind \in ExecutorEvents, events' = Append(events, e)
        PROVE  ClosuresOwned'
    <2>1. /\ Len(events') = Len(events) + 1 /\ events'[Len(events) + 1] = e
          /\ \A i \in 1..Len(events) : events'[i] = events[i]
      BY <1>t, <1>2
    <2>2. e.kind \notin ControlEvents
      BY <1>2 DEF ExecutorEvents, ControlEvents, Outcomes
    <2>3. \A i \in 1..Len(events') :
            events'[i].kind \in ControlEvents => i \in 1..Len(events) /\ events'[i] = events[i]
      BY <1>t, <2>1, <2>2
    <2> QED BY <2>3 DEF ClosuresOwned
  <1> QED BY <1>1, <1>2

\* The executor's closures are no closures of controls.
LEMMA EmittedStays ==
    ASSUME TypeOK, ClosuresOwned, NEW kind \in ExecutorEvents, NEW r \in Runs,
           NEW request \in Permissions \cup {None},
           events' = Emitted(kind, r, request),
           \A c \in Controls : ctl[c].step = "apply" => ctl'[c].step = "apply"
    PROVE  ClosuresOwned'
  <1> DEFINE e == Event(kind, r, request, None)
  <1>1. e \in QueuedEvents /\ e.kind \in ExecutorEvents
    BY DEF Event, QueuedEvents
  <1>2. UNCHANGED events \/ events' = Append(events, e)
    BY DEF Emitted
  <1> HIDE DEF e
  <1> QED BY <1>1, <1>2, ClosuresStay

\* A control adds its closure and waits for it.
LEMMA ClosureAdded ==
    ASSUME TypeOK, ClosuresOwned, NEW c \in Controls, NEW kind, NEW r, NEW request,
           events' = Append(events, Event(kind, r, request, c)),
           ctl[c].step # "apply", ctl'[c].step = "apply",
           \A k \in Controls : ctl[k].step = "apply" => ctl'[k].step = "apply"
    PROVE  ClosuresOwned'
  <1>t. events \in Seq(QueuedEvents) /\ Len(events) \in Nat
    BY DEF TypeOK
  <1>0. PICK e : e = Event(kind, r, request, c)
    OBVIOUS
  <1>1. /\ Len(events') = Len(events) + 1 /\ events'[Len(events) + 1] = e /\ e.by = c
        /\ \A i \in 1..Len(events) : events'[i] = events[i]
    BY <1>t, <1>0 DEF Event
  <1>2. \A i \in 1..Len(events) : events[i].kind \in ControlEvents => events[i].by # c
    BY DEF ClosuresOwned
  <1>3. \A i \in 1..Len(events') :
          i = Len(events) + 1 \/ (i \in 1..Len(events) /\ events'[i] = events[i])
    BY <1>t, <1>1
  <1>4. ASSUME NEW i \in 1..Len(events'), events'[i].kind \in ControlEvents
        PROVE  events'[i].by \in Controls /\ ctl'[events'[i].by].step = "apply"
    BY <1>1, <1>3, <1>4 DEF ClosuresOwned
  <1>5. ASSUME NEW i \in 1..Len(events'), NEW j \in 1..Len(events'), i # j,
               events'[i].kind \in ControlEvents, events'[j].kind \in ControlEvents
        PROVE  events'[i].by # events'[j].by
    <2>1. CASE i = Len(events) + 1
      BY <1>1, <1>2, <1>3, <1>5, <2>1
    <2>2. CASE j = Len(events) + 1
      BY <1>1, <1>2, <1>3, <1>5, <2>2
    <2>3. CASE i # Len(events) + 1 /\ j # Len(events) + 1
      BY <1>3, <1>5, <2>3 DEF ClosuresOwned
    <2> QED BY <2>1, <2>2, <2>3
  <1> QED BY <1>4, <1>5 DEF ClosuresOwned

\* The first closure runs; if it belongs to a control, that one is done.
LEMMA ClosureRuns ==
    ASSUME TypeOK, ClosuresOwned, RunNextEvent
    PROVE  /\ ClosuresOwned'
           /\ \A c \in Controls : ctl[c].step # "apply" => ctl'[c] = ctl[c]
  <1>t. events \in Seq(QueuedEvents) /\ events # <<>> /\ ctl \in [Controls -> ControlTasks]
    BY DEF TypeOK, RunNextEvent
  <1>0. /\ Len(events) \in Nat /\ Len(events) >= 1 /\ Len(events') = Len(events) - 1
        /\ \A i \in 1..Len(events') : events'[i] = events[i + 1] /\ i + 1 \in 1..Len(events)
        /\ NextEvent = events[1] /\ 1 \in 1..Len(events)
    BY <1>t DEF RunNextEvent, NextEvent
  <1>1. NextEvent.kind \in ExecutorEvents \cup ControlEvents
    <2>1. NextEvent \in QueuedEvents
      BY <1>t, <1>0
    <2> QED BY <2>1 DEF QueuedEvents
  <1>p. \A i, j \in 1..Len(events') : i # j => i + 1 # j + 1
    BY <1>0
  <1>2. CASE NextEvent.kind \in ExecutorEvents
    <2>1. UNCHANGED ctl
      BY <1>2 DEF RunNextEvent
    <2>2. \A i \in 1..Len(events') : events'[i].kind \in ControlEvents =>
            events'[i].by \in Controls /\ ctl'[events'[i].by].step = "apply"
      BY <1>0, <2>1 DEF ClosuresOwned
    <2>3. \A i, j \in 1..Len(events') :
            events'[i].kind \in ControlEvents /\ events'[j].kind \in ControlEvents /\ i # j
              => events'[i].by # events'[j].by
      BY <1>0, <1>p DEF ClosuresOwned
    <2> QED BY <2>1, <2>2, <2>3 DEF ClosuresOwned
  <1>3. CASE NextEvent.kind \notin ExecutorEvents
    <2>1. ctl' = [ctl EXCEPT ![NextEvent.by] = IdleControl]
      BY <1>3 DEF RunNextEvent
    <2>2. NextEvent.by \in Controls /\ ctl[NextEvent.by].step = "apply"
      BY <1>0, <1>1, <1>3 DEF ClosuresOwned
    <2>3. \A i \in 1..Len(events') : events'[i].kind \in ControlEvents =>
            /\ events'[i].by \in Controls /\ events'[i].by # NextEvent.by
            /\ ctl[events'[i].by].step = "apply"
      <3> SUFFICES ASSUME NEW i \in 1..Len(events'), events'[i].kind \in ControlEvents
                   PROVE  /\ events'[i].by \in Controls /\ events'[i].by # NextEvent.by
                          /\ ctl[events'[i].by].step = "apply"
        OBVIOUS
      <3>1. i + 1 \in 1..Len(events) /\ i + 1 # 1 /\ events'[i] = events[i + 1]
        BY <1>0
      <3> QED BY <1>0, <1>1, <1>3, <3>1 DEF ClosuresOwned
    <2>5. \A c \in Controls : c # NextEvent.by => ctl'[c] = ctl[c]
      BY <1>t, <2>1
    <2>6. \A i, j \in 1..Len(events') :
            events'[i].kind \in ControlEvents /\ events'[j].kind \in ControlEvents /\ i # j
              => events'[i].by # events'[j].by
      BY <1>0, <1>p DEF ClosuresOwned
    <2>7. \A i \in 1..Len(events') : events'[i].kind \in ControlEvents =>
            events'[i].by \in Controls /\ ctl'[events'[i].by].step = "apply"
      BY <2>3, <2>5
    <2> QED BY <2>2, <2>5, <2>6, <2>7 DEF ClosuresOwned
  <1> QED BY <1>2, <1>3

\* Every step keeps the closures with the controls that wait for them.
LEMMA StepOwnsClosures ==
    ASSUME TypeOK, ClosuresOwned, [Next]_vars
    PROVE  ClosuresOwned'
  <1> USE DEF files, tasks, executor, invocations, lifecycle, outsideExecutor
  <1>t. ctl \in [Controls -> ControlTasks] /\ row \in [Runs -> Rows] /\ exec \in [Runs -> Entries]
    BY DEF TypeOK
  <1>0. (UNCHANGED <<events, ctl>>) => ClosuresOwned'
    BY DEF ClosuresOwned
  <1>1. CASE UNCHANGED vars
    BY <1>0, <1>1 DEF vars
  <1>2. CASE \E d \in Delegations : \/ \E q \in Calls : Delegate(d, q)
                                    \/ Admit(d) \/ AdmissionRefused(d)
    BY <1>0, <1>2 DEF Delegate, Admit, AdmissionRefused, AdmissionSettles
  <1>3. CASE \E x \in Runs : RunStep(x)
    BY <1>0, <1>3, RunLeaves
  <1>4. ASSUME NEW r \in Runs, ExecutorStep(r) PROVE ClosuresOwned'
    <2>1. CASE TurnPaused(r)
      <3>1. PICK c \in Controls :
              /\ ctl[c].step = "turn" /\ ctl' = [ctl EXCEPT ![c].step = "apply"]
              /\ events' = Append(events, Event("interrupt", r, None, c))
        BY <2>1 DEF TurnPaused
      <3>2. ctl'[c].step = "apply" /\ \A k \in Controls : k # c => ctl'[k] = ctl[k]
        BY <1>t, <3>1 DEF ControlTasks
      <3> QED BY <3>1, <3>2, ClosureAdded
    <2>2. CASE Opened(r) \/ AsksPermission(r) \/ ReleaseSucceeds(r) \/ ReleaseFails(r)
      <3>1. UNCHANGED ctl
        BY <2>2 DEF Opened, AsksPermission, ReleaseSucceeds, ReleaseFails
      <3>2. \/ UNCHANGED events
            \/ \E kind \in ExecutorEvents, request \in Permissions \cup {None} :
                 events' = Emitted(kind, r, request)
        <4>1. CASE Opened(r) \/ ReleaseSucceeds(r) \/ ReleaseFails(r)
          BY <4>1 DEF Opened, ReleaseSucceeds, ReleaseFails, ExecutorEvents, Outcomes
        <4>2. CASE AsksPermission(r)
          <5>1. exec[r].asked + 1 \in Permissions
            BY <1>t, <4>2, RunStateAssumption DEF AsksPermission, Entries, Permissions
          <5> QED BY <4>2, <5>1 DEF AsksPermission, ExecutorEvents
        <4> QED BY <2>2, <4>1, <4>2
      <3> QED BY <3>1, <3>2, <1>0, EmittedStays
    <2>3. CASE ~TurnPaused(r) /\ ~Opened(r) /\ ~AsksPermission(r) /\ ~ReleaseSucceeds(r)
               /\ ~ReleaseFails(r)
      BY <1>0, <1>4, <2>3 DEF ExecutorStep, Spawn, PrepareFails, Loads, StartFails, TurnEnds,
         ProcessExits
    <2> QED BY <2>1, <2>2, <2>3
  <1>5. CASE RunNextEvent
    BY <1>5, ClosureRuns
  <1>6. ASSUME NEW c \in Controls, ControlStep(c) PROVE ClosuresOwned'
    <2>s. ASSUME NEW step, NEW r, Step(c, step, r)
          PROVE  ctl'[c].step = step /\ \A k \in Controls : k # c => ctl'[k] = ctl[k]
      BY <1>t, <2>s DEF Step
    <2>1. ASSUME NEW r \in Runs, ResumeBegins(c, r) PROVE ClosuresOwned'
      <3>1. /\ ctl[c].step # "apply" /\ Step(c, "apply", r)
            /\ events' = Append(events, Event("resume", r, None, c))
        BY <2>1 DEF ResumeBegins, Controllable
      <3> QED BY <2>s, <3>1, ClosureAdded
    <2>2. ASSUME NEW r \in Runs, RespondBegins(c, r) PROVE ClosuresOwned'
      <3>1. /\ ctl[c].step # "apply" /\ Step(c, "apply", r)
            /\ events' = Append(events, Event("respond", r, row[r].permission, c))
        BY <2>2 DEF RespondBegins, Controllable
      <3> QED BY <2>s, <3>1, ClosureAdded
    <2>3. CASE CancelJoined(c)
      <3>1. PICK r : r = ctl[c].run
        OBVIOUS
      <3>2. /\ ctl[c].step # "apply" /\ Step(c, "apply", r)
            /\ events' = Append(events, Event("cancel", r, None, c))
        BY <2>3, <3>1 DEF CancelJoined
      <3> QED BY <2>s, <3>2, ClosureAdded
    <2>4. CASE CancelReleased(c)
      <3>1. PICK r \in Runs : r = ctl[c].run
        BY <2>4, ControlledRun DEF CancelReleased
      <3>2. \A k \in Controls : ctl[k].step = "apply" => ctl'[k].step = "apply"
        BY <2>4, <2>s DEF CancelReleased
      <3>3. UNCHANGED events \/ events' = Emitted("cancelled", r, None)
        BY <2>4, <3>1 DEF CancelReleased
      <3>4. "cancelled" \in ExecutorEvents
        BY DEF ExecutorEvents, Outcomes
      <3> QED BY <3>2, <3>3, <3>4, ClosuresStay, EmittedStays
    <2>5. CASE \/ \E r \in Runs : InterruptBegins(c, r) \/ CancelBegins(c, r)
               \/ InterruptFails(c) \/ InterruptRejected(c)
      <3>1. UNCHANGED events
        BY <2>5 DEF InterruptBegins, CancelBegins, InterruptFails, InterruptRejected
      <3>2. ctl[c].step # "apply"
        BY <2>5 DEF InterruptBegins, CancelBegins, InterruptFails, InterruptRejected, Controllable
      <3>3. UNCHANGED ctl \/ \E step, r : Step(c, step, r)
        BY <2>5 DEF InterruptBegins, CancelBegins, InterruptFails, InterruptRejected
      <3> QED BY <2>s, <3>1, <3>2, <3>3, ClosuresStay
    <2> QED BY <1>6, <2>1, <2>2, <2>3, <2>4, <2>5 DEF ControlStep
  <1>7. CASE CloseStep
    BY <1>0, <1>7, CloseLeaves
  <1>8. CASE \E c \in Conversations : DeleteStep(c)
    BY <1>0, <1>8, DeleteLeaves
  <1>9. CASE RecoveryStep
    BY <1>0, <1>9, RecoveryLeaves
  <1>10. CASE Restart
    BY <1>10 DEF Restart, ClosuresOwned
  <1> QED BY <1>1, <1>2, <1>3, <1>4, <1>5, <1>6, <1>7, <1>8, <1>9, <1>10 DEF Next

--------------------
(* Steps that do not concern a Run *)

\* A close() that runs has closed the service to new work.
LEMMA CloseMeansClosed ==
    ASSUME LifecycleKnown, CloseStep
    PROVE  closed'
  BY DEF LifecycleKnown, CloseStep, Close, CloseProbes, SuspendBegins, SuspendEnds, CloseDrains,
         CloseSettles

\* The service starts open, with an empty queue.
LEMMA InitLifecycle == Init => LifecycleKnown /\ ClosuresOwned
  <1> SUFFICES ASSUME Init PROVE LifecycleKnown /\ ClosuresOwned
    OBVIOUS
  <1>1. LifecycleKnown
    BY NoneIsNoRun DEF Init, LifecycleKnown, NotClosing, Recovered
  <1>2. ClosuresOwned
    BY DEF Init, ClosuresOwned
  <1> QED BY <1>1, <1>2

\* A conversation whose deletion is under way may be deleted.
LEMMA DeletesDeletable ==
    ASSUME TypeOK, RowInvariant, LifecycleKnown, NEW c \in Conversations, DeleteStep(c)
    PROVE  c \in Deletable
  <1>1. CASE DeleteBegins(c)
    BY <1>1 DEF DeleteBegins
  <1>2. CASE ~DeleteBegins(c)
    <2>1. deletion[c].step \in {"captures", "rows", "undo", "drain", "remove"}
      BY <1>2 DEF DeleteStep, DeleteCollects, DeleteCaptured, DeleteStops, Deleting, DeleteStopped,
                  DeleteUndone, DeleteDrains, DeleteClears, DeleteEnds, DeleteFails
    <2> QED BY <2>1 DEF RowInvariant, DeletionKnows, LifecycleKnown
  <1> QED BY <1>1, <1>2

\* Every step keeps them.
LEMMA StepKeepsLifecycle ==
    ASSUME TypeOK, RowInvariant, \A r \in Runs : StartKnown(r), LifecycleKnown, [Next]_vars
    PROVE  LifecycleKnown'
  <1> USE DEF files, tasks, executor, invocations, lifecycle, outsideExecutor
  <1>t. /\ recovering \in RecoveryTasks /\ launch \in [Runs -> Launches] /\ None \notin Runs
        /\ row \in [Runs -> Rows] /\ deletion \in [Conversations -> DeletionTasks]
    BY NoneIsNoRun DEF TypeOK
  <1>0. ASSUME UNCHANGED <<closed, deleting, closing, recovering>>,
               \A r \in Runs : launch[r].step = "none" => launch'[r].step = "none"
        PROVE  LifecycleKnown'
    BY <1>0 DEF LifecycleKnown
  <1>1. CASE UNCHANGED vars
    BY <1>0, <1>1 DEF vars
  <1>2. CASE \E d \in Delegations : \/ \E q \in Calls : Delegate(d, q)
                                    \/ AdmissionRefused(d)
    BY <1>0, <1>2 DEF Delegate, AdmissionRefused, AdmissionSettles
  <1>3. ASSUME NEW d \in Delegations, Admit(d) PROVE LifecycleKnown'
    <2> DEFINE fresh == {r \in Runs : row[r].status = "absent"}
               n == First(fresh)
    <2>1. fresh # {} /\ launch' = [launch EXCEPT ![n] =
                        [step |-> "waiting", held |-> TRUE, cancelled |-> FALSE]]
          /\ UNCHANGED <<closed, deleting, closing, recovering>>
      BY <1>3 DEF Admit, AdmissionSettles
    <2>2. n \in Runs /\ row[n].status = "absent"
      BY <2>1, FirstIsMember
    <2> HIDE DEF n, fresh
    <2>3. \A r \in Runs : recovering.current = r => r # n
      BY <2>2, <1>t DEF RowInvariant, RecoveryKnows
    <2> QED BY <1>t, <2>1, <2>3 DEF LifecycleKnown
  <1>4. ASSUME NEW x \in Runs, RunStep(x) PROVE LifecycleKnown'
    <2>1. UNCHANGED <<closed, deleting, closing, recovering>>
      BY <1>4, RunLeaves
    <2>2. \A r \in Runs : launch[r].step = "none" => launch'[r] = launch[r]
      BY <1>4, <1>t DEF RunStep, LaunchBegins, LaunchRefused, LaunchEnds, CaptureEnds, AttemptEnds,
                RetryDelivery
    <2> QED BY <1>0, <2>1, <2>2
  <1>5. CASE \E x \in Runs : ExecutorStep(x)
    BY <1>0, <1>5, ExecutorLeaves
  <1>6. CASE RunNextEvent
    BY <1>0, <1>6 DEF RunNextEvent
  <1>7. ASSUME NEW c \in Controls, ControlStep(c) PROVE LifecycleKnown'
    <2>1. UNCHANGED <<closed, deleting, closing, recovering>>
      BY <1>7, ControlLeaves
    <2>2. \A s \in Runs : WorkerStays(s)
      BY <1>7, ControlKeepsWorkers
    <2> QED BY <1>0, <2>1, <2>2 DEF WorkerStays, LaunchStays
  <1>8. CASE CloseStep
    <2>1. closed' /\ UNCHANGED <<deleting, recovering>>
      BY <1>8, CloseMeansClosed, CloseLeaves
    <2>2. \A s \in Runs : WorkerStays(s)
      BY <1>8, CloseKeepsWorkers
    <2> QED BY <2>1, <2>2 DEF LifecycleKnown, WorkerStays, LaunchStays
  <1>9. ASSUME NEW c \in Conversations, DeleteStep(c) PROVE LifecycleKnown'
    <2>1. UNCHANGED <<closed, closing, recovering>>
      BY <1>9, DeleteLeaves
    <2>2. \A s \in Runs : WorkerStays(s)
      BY <1>9, DeleteKeepsWorkers
    <2>3. deleting' \subseteq deleting \cup {c}
      BY <1>9 DEF DeleteStep, DeleteBegins, DeleteCollects, DeleteCaptured, DeleteStops,
         DeleteThrows,
         DeleteStopped, DeleteUndone, DeleteDrains, DeleteClears, DeleteEnds, DeleteFails,
         deletionOthers
    <2>4. c \in Deletable
      BY <1>9, DeletesDeletable
    <2> QED BY <2>1, <2>2, <2>3, <2>4 DEF LifecycleKnown, WorkerStays, LaunchStays
  <1>10. CASE RecoveryStep
    <2>1. UNCHANGED <<closed, deleting, closing, launch>>
      BY <1>10, RecoveryLeaves
    <2>2. ASSUME NEW r \in Runs, recovering'.current = r PROVE launch[r].step = "none"
      <3>1. CASE RestoreBegins
        <4>1. PICK x \in Runs : x = First(recovering.todo) /\ x \in recovering.todo
          BY <1>t, <3>1, FirstIsMember DEF RestoreBegins, RecoveryTasks
        <4>2. r = x \/ recovering'.current = recovering.current
          BY <1>t, <2>2, <3>1, <4>1 DEF RestoreBegins, RecoveryTasks
        <4> QED BY <2>2, <4>1, <4>2 DEF StartKnown, LifecycleKnown
      <3>2. CASE RestoreDeferred \/ RestoreEnds \/ RecoveryEnds \/ ReconcilePending
        <4>1. recovering'.current \in {None, recovering.current}
          BY <1>t, <3>2 DEF RestoreDeferred, RestoreEnds, RecoveryEnds, ReconcilePending, Recovered,
             RecoveryTasks
        <4> QED BY <1>t, <2>2, <4>1 DEF LifecycleKnown
      <3> QED BY <1>10, <3>1, <3>2 DEF RecoveryStep
    <2>3. recovering'.current \notin recovering'.todo
      <3>0. None \notin recovering.todo /\ recovering.current \notin recovering.todo
        BY <1>t DEF RecoveryTasks, LifecycleKnown
      <3>1. CASE RestoreBegins
        <4>1. PICK r : \/ recovering' = [recovering EXCEPT !.todo = @ \ {r}, !.current = r]
                       \/ recovering' = [recovering EXCEPT !.todo = @ \ {r}]
          BY <3>1 DEF RestoreBegins
        <4>2. /\ recovering'.current \in {r, recovering.current}
              /\ recovering'.todo = recovering.todo \ {r}
          BY <1>t, <4>1 DEF RecoveryTasks
        <4> QED BY <3>0, <4>2
      <3>2. CASE RestoreDeferred \/ RestoreEnds \/ RecoveryEnds \/ ReconcilePending
        BY <1>t, <3>0, <3>2 DEF RestoreDeferred, RestoreEnds, RecoveryEnds, ReconcilePending,
           Recovered, RecoveryTasks
      <3> QED BY <1>10, <3>1, <3>2 DEF RecoveryStep
    <2> QED BY <2>1, <2>2, <2>3 DEF LifecycleKnown
  <1>11. CASE Restart
    BY <1>11, <1>t DEF Restart, NotClosing, LifecycleKnown, UnfinishedRuns
  <1> QED BY <1>1, <1>2, <1>3, <1>4, <1>5, <1>6, <1>7, <1>8, <1>9, <1>10, <1>11 DEF Next

--------------------
(* Which steps leave a Run alone *)

\* A step of the executor for another Run.
LEMMA ExecutorOfOther ==
    ASSUME TypeOK, NEW r \in Runs, ExecutorStep(r), NEW s \in Runs, s # r
    PROVE  Undisturbed(s)
  <1> USE DEF outsideExecutor, tables
  <1>t. /\ exec \in [Runs -> Entries] /\ ctl \in [Controls -> ControlTasks]
        /\ exec[r] \in Entries
    BY DEF TypeOK
  <1>1. UNCHANGED <<row, launch, capture>>
    BY ExecutorLeaves
  <1>2. exec'[s] = exec[s]
    BY <1>t DEF ExecutorStep, Spawn, PrepareFails, Loads, Opened, StartFails, TurnEnds, SetExec,
       TurnPaused, AsksPermission, ProcessExits, ReleaseSucceeds, ReleaseFails
  <1>3. \A c \in Controls : ctl[c].run = s /\ ctl[c].step \in {"stop", "join"} => ctl'[c] = ctl[c]
    <2>1. CASE TurnPaused(r)
      BY <1>t, <2>1 DEF TurnPaused
    <2>2. CASE ~TurnPaused(r)
      <3>1. UNCHANGED ctl
        BY <2>2 DEF ExecutorStep, Spawn, PrepareFails, Loads, Opened, StartFails, TurnEnds,
           AsksPermission, ProcessExits, ReleaseSucceeds, ReleaseFails
      <3> QED BY <3>1
    <2> QED BY <2>1, <2>2
  <1>e. ASSUME NEW kind \in ExecutorEvents, NEW request \in Permissions \cup {None},
               events' = Emitted(kind, r, request)
        PROVE  QueueOfOthers(s)
    <2> DEFINE e == Event(kind, r, request, None)
    <2>1. e \in QueuedEvents /\ e.run = r
      BY DEF Event, QueuedEvents
    <2>2. UNCHANGED events \/ events' = Append(events, e)
      BY <1>e DEF Emitted
    <2> HIDE DEF e
    <2> QED BY <2>1, <2>2 DEF QueueOfOthers
  <1>4. QueueOfOthers(s)
    <2>1. CASE TurnPaused(r)
      <3>1. PICK c \in Controls : events' = Append(events, Event("interrupt", r, None, c))
        BY <2>1 DEF TurnPaused
      <3>2. PICK e : e = Event("interrupt", r, None, c)
        OBVIOUS
      <3>3. e \in QueuedEvents /\ e.run = r
        BY <3>2 DEF Event, QueuedEvents, ControlEvents
      <3> QED BY <3>1, <3>2, <3>3 DEF QueueOfOthers
    <2>2. CASE Opened(r) \/ ReleaseSucceeds(r) \/ ReleaseFails(r)
      <3>1. \/ UNCHANGED events
            \/ \E kind \in ExecutorEvents, request \in Permissions \cup {None} :
                 events' = Emitted(kind, r, request)
        BY <2>2 DEF Opened, ReleaseSucceeds, ReleaseFails, ExecutorEvents, Outcomes
      <3> QED BY <1>e, <3>1 DEF QueueOfOthers
    <2>3. CASE AsksPermission(r)
      <3>1. exec[r].asked + 1 \in Permissions
        BY <1>t, <2>3, RunStateAssumption DEF AsksPermission, Entries, Permissions
      <3>2. events' = Emitted("needs_user", r, exec[r].asked + 1)
        BY <2>3 DEF AsksPermission
      <3> QED BY <1>e, <3>1, <3>2 DEF ExecutorEvents
    <2>4. CASE ~TurnPaused(r) /\ ~Opened(r) /\ ~AsksPermission(r) /\ ~ReleaseSucceeds(r)
               /\ ~ReleaseFails(r)
      BY <2>4 DEF QueueOfOthers, ExecutorStep, Spawn, PrepareFails, Loads, StartFails, TurnEnds,
         ProcessExits
    <2> QED BY <2>1, <2>2, <2>3, <2>4
  <1> QED BY <1>1, <1>2, <1>3, <1>4 DEF Undisturbed

\* What terminate() does to other rows.
LEMMA TerminateOther ==
    ASSUME TypeOK, NEW r \in Runs, NEW status, Terminate(r, status), NEW s \in Runs, s # r
    PROVE  row'[s] = row[s]
  BY DEF TypeOK, Terminate, Settled

\* A step of another Run.
LEMMA RunStepOfOther ==
    ASSUME TypeOK, NEW r \in Runs, RunStep(r), NEW s \in Runs, s # r
    PROVE  Undisturbed(s)
  <1> USE DEF tables, files, executor, tasks, invocations
  <1>t. /\ exec \in [Runs -> Entries] /\ row \in [Runs -> Rows] /\ launch \in [Runs -> Launches]
        /\ capture \in [Runs -> {"none", "copying", "aborted"}]
    BY DEF TypeOK
  <1>1. UNCHANGED <<events, ctl>>
    BY RunLeaves
  <1>2. launch'[s] = launch[s] /\ exec'[s] = exec[s] /\ capture'[s] = capture[s]
    BY <1>t DEF RunStep, LaunchBegins, LaunchRefused, LaunchEnds, CaptureEnds, AttemptEnds,
       RetryDelivery, SetExec
  <1>3. row'[s] = row[s]
    <2>1. CASE LaunchRefused(r) \/ LaunchEnds(r)
               \/ \E status \in {"completed", "failed"} : CaptureEnds(r, status)
      <3>1. UNCHANGED row \/ \E status : Terminate(r, status)
        BY <2>1 DEF LaunchRefused, LaunchEnds, CaptureEnds
      <3> QED BY <3>1, TerminateOther
    <2>2. CASE ~LaunchRefused(r) /\ ~LaunchEnds(r)
               /\ ~\E status \in {"completed", "failed"} : CaptureEnds(r, status)
      BY <1>t, <2>2 DEF RunStep, LaunchBegins, AttemptEnds, RetryDelivery
    <2> QED BY <2>1, <2>2
  <1> QED BY <1>1, <1>2, <1>3 DEF Undisturbed, QueueOfOthers

\* A closure of another Run.
LEMMA ClosureOfOther ==
    ASSUME TypeOK, ClosuresOwned, RunNextEvent, NEW s \in Runs, s # NextEvent.run
    PROVE  Undisturbed(s)
  <1> USE DEF files, executor
  <1>t. /\ row \in [Runs -> Rows] /\ capture \in [Runs -> {"none", "copying", "aborted"}]
        /\ events \in Seq(QueuedEvents) /\ events # <<>>
    BY DEF TypeOK, RunNextEvent
  <1>r. PICK r \in Runs : r = NextEvent.run
    <2>1. NextEvent \in QueuedEvents
      BY <1>t DEF NextEvent
    <2> QED BY <2>1 DEF QueuedEvents
  <1>1. UNCHANGED <<launch, exec>>
    BY DEF RunNextEvent
  <1>2. QueueOfOthers(s)
    BY <1>r DEF RunNextEvent, QueueOfOthers, NextEvent
  <1>3. \A c \in Controls : ctl[c].run = s /\ ctl[c].step \in {"stop", "join"} => ctl'[c] = ctl[c]
    BY ClosureRuns
  <1>4. row'[s] = row[s] /\ capture'[s] = capture[s]
    <2>p. PICK e : e = NextEvent /\ e.run = r
      BY <1>r
    <2>1. CASE ApplyExecutorEvent(NextEvent)
      <3>1. ApplyExecutorEvent(e)
        BY <2>1, <2>p
      <3>2. \/ UNCHANGED row
            \/ \E status, permission : SetRow(r, status, permission)
            \/ \E status : Terminate(r, status)
        BY <2>p, <3>1 DEF ApplyExecutorEvent, Starts, NeedsUser, Completes
      <3>3. capture'[s] = capture[s]
        BY <1>r, <1>t, <2>p, <3>1 DEF ApplyExecutorEvent, Completes
      <3> QED BY <1>r, <1>t, <3>2, <3>3, TerminateOther DEF SetRow
    <2>2. CASE ApplyControl(NextEvent) /\ UNCHANGED capture
      <3>1. ApplyControl(e)
        BY <2>2, <2>p
      <3>2. \/ UNCHANGED row
            \/ \E status, permission : SetRow(r, status, permission)
            \/ \E status : Terminate(r, status)
        BY <2>p, <3>1 DEF ApplyControl, Pauses, Resumes, Responds
      <3> QED BY <1>r, <1>t, <2>2, <3>2, TerminateOther DEF SetRow
    <2> QED BY <2>1, <2>2 DEF RunNextEvent
  <1> QED BY <1>1, <1>2, <1>3, <1>4 DEF Undisturbed

\* A control leaves every Run alone that it is not about.
LEMMA ControlOfOther ==
    ASSUME TypeOK, NEW c \in Controls, ControlStep(c), NEW s \in Runs, ~Concerns(c, s)
    PROVE  Undisturbed(s)
  <1> USE DEF tables, files, tasks, executor
  <1>t. /\ exec \in [Runs -> Entries] /\ ctl \in [Controls -> ControlTasks]
        /\ launch \in [Runs -> Launches] /\ row \in [Runs -> Rows]
    BY DEF TypeOK
  <1>0. UNCHANGED <<row, capture>>
    BY ControlLeaves
  <1>q. ASSUME NEW r \in Runs, NEW e \in QueuedEvents, e.run = r, r # s,
               UNCHANGED events \/ events' = Append(events, e)
        PROVE  QueueOfOthers(s)
    BY <1>q DEF QueueOfOthers
  <1>c. ASSUME \/ UNCHANGED ctl
               \/ /\ ctl[c].step \notin {"stop", "join"} \/ ctl[c].run # s
                  /\ \E step, r : Step(c, step, r)
        PROVE  \A k \in Controls :
                 ctl[k].run = s /\ ctl[k].step \in {"stop", "join"} => ctl'[k] = ctl[k]
    BY <1>c, <1>t DEF Step
  <1>1. ASSUME NEW r \in Runs, InterruptBegins(c, r) \/ ResumeBegins(c, r) \/ RespondBegins(c, r)
        PROVE  Undisturbed(s)
    <2>1. r # s
      BY <1>1 DEF Concerns
    <2>2. launch'[s] = launch[s] /\ exec'[s] = exec[s]
      BY <1>1, <1>t, <2>1 DEF InterruptBegins, ResumeBegins, RespondBegins, SetExec
    <2>3. ctl[c].step = "idle" /\ \E step : Step(c, step, r)
      BY <1>1 DEF InterruptBegins, ResumeBegins, RespondBegins, Controllable
    <2>4. QueueOfOthers(s)
      <3>1. row[r].permission \in Permissions \cup {None}
        BY <1>t DEF Rows
      <3>2. \E kind \in ControlEvents, request \in Permissions \cup {None} :
              UNCHANGED events \/ events' = Append(events, Event(kind, r, request, c))
        BY <1>1, <3>1 DEF InterruptBegins, ResumeBegins, RespondBegins, ControlEvents
      <3>3. PICK e \in QueuedEvents : e.run = r /\ (UNCHANGED events \/ events' = Append(events, e))
        BY <3>2 DEF Event, QueuedEvents
      <3> QED BY <1>q, <2>1, <3>3
    <2> QED BY <1>0, <1>c, <2>2, <2>3, <2>4 DEF Undisturbed
  <1>2. ASSUME NEW r \in Runs, CancelBegins(c, r) PROVE Undisturbed(s)
    <2>1. r # s
      BY <1>2 DEF Concerns
    <2>2. launch'[s] = launch[s] /\ exec'[s] = exec[s]
      BY <1>2, <1>t, <2>1 DEF CancelBegins, SetExec
    <2>3. ctl[c].step = "idle" /\ (UNCHANGED ctl \/ \E step : Step(c, step, r)) /\ UNCHANGED events
      BY <1>2 DEF CancelBegins, Controllable
    <2> QED BY <1>0, <1>c, <2>2, <2>3 DEF Undisturbed, QueueOfOthers
  <1>3. CASE InterruptFails(c) \/ InterruptRejected(c) \/ CancelReleased(c) \/ CancelJoined(c)
    <2>1. PICK r \in Runs : r = ctl[c].run
      BY <1>3, ControlledRun DEF InterruptFails, InterruptRejected, CancelReleased, CancelJoined
    <2>2. r # s
      BY <1>3, <2>1 DEF Concerns
    <2>3. launch'[s] = launch[s] /\ exec'[s] = exec[s]
      BY <1>3, <1>t, <2>1, <2>2 DEF InterruptFails, InterruptRejected, CancelReleased,
         CancelJoined, SetExec
    <2>4. \E step, x : Step(c, step, x)
      BY <1>3 DEF InterruptFails, InterruptRejected, CancelReleased, CancelJoined
    <2>5. QueueOfOthers(s)
      <3>1. \/ UNCHANGED events \/ events' = Append(events, Event("cancelled", r, None, None))
            \/ events' = Append(events, Event("cancel", r, None, c))
        BY <1>3, <2>1 DEF InterruptFails, InterruptRejected, CancelReleased, CancelJoined, Emitted
      <3>2. PICK e \in QueuedEvents : e.run = r /\ (UNCHANGED events \/ events' = Append(events, e))
        BY <3>1 DEF Event, QueuedEvents, ControlEvents, ExecutorEvents, Outcomes
      <3> QED BY <1>q, <2>2, <3>2
    <2> QED BY <1>0, <1>c, <2>1, <2>2, <2>3, <2>4, <2>5 DEF Undisturbed
  <1> QED BY <1>1, <1>2, <1>3 DEF ControlStep

\* The deletion of a conversation leaves the Runs of others alone.
LEMMA DeletionOfOther ==
    ASSUME TypeOK, RowInvariant, LifecycleKnown, NEW c \in Conversations, DeleteStep(c),
           NEW s \in Runs, Kept(s)
    PROVE  Undisturbed(s)
  <1> USE DEF tables, files, tasks, executor, deletionOthers
  <1>t. /\ exec \in [Runs -> Entries] /\ launch \in [Runs -> Launches] /\ row \in [Runs -> Rows]
        /\ capture \in [Runs -> {"none", "copying", "aborted"}]
        /\ deletion \in [Conversations -> DeletionTasks]
        /\ DeletionKnows(c)
    BY DEF TypeOK, RowInvariant
  <1>0. UNCHANGED <<events, ctl>>
    BY DeleteLeaves
  <1>s. s \notin RunsOf(c)
    BY DeletesDeletable DEF Kept, RunsOf
  <1>1. capture'[s] = capture[s]
    BY <1>s, <1>t DEF DeleteStep, DeleteBegins, DeleteCollects, DeleteCaptured, DeleteStops, Abort,
       DeleteStopped, DeleteUndone, DeleteDrains, DeleteClears, DeleteEnds, DeleteFails
  <1>2. ASSUME NEW r \in Runs, DeleteCaptured(c, r) \/ DeleteStops(c, r) PROVE Undisturbed(s)
    <2>1. r \in RunsOf(c)
      <3>1. deletion[c].todo # {} /\ r = First(deletion[c].todo)
            /\ deletion[c].todo \subseteq RunsOf(c)
        BY <1>2, <1>t DEF DeleteCaptured, DeleteStops, Deleting, DeletionKnows
      <3>2. deletion[c].todo \in SUBSET Runs
        BY <3>1 DEF RunsOf
      <3> QED BY <3>1, <3>2, FirstIsMember
    <2>2. r # s
      BY <1>s, <2>1
    <2>3. s \notin deletion[c].unfinished
      BY <1>2, <1>s, <1>t DEF DeleteCaptured, DeleteStops, Deleting, DeletionKnows
    <2>4. launch'[s] = launch[s]
      BY <1>2, <1>t, <2>2, <2>3 DEF DeleteCaptured, DeleteStops, DeleteThrows
    <2>5. row'[s] = row[s] /\ exec'[s] = exec[s]
      BY <1>2, <1>t, <2>2 DEF DeleteCaptured, DeleteStops, RecordStopped, Settled, SetExec
    <2> QED BY <1>0, <1>1, <2>4, <2>5 DEF Undisturbed, QueueOfOthers
  <1>3. CASE DeleteStopped(c)
    <2>1. PICK r \in RunsOf(c) : r = deletion[c].current
      BY <1>3, <1>t DEF DeleteStopped, DeletionKnows
    <2>2. r # s /\ s \notin deletion[c].unfinished
      BY <1>3, <1>s, <1>t DEF DeleteStopped, DeletionKnows
    <2>3. row'[s] = row[s] /\ exec'[s] = exec[s] /\ launch'[s] = launch[s]
      BY <1>3, <1>t, <2>1, <2>2 DEF DeleteStopped, RecordStopped, Settled, DeleteThrows
    <2> QED BY <1>0, <1>1, <2>3 DEF Undisturbed, QueueOfOthers
  <1>4. CASE DeleteUndone(c)
    <2>1. s \notin Unbegun(c)
      BY <1>4, <1>s, <1>t DEF DeleteUndone, DeletionKnows, Unbegun
    <2>2. row'[s] = row[s] /\ exec'[s] = exec[s]
      BY <1>4, <1>t, <2>1 DEF DeleteUndone
    <2>3. launch'[s] = [launch[s] EXCEPT !.held = launch[s].held]
      <3>1. launch'[s] = [launch[s] EXCEPT !.held = launch[s].held /\ s \notin Unbegun(c)]
        BY <1>4 DEF DeleteUndone
      <3>2. launch[s].held \in BOOLEAN
        BY <1>t DEF Launches
      <3>3. (launch[s].held /\ s \notin Unbegun(c)) = launch[s].held
        BY <2>1, <3>2
      <3> QED BY <3>1, <3>3
    <2>4. launch'[s] = launch[s]
      BY <1>t, <2>3 DEF Launches
    <2> QED BY <1>0, <1>1, <2>2, <2>4 DEF Undisturbed, QueueOfOthers
  <1>5. CASE \/ DeleteBegins(c) \/ DeleteCollects(c) \/ DeleteDrains(c) \/ DeleteClears(c)
             \/ DeleteEnds(c) \/ DeleteFails(c)
    <2>1. UNCHANGED <<launch, exec>>
      BY <1>5 DEF DeleteBegins, DeleteCollects, DeleteDrains, DeleteClears, DeleteEnds, DeleteFails
    <2>2. row'[s] = row[s]
      BY <1>5, <1>s DEF DeleteBegins, DeleteCollects, DeleteDrains, DeleteClears, DeleteEnds,
         DeleteFails
    <2> QED BY <1>0, <1>1, <2>1, <2>2 DEF Undisturbed, QueueOfOthers
  <1> QED BY <1>2, <1>3, <1>4, <1>5 DEF DeleteStep

\* Recovery of another Run, and what admission does for others.
LEMMA RecoveryOfOther ==
    ASSUME TypeOK, RecoveryStep, NEW s \in Runs,
           RestoreBegins => s # First(recovering.todo), RestoreEnds => s # recovering.current
    PROVE  Undisturbed(s)
  <1> USE DEF tables, files, tasks, executor, invocations, recoveryOthers
  <1>t. exec \in [Runs -> Entries] /\ row \in [Runs -> Rows]
    BY DEF TypeOK
  <1>0. UNCHANGED <<events, ctl, capture, launch>>
    BY RecoveryLeaves
  <1>1. row'[s] = row[s] /\ exec'[s] = exec[s]
    BY <1>t DEF RecoveryStep, RestoreBegins, RestoreDeferred, RestoreEnds, RecoveryEnds,
       ReconcilePending, SetExec
  <1> QED BY <1>0, <1>1 DEF Undisturbed, QueueOfOthers

\* Delegating and admitting leave the Runs there are alone.
LEMMA AdmissionOfOther ==
    ASSUME TypeOK, NEW s \in Runs, row[s].status # "absent",
           NEW d \in Delegations,
           (\E q \in Calls : Delegate(d, q)) \/ Admit(d) \/ AdmissionRefused(d)
    PROVE  Undisturbed(s)
  <1> USE DEF tables, files, tasks, executor
  <1>t. row \in [Runs -> Rows] /\ launch \in [Runs -> Launches]
    BY DEF TypeOK
  <1>0. UNCHANGED <<events, ctl, capture, exec>>
    BY DEF Delegate, Admit, AdmissionRefused, AdmissionSettles
  <1>1. row'[s] = row[s] /\ launch'[s] = launch[s]
    <2>1. CASE Admit(d)
      <3> DEFINE fresh == {r \in Runs : row[r].status = "absent"}
      <3>1. fresh # {}
        BY <2>1 DEF Admit
      <3>2. PICK n \in fresh : n = First(fresh)
        BY <3>1, FirstIsMember
      <3>3. n # s
        BY <3>2
      <3> HIDE DEF fresh
      <3>4. /\ \E x : row' = [row EXCEPT ![n] = x]
            /\ \E x : launch' = [launch EXCEPT ![n] = x]
        BY <2>1, <3>2 DEF Admit, fresh
      <3> QED BY <1>t, <3>3, <3>4
    <2>2. CASE ~Admit(d)
      BY <2>2 DEF Delegate, AdmissionRefused
    <2> QED BY <2>1, <2>2
  <1> QED BY <1>0, <1>1 DEF Undisturbed, QueueOfOthers

--------------------
(* How the Runs of conversations that nobody deletes come to an end *)

\* A queue that grows loses nothing that ends a Run.
LEMMA EndGrows ==
    ASSUME TypeOK, NEW s \in Runs,
           \A c \in Controls :
             ctl[c].run = s /\ ctl[c].step \in {"stop", "join"} => ctl'[c] = ctl[c],
           UNCHANGED events \/ \E e : events' = Append(events, e)
    PROVE  EndStays(s)
  <1>1. Len(events) \in Nat /\ events \in Seq(QueuedEvents)
    BY DEF TypeOK
  <1>2. \A i \in 1..Len(events) : i \in 1..Len(events') /\ events'[i] = events[i]
    BY <1>1
  <1>3. (Cancelling(s) => Cancelling(s)') /\ (StopOwned(s) => StopOwned(s)')
    BY DEF Cancelling, StopOwned
  <1>4. \A kinds : Queued(s, kinds) => Queued(s, kinds)'
    BY <1>2 DEF Queued
  <1> QED BY <1>3, <1>4 DEF EndStays, Ending

\* The first closure ends only its own Run.
LEMMA QueuedStays ==
    ASSUME TypeOK, events # <<>>, events' = Tail(events), NEW s, NEW kinds, Queued(s, kinds),
           Head(events).run # s \/ Head(events).kind \notin kinds
    PROVE  Queued(s, kinds)'
  <1>1. Len(events) \in Nat /\ events \in Seq(QueuedEvents)
    BY DEF TypeOK
  <1>2. PICK i \in 1..Len(events) : events[i].run = s /\ events[i].kind \in kinds
    BY DEF Queued
  <1>3. i # 1
    BY <1>1, <1>2
  <1>4. i - 1 \in 1..Len(events') /\ events'[i - 1] = events[i]
    BY <1>1, <1>2, <1>3
  <1> QED BY <1>2, <1>4 DEF Queued

\* A step that does not concern a Run takes nothing away that ends it.
LEMMA EndOfOther ==
    ASSUME TypeOK, NEW s \in Runs, Undisturbed(s)
    PROVE  EndStays(s)
  <1>1. CASE UNCHANGED events \/ \E e : events' = Append(events, e)
    BY <1>1, EndGrows DEF Undisturbed
  <1>2. CASE events # <<>> /\ Head(events).run # s /\ events' = Tail(events)
    <2>1. \A kinds : Queued(s, kinds) => Queued(s, kinds)'
      BY <1>2, QueuedStays
    <2>2. (Cancelling(s) => Cancelling(s)') /\ (StopOwned(s) => StopOwned(s)')
      BY DEF Undisturbed, Cancelling, StopOwned
    <2> QED BY <2>1, <2>2 DEF EndStays, Ending
  <1> QED BY <1>1, <1>2 DEF Undisturbed, QueueOfOthers

\* A Run that a step leaves alone keeps what is known of its end.
LEMMA UndisturbedKnown ==
    ASSUME TypeOK, NEW s \in Runs, Undisturbed(s), KeptKnown(s)
    PROVE  KeptKnown(s)'
  <1>1. EndStays(s)
    BY EndOfOther
  <1>2. Unfinished(s)' <=> Unfinished(s)
    BY DEF Undisturbed, Unfinished
  <1> QED BY <1>1, <1>2 DEF KeptKnown, Undisturbed, EndStays

\* While the service is open, only a marked launch keeps events from a Run.
LEMMA KeptEmits ==
    ASSUME LifecycleKnown, NEW s \in Runs, Kept(s), ~closed, ~launch[s].cancelled
    PROVE  Emits(s)
  BY DEF LifecycleKnown, Kept, Emits

\* The executor's own steps.
LEMMA ExecutorKeepsKnown ==
    ASSUME TypeOK, LifecycleKnown, ~closed, NEW s \in Runs, StartKnown(s), EntryKnown(s), Kept(s),
           KeptKnown(s), ExecutorStep(s)
    PROVE  KeptKnown(s)'
  <1> USE DEF outsideExecutor, tables
  <1>t. /\ exec \in [Runs -> Entries] /\ ctl \in [Controls -> ControlTasks]
        /\ exec[s] \in Entries /\ EntryTells(exec[s], launch[s], native[s])
    BY DEF TypeOK, EntryKnown
  <1>1. UNCHANGED <<row, launch, capture>> /\ (Unfinished(s)' <=> Unfinished(s))
    BY ExecutorLeaves DEF Unfinished
  <1>2. EndStays(s)
    <2>1. \A c \in Controls : ctl[c].run = s /\ ctl[c].step \in {"stop", "join"} => ctl'[c] = ctl[c]
      <3>1. CASE TurnPaused(s)
        BY <1>t, <3>1 DEF TurnPaused
      <3>2. CASE ~TurnPaused(s)
        <4>1. UNCHANGED ctl
          BY <3>2 DEF ExecutorStep, Spawn, PrepareFails, Loads, Opened, StartFails, TurnEnds,
             AsksPermission, ProcessExits, ReleaseSucceeds, ReleaseFails
        <4> QED BY <4>1
      <3> QED BY <3>1, <3>2
    <2>2. UNCHANGED events \/ \E e : events' = Append(events, e)
      BY DEF ExecutorStep, Spawn, PrepareFails, Loads, Opened, StartFails, TurnEnds, Emitted,
         TurnPaused, AsksPermission, ProcessExits, ReleaseSucceeds, ReleaseFails
    <2> QED BY <2>1, <2>2, EndGrows
  <1>e. ASSUME NEW e, SetExec(s, e), e.phase # "absent",
               e.phase = "releasing" => e.why \notin {"stop", "suspend"},
               e.phase \in {"preparing", "opening", "loading", "turn", "interrupting", "paused"} =>
                 exec[s].phase
                   \in {"preparing", "opening", "loading", "turn", "interrupting", "paused"}
        PROVE  KeptKnown(s)'
    <2>1. exec'[s] = e
      BY <1>e, <1>t DEF SetExec
    <2> QED BY <1>1, <1>2, <1>e, <2>1 DEF KeptKnown, EndStays
  <1>3. CASE UNCHANGED exec
    BY <1>1, <1>2, <1>3 DEF KeptKnown, EndStays
  <1>4. CASE Spawn(s) \/ Loads(s) \/ StartFails(s) \/ TurnPaused(s)
    <2>1. CASE Spawn(s)
      <3> DEFINE e == [exec[s] EXCEPT !.phase = "opening"]
      <3>1. e.phase = "opening" /\ SetExec(s, e) /\ exec[s].phase = "preparing"
        BY <1>t, <2>1 DEF Spawn, Entries
      <3> HIDE DEF e
      <3> QED BY <1>e, <3>1
    <2>2. CASE Loads(s)
      <3> DEFINE e == [exec[s] EXCEPT !.phase = "loading"]
      <3>1. e.phase = "loading" /\ SetExec(s, e) /\ exec[s].phase = "opening"
        BY <1>t, <2>2 DEF Loads, Entries
      <3> HIDE DEF e
      <3> QED BY <1>e, <3>1
    <2>3. CASE StartFails(s)
      <3> DEFINE e == [exec[s] EXCEPT !.phase = "releasing", !.why = "startup"]
      <3>1. e.phase = "releasing" /\ e.why = "startup" /\ SetExec(s, e)
        BY <1>t, <2>3 DEF StartFails, Entries
      <3> HIDE DEF e
      <3> QED BY <1>e, <3>1
    <2>4. CASE TurnPaused(s)
      <3> DEFINE e == [exec[s] EXCEPT !.phase = "paused", !.turn = FALSE]
      <3>1. e.phase = "paused" /\ SetExec(s, e) /\ exec[s].phase = "interrupting"
        BY <1>t, <2>4 DEF TurnPaused, Entries
      <3> HIDE DEF e
      <3> QED BY <1>e, <3>1
    <2> QED BY <1>4, <2>1, <2>2, <2>3, <2>4
  <1>5. CASE Opened(s)
    <2>1. PICK saved \in BOOLEAN :
            SetExec(s, [exec[s] EXCEPT !.saved = saved, !.start = "ok",
                           !.turn = ~exec[s].restoring,
                           !.phase = IF exec[s].restoring THEN "paused" ELSE "turn"])
      BY <1>5 DEF Opened
    <2> DEFINE e == [exec[s] EXCEPT !.saved = saved, !.start = "ok",
                           !.turn = ~exec[s].restoring,
                           !.phase = IF exec[s].restoring THEN "paused" ELSE "turn"]
    <2>2. e.phase \in {"paused", "turn"} /\ SetExec(s, e)
         /\ exec[s].phase \in {"loading", "opening"}
      BY <1>t, <1>5, <2>1 DEF Opened, Entries
    <2> HIDE DEF e
    <2> QED BY <1>e, <2>2
  <1>6. CASE AsksPermission(s)
    <2> DEFINE e == [exec[s] EXCEPT !.asked = exec[s].asked + 1,
                                    !.pending = @ \cup {exec[s].asked + 1}]
    <2>1. SetExec(s, e)
      BY <1>6 DEF AsksPermission
    <2>2. e.phase = exec[s].phase /\ exec[s].phase \in {"turn", "interrupting"}
      BY <1>t, <1>6 DEF AsksPermission, Entries
    <2> HIDE DEF e
    <2> QED BY <1>e, <2>1, <2>2
  <1>7. ASSUME NEW outcome \in Outcomes, SetExec(s, Settling(s, outcome)) PROVE KeptKnown(s)'
    <2> DEFINE e == Settling(s, outcome)
    <2>1. e.phase = "releasing" /\ e.why = outcome /\ outcome \notin {"stop", "suspend"}
      BY <1>t DEF Settling, Entries, Outcomes
    <2> HIDE DEF e
    <2> QED BY <1>7, <1>e, <2>1 DEF e
  <1>8. CASE ProcessExits(s) \/ \E outcome \in Outcomes : TurnEnds(s, outcome)
    BY <1>3, <1>7, <1>8 DEF ProcessExits, TurnEnds, Outcomes
  <1>9. CASE ReleaseFails(s)
    <2>1. PICK start \in StartAfterRelease(s), turn \in {FALSE, exec[s].turn /\ ~exec[s].settled} :
            SetExec(s, [exec[s] EXCEPT !.phase = "unreleased", !.start = start, !.turn = turn,
                           !.why = IF @ = "startup" THEN @ ELSE None])
      BY <1>9 DEF ReleaseFails
    <2> DEFINE e == [exec[s] EXCEPT !.phase = "unreleased", !.start = start, !.turn = turn,
                         !.why = IF @ = "startup" THEN @ ELSE None]
    <2>2. e.phase = "unreleased" /\ SetExec(s, e)
      BY <1>t, <2>1 DEF Entries
    <2> HIDE DEF e
    <2> QED BY <1>e, <2>2
  <1>a. ASSUME NEW e, SetExec(s, e), e.phase = "absent",
               Unfinished(s) /\ e.start \notin {"failed", "unsupported"} =>
                 capture[s] # "none" \/ Cancelling(s) \/ Queued(s, Ending)'
        PROVE  KeptKnown(s)'
    <2>1. exec'[s] = e
      BY <1>a, <1>t DEF SetExec
    <2> QED BY <1>1, <1>2, <1>a, <2>1 DEF KeptKnown, EndStays
  <1>10. CASE PrepareFails(s)
    <2> DEFINE e == [AbsentExec EXCEPT !.start = "failed", !.restoring = exec[s].restoring]
    <2>1. e.phase = "absent" /\ e.start = "failed" /\ SetExec(s, e)
      BY <1>10 DEF PrepareFails, AbsentExec
    <2> HIDE DEF e
    <2> QED BY <1>a, <2>1
  <1>11. CASE ReleaseSucceeds(s)
    <2>1. PICK start \in StartAfterRelease(s) \cup Unsupported(s) :
            SetExec(s, [AbsentExec EXCEPT !.start = start, !.restoring = exec[s].restoring])
      BY <1>11 DEF ReleaseSucceeds
    <2> DEFINE e == [AbsentExec EXCEPT !.start = start, !.restoring = exec[s].restoring]
    <2>2. e.phase = "absent" /\ e.start = start /\ SetExec(s, e)
      BY <2>1 DEF AbsentExec
    <2> HIDE DEF e
    <2>3. exec[s].phase = "releasing" /\ exec[s].why \in Outcomes \cup {"stop", "startup"}
      BY <1>11, <1>t DEF ReleaseSucceeds, EntryTells, KeptKnown
    <2>4. CASE exec[s].why = "startup"
      <3>1. start \in {"failed", "unsupported"}
        BY <1>t, <2>1, <2>3, <2>4 DEF StartAfterRelease, Unsupported, EntryTells
      <3> QED BY <1>a, <2>2, <3>1
    <2>5. CASE exec[s].why = "stop"
      <3>1. Cancelling(s)
        BY <2>3, <2>5 DEF KeptKnown, StopOwned, Cancelling
      <3> QED BY <1>a, <2>2, <3>1
    <2>6. CASE exec[s].why \in Outcomes /\ ~launch[s].cancelled
      <3>1. PICK e2 : e2 = Event(exec[s].why, s, None, None)
        OBVIOUS
      <3>2. events' = Append(events, e2)
        BY <1>11, <2>6, <3>1, KeptEmits DEF ReleaseSucceeds, Emitted
      <3>3. Len(events) \in Nat /\ events \in Seq(QueuedEvents)
        BY DEF TypeOK
      <3>4. Len(events) + 1 \in 1..Len(events') /\ events'[Len(events) + 1] = e2
        BY <3>2, <3>3
      <3>5. e2.run = s /\ e2.kind \in Ending
        BY <2>6, <3>1 DEF Event, Ending
      <3>6. Queued(s, Ending)'
        BY <3>4, <3>5 DEF Queued, Ending
      <3> QED BY <1>a, <2>2, <3>6
    <2>7. CASE launch[s].cancelled
      <3>1. Queued(s, {"cancel"}) => Queued(s, Ending)
        BY DEF Queued, Ending
      <3>2. Unfinished(s) => Queued(s, Ending)' \/ Cancelling(s)
        BY <1>2, <2>7, <3>1 DEF KeptKnown, EndStays
      <3> QED BY <1>a, <2>2, <3>2
    <2> QED BY <2>3, <2>4, <2>5, <2>6, <2>7
  <1> QED BY <1>3, <1>4, <1>5, <1>6, <1>8, <1>9, <1>10, <1>11 DEF ExecutorStep

\* The controls of the Run.
LEMMA ControlKeepsKnown ==
    ASSUME TypeOK, LifecycleKnown, ~closed, NEW s \in Runs, StartKnown(s), EntryKnown(s), Kept(s),
           KeptKnown(s), NEW c \in Controls, Concerns(c, s)
    PROVE  KeptKnown(s)'
  <1> USE DEF tables, files, tasks, executor
  <1>t. /\ exec \in [Runs -> Entries] /\ ctl \in [Controls -> ControlTasks]
        /\ launch \in [Runs -> Launches] /\ launch[s] \in Launches
        /\ exec[s] \in Entries /\ EntryTells(exec[s], launch[s], native[s])
        /\ events \in Seq(QueuedEvents) /\ Len(events) \in Nat
    BY DEF TypeOK, EntryKnown
  <1>1. UNCHANGED <<row, capture>> /\ (Unfinished(s)' <=> Unfinished(s))
    BY DEF Concerns, InterruptBegins, ResumeBegins, RespondBegins, CancelBegins, Unfinished,
       InterruptFails, InterruptRejected, CancelReleased, CancelJoined
  <1>s. ASSUME NEW step, NEW r, Step(c, step, r)
        PROVE  /\ ctl'[c].step = step /\ ctl'[c].run = r
               /\ \A k \in Controls : k # c => ctl'[k] = ctl[k]
    BY <1>t, <1>s DEF Step
  <1>e. ASSUME NEW e, SetExec(s, e), UNCHANGED launch, e.start = exec[s].start, EndStays(s),
               e.phase \notin {"absent", "releasing"} \/ e = exec[s],
               e.phase \in {"preparing", "opening", "loading", "turn", "interrupting", "paused"} =>
                 exec[s].phase
                   \in {"preparing", "opening", "loading", "turn", "interrupting", "paused"}
        PROVE  KeptKnown(s)'
    <2>1. exec'[s] = e
      BY <1>e, <1>t DEF SetExec
    <2> QED BY <1>1, <1>e, <2>1 DEF KeptKnown, EndStays
  <1>2. ASSUME ctl[c].step \notin {"stop", "join"}, \E step, r : Step(c, step, r),
               UNCHANGED events \/ \E e : events' = Append(events, e)
        PROVE  EndStays(s)
    BY <1>2, <1>s, EndGrows
  <1>3. CASE InterruptBegins(c, s)
    <2> DEFINE e == [exec[s] EXCEPT !.phase = "interrupting"]
    <2>1. e.phase = "interrupting" /\ e.start = exec[s].start /\ SetExec(s, e) /\ UNCHANGED launch
      BY <1>t, <1>3 DEF InterruptBegins, Entries
    <2>2. exec[s].phase = "turn"
      BY <1>3 DEF InterruptBegins, Controllable, Actions, RuntimeActions
    <2>3. EndStays(s)
      BY <1>2, <1>3 DEF InterruptBegins, Controllable
    <2> HIDE DEF e
    <2> QED BY <1>e, <2>1, <2>2, <2>3
  <1>4. CASE ResumeBegins(c, s)
    <2> DEFINE e == [exec[s] EXCEPT !.phase = "turn", !.turn = TRUE]
    <2>1. e.phase = "turn" /\ e.start = exec[s].start /\ SetExec(s, e) /\ UNCHANGED launch
      BY <1>t, <1>4 DEF ResumeBegins, Entries
    <2>2. exec[s].phase = "paused"
      BY <1>4 DEF ResumeBegins, Controllable, Actions, RuntimeActions
    <2>3. EndStays(s)
      BY <1>2, <1>4 DEF ResumeBegins, Controllable
    <2> HIDE DEF e
    <2> QED BY <1>e, <2>1, <2>2, <2>3
  <1>5. CASE RespondBegins(c, s)
    <2> DEFINE e == [exec[s] EXCEPT !.pending = @ \ {row[s].permission}]
    <2>1. e.phase = exec[s].phase /\ e.start = exec[s].start /\ SetExec(s, e) /\ UNCHANGED launch
      BY <1>t, <1>5 DEF RespondBegins, Entries
    <2>2. exec[s].phase \notin {"absent", "releasing"}
      BY <1>5 DEF RespondBegins, Controllable, Actions, RuntimeActions, RecoveryState, Active
    <2>3. EndStays(s)
      BY <1>2, <1>5 DEF RespondBegins, Controllable
    <2> HIDE DEF e
    <2> QED BY <1>e, <2>1, <2>2, <2>3
  <1>6. CASE CancelBegins(c, s)
    <2> DEFINE mark(b) ==
          launch' = [launch EXCEPT ![s].cancelled = IF launch[s].held THEN b ELSE @]
    <2>0. ctl[c].step = "idle" /\ UNCHANGED events
      BY <1>6 DEF CancelBegins, Controllable
    <2>m. ASSUME NEW b \in BOOLEAN, mark(b)
          PROVE  /\ launch'[s].step = launch[s].step /\ launch'[s].held = launch[s].held
                 /\ launch'[s].cancelled = IF launch[s].held THEN b ELSE launch[s].cancelled
      BY <1>t, <2>m DEF Launches
    <2>q. \A kinds : Queued(s, kinds)' <=> Queued(s, kinds)
      BY <2>0 DEF Queued
    <2>k. \A k \in Controls : ctl[k].step \in {"stop", "join"} => k # c
      BY <2>0
    <2>1. CASE launch[s].held /\ launch[s].step \in {"waiting", "skipped"}
      <3>1. mark(TRUE) /\ Step(c, "join", s) /\ UNCHANGED exec
        BY <1>6, <2>1 DEF CancelBegins
      <3>2. Cancelling(s)'
        BY <1>s, <3>1 DEF Cancelling
      <3>3. exec[s].phase = "absent"
        BY <2>1 DEF StartKnown
      <3> QED BY <1>1, <2>1, <2>m, <3>1, <3>2, <3>3 DEF KeptKnown
    <2>2. CASE ~(launch[s].held /\ launch[s].step \in {"waiting", "skipped"})
               /\ (~Active(s) \/ exec[s].settled \/ StopRejects(s))
      <3>1. mark(FALSE) /\ UNCHANGED ctl
            /\ SetExec(s, IF Active(s) /\ ~exec[s].settled THEN Stopping(s) ELSE exec[s])
        BY <1>6, <2>2 DEF CancelBegins
      <3>2. EndStays(s)
        BY <2>0, <3>1, EndGrows
      <3>3. CASE ~Active(s) \/ exec[s].settled
        <4>1. exec'[s] = exec[s]
          BY <1>t, <3>1, <3>3 DEF SetExec
        <4> QED BY <1>1, <2>m, <3>1, <3>2, <4>1 DEF KeptKnown, EndStays
      <3>4. CASE Active(s) /\ ~exec[s].settled
        <4>1. StopRejects(s)
          BY <2>2, <3>4
        <4>2. exec'[s] = [exec[s] EXCEPT !.why = None]
          BY <1>t, <3>1, <3>4, <4>1 DEF SetExec, Stopping, StopRejects, StopJoins
        <4>3. exec'[s].phase = "unreleased"
          BY <1>t, <4>1, <4>2 DEF StopRejects, Entries
        <4> QED BY <1>1, <2>m, <3>1, <3>2, <4>3 DEF KeptKnown, EndStays
      <3> QED BY <3>3, <3>4
    <2>3. CASE ~(launch[s].held /\ launch[s].step \in {"waiting", "skipped"})
               /\ ~(~Active(s) \/ exec[s].settled \/ StopRejects(s))
      <3>1. mark(TRUE) /\ Step(c, "stop", s) /\ SetExec(s, Stopping(s))
        BY <1>6, <2>3 DEF CancelBegins
      <3>2. StopOwned(s)' /\ Cancelling(s)'
        BY <1>s, <3>1 DEF StopOwned, Cancelling
      <3>3. exec'[s] = Stopping(s)
        BY <1>t, <3>1 DEF SetExec
      <3>4. exec'[s].phase = "releasing" /\ (exec'[s].why = "stop" \/ exec'[s] = exec[s])
        <4>1. CASE StopJoins(s)
          BY <1>t, <2>3, <3>3, <4>1 DEF Stopping, StopJoins, Active
        <4>2. CASE ~StopJoins(s)
          <5>1. exec'[s] = [exec[s] EXCEPT !.phase = "releasing", !.why = "stop"]
            BY <2>3, <3>3, <4>2 DEF Stopping
          <5> QED BY <1>t, <5>1 DEF Entries
        <4> QED BY <4>1, <4>2
      <3> QED BY <1>1, <2>m, <2>q, <3>1, <3>2, <3>4 DEF KeptKnown
    <2> QED BY <2>1, <2>2, <2>3
  <1>7. CASE InterruptFails(c)
    <2>1. EndStays(s)
      BY <1>2, <1>7 DEF InterruptFails
    <2>2. UNCHANGED <<exec, launch>>
      BY <1>7 DEF InterruptFails
    <2> QED BY <1>1, <2>1, <2>2 DEF KeptKnown, EndStays
  <1>8. CASE InterruptRejected(c) /\ ctl[c].run = s
    <2> DEFINE e == [exec[s] EXCEPT !.phase = "turn"]
    <2>1. e.phase = "turn" /\ e.start = exec[s].start /\ SetExec(s, e) /\ UNCHANGED launch
          /\ exec[s].phase = "interrupting"
      BY <1>t, <1>8 DEF InterruptRejected, Entries
    <2>2. EndStays(s)
      BY <1>2, <1>8 DEF InterruptRejected
    <2> HIDE DEF e
    <2> QED BY <1>e, <2>1, <2>2
  <1>9. CASE CancelReleased(c) /\ ctl[c].run = s
    <2>0. exec[s].phase # "releasing" /\ ctl[c].step = "stop" /\ UNCHANGED exec
      BY <1>9 DEF CancelReleased
    <2>1. CASE Active(s)
      <3>1. launch' = [launch EXCEPT ![s].cancelled = IF launch[s].held THEN FALSE ELSE @]
            /\ UNCHANGED events
        BY <1>9, <2>1 DEF CancelReleased
      <3>2. /\ launch'[s].step = launch[s].step /\ launch'[s].held = launch[s].held
            /\ launch'[s].cancelled <=> ~launch[s].held /\ launch[s].cancelled
        BY <1>t, <3>1 DEF Launches
      <3>3. \A kinds : Queued(s, kinds)' <=> Queued(s, kinds)
        BY <3>1 DEF Queued
      <3>4. exec[s].phase # "absent"
        BY <2>1 DEF Active
      <3> QED BY <1>1, <2>0, <3>2, <3>3, <3>4 DEF KeptKnown
    <2>2. CASE ~Active(s)
      <3>1. /\ Step(c, "join", s) /\ UNCHANGED launch
            /\ UNCHANGED events \/ \E e : events' = Append(events, e)
        BY <1>9, <2>2 DEF CancelReleased, Emitted
      <3>2. Cancelling(s)'
        BY <1>s, <3>1 DEF Cancelling
      <3>3. \A i \in 1..Len(events) : i \in 1..Len(events') /\ events'[i] = events[i]
        BY <1>t, <3>1
      <3>4. \A kinds : Queued(s, kinds) => Queued(s, kinds)'
        BY <3>3 DEF Queued
      <3> QED BY <1>1, <2>0, <3>1, <3>2, <3>4 DEF KeptKnown
    <2> QED BY <2>1, <2>2
  <1>10. CASE CancelJoined(c) /\ ctl[c].run = s
    <2>1. /\ ctl[c].step = "join" /\ launch' = [launch EXCEPT ![s].held = FALSE]
          /\ events' = Append(events, Event("cancel", s, None, c))
          /\ Step(c, "apply", s) /\ UNCHANGED exec
      BY <1>10 DEF CancelJoined
    <2>2. launch'[s].step = launch[s].step /\ launch'[s].cancelled = launch[s].cancelled
      BY <1>t, <2>1 DEF Launches
    <2>3. Queued(s, {"cancel"})' /\ Queued(s, Ending)'
      <3>1. PICK e : e = Event("cancel", s, None, c)
        OBVIOUS
      <3>2. Len(events) + 1 \in 1..Len(events') /\ events'[Len(events) + 1] = e
        BY <1>t, <2>1, <3>1
      <3>3. e.run = s /\ e.kind = "cancel"
        BY <3>1 DEF Event
      <3> QED BY <3>2, <3>3 DEF Queued, Ending
    <2>4. StopOwned(s) => StopOwned(s)'
      <3>1. \A k \in Controls : ctl[k].step = "stop" => ctl'[k] = ctl[k]
        BY <1>s, <2>1
      <3> QED BY <3>1 DEF StopOwned
    <2> QED BY <1>1, <2>1, <2>2, <2>3, <2>4 DEF KeptKnown
  <1> QED BY <1>3, <1>4, <1>5, <1>6, <1>7, <1>8, <1>9, <1>10 DEF Concerns

\* Launch, capture and delivery of the Run.
LEMMA RunStepKeepsKnown ==
    ASSUME TypeOK, RowInvariant, [Next]_vars, LifecycleKnown, ~closed, NEW s \in Runs,
           StartKnown(s),
           EntryKnown(s), Kept(s), KeptKnown(s), RunStep(s)
    PROVE  KeptKnown(s)'
  <1> USE DEF tables, files, tasks, executor, invocations
  <1>t. /\ exec \in [Runs -> Entries] /\ launch \in [Runs -> Launches] /\ launch[s] \in Launches
        /\ exec[s] \in Entries /\ EntryTells(exec[s], launch[s], native[s])
        /\ capture \in [Runs -> {"none", "copying", "aborted"}] /\ row \in [Runs -> Rows]
    BY DEF TypeOK, EntryKnown
  <1>0. UNCHANGED <<events, ctl>>
    BY RunLeaves
  <1>1. EndStays(s)
    BY <1>0, EndGrows
  <1>2. Unfinished(s)' => Unfinished(s)
    BY UnfinishedBefore DEF Kept, Exists
  <1>3. Conv(s) \notin deleting
    BY DEF LifecycleKnown, Kept
  <1>f. ASSUME Terminate(s, "failed") \/ Terminate(s, "completed") PROVE ~Unfinished(s)'
    BY <1>f, <1>t DEF Terminate, Settled, Unfinished, Kept, Exists, Rows
  <1>4. CASE LaunchBegins(s)
    <2>0. UNCHANGED capture /\ launch[s].step = "waiting" /\ exec[s].phase = "absent"
      BY <1>4 DEF LaunchBegins, StartKnown
    <2>1. CASE LaunchCancelled(s)
      <3>1. launch' = [launch EXCEPT ![s] = [@ EXCEPT !.step = "skipped", !.cancelled = TRUE]]
            /\ UNCHANGED exec
        BY <1>4, <2>1 DEF LaunchBegins
      <3>2. launch'[s].step = "skipped" /\ launch'[s].held = launch[s].held
        BY <1>t, <3>1 DEF Launches
      <3>3. launch[s].cancelled
        BY <1>3, <2>1 DEF LaunchCancelled
      <3> QED BY <1>1, <1>2, <2>0, <3>1, <3>2, <3>3 DEF KeptKnown, EndStays
    <2>2. CASE ~LaunchCancelled(s) /\ row[s].completed
      <3>1. launch' = [launch EXCEPT ![s] = [@ EXCEPT !.step = "skipped", !.held = FALSE]]
            /\ UNCHANGED exec
        BY <1>4, <2>2 DEF LaunchBegins
      <3>2. ~Unfinished(s)
        BY <2>2 DEF Unfinished
      <3> QED BY <1>1, <1>2, <2>0, <3>1, <3>2 DEF KeptKnown, EndStays
    <2>3. CASE ~LaunchCancelled(s) /\ ~row[s].completed
      <3>1. launch' = [launch EXCEPT ![s] = [@ EXCEPT !.step = "started"]]
            /\ SetExec(s, Preparing(FALSE))
        BY <1>4, <2>3 DEF LaunchBegins
      <3>2. exec'[s].phase = "preparing"
        BY <1>t, <3>1 DEF SetExec, Preparing, AbsentExec
      <3>3. ~launch'[s].cancelled
        BY <1>t, <2>3, <3>1 DEF Launches, LaunchCancelled
      <3> QED BY <1>1, <1>2, <2>0, <3>2, <3>3 DEF KeptKnown, EndStays
    <2> QED BY <2>1, <2>2, <2>3
  <1>5. CASE LaunchRefused(s)
    <2>1. launch' = [launch EXCEPT ![s] = [@ EXCEPT !.step = "skipped", !.held = FALSE]]
          /\ UNCHANGED <<exec, capture>> /\ Terminate(s, "failed") /\ launch[s].step = "waiting"
      BY <1>5 DEF LaunchRefused
    <2>2. exec[s].phase = "absent"
      BY <2>1 DEF StartKnown
    <2> QED BY <1>1, <1>f, <2>1, <2>2 DEF KeptKnown, EndStays
  <1>6. CASE LaunchEnds(s)
    <2> DEFINE e == [exec[s] EXCEPT !.start = "none"]
    <2>1. SetExec(s, e) /\ UNCHANGED capture /\ launch[s].step = "started"
          /\ launch' = [launch EXCEPT ![s].step = "ended",
                               ![s].held = launch[s].held /\ launch[s].cancelled]
      BY <1>6 DEF LaunchEnds
    <2>2. e.phase = exec[s].phase /\ e.why = exec[s].why
      BY <1>t DEF Entries
    <2> HIDE DEF e
    <2>3. exec'[s].phase = exec[s].phase /\ exec'[s].why = exec[s].why
      BY <1>t, <2>1, <2>2 DEF SetExec
    <2>4. /\ launch'[s].cancelled = launch[s].cancelled
          /\ launch'[s].held <=> launch[s].held /\ launch[s].cancelled
      BY <1>t, <2>1 DEF Launches
    <2>5. CASE ~Unfinished(s)'
      BY <1>1, <2>1, <2>3, <2>4, <2>5 DEF KeptKnown, EndStays
    <2>6. CASE Unfinished(s)'
      <3>1. ~(exec[s].start = "failed" /\ ~LaunchCancelled(s))
        BY <1>6, <1>f, <2>6 DEF LaunchEnds
      <3>2. exec[s].start = "ok" \/ launch[s].cancelled
        BY <1>6, <1>3, <3>1 DEF LaunchEnds, LaunchCancelled
      <3>3. Queued(s, {"cancel"}) => Queued(s, Ending)
        BY DEF Queued, Ending
      <3>4. exec[s].phase = "absent" => capture[s] # "none" \/ Cancelling(s) \/ Queued(s, Ending)
        BY <1>2, <2>1, <2>6, <3>2, <3>3 DEF KeptKnown
      <3> QED BY <1>1, <1>2, <2>1, <2>3, <2>4, <3>4 DEF KeptKnown, EndStays
    <2> QED BY <2>5, <2>6
  <1>7. ASSUME NEW status \in {"completed", "failed"}, CaptureEnds(s, status) PROVE KeptKnown(s)'
    <2>1. UNCHANGED <<exec, launch>> /\ capture' = [capture EXCEPT ![s] = "none"]
      BY <1>7 DEF CaptureEnds
    <2>2. Terminate(s, status)
      BY <1>3, <1>7 DEF CaptureEnds, KeptKnown
    <2>3. ~Unfinished(s)'
      BY <1>f, <2>2
    <2>4. capture'[s] # "aborted"
      BY <1>t, <2>1
    <2> QED BY <1>1, <2>1, <2>3, <2>4 DEF KeptKnown, EndStays
  <1>8. CASE RetryDelivery(s) \/ \E acknowledged \in BOOLEAN : AttemptEnds(s, acknowledged)
    <2>1. UNCHANGED <<exec, launch, capture>>
      BY <1>8 DEF RetryDelivery, AttemptEnds
    <2> QED BY <1>1, <1>2, <2>1 DEF KeptKnown, EndStays
  <1> QED BY <1>4, <1>5, <1>6, <1>7, <1>8 DEF RunStep

\* The next closure, when it is one of the Run.
LEMMA ClosureKeepsKnown ==
    ASSUME TypeOK, RowInvariant, [Next]_vars, ClosuresOwned, LifecycleKnown, ~closed,
           NEW s \in Runs,
           Kept(s), KeptKnown(s), RunNextEvent, NextEvent.run = s
    PROVE  KeptKnown(s)'
  <1> USE DEF files, executor
  <1>t. /\ row \in [Runs -> Rows] /\ capture \in [Runs -> {"none", "copying", "aborted"}]
        /\ events \in Seq(QueuedEvents) /\ events # <<>> /\ events' = Tail(events)
    BY DEF TypeOK, RunNextEvent
  <1>1. UNCHANGED <<launch, exec>>
    BY DEF RunNextEvent
  <1>2. Unfinished(s)' => Unfinished(s)
    BY UnfinishedBefore DEF Kept, Exists
  <1>3. PICK e \in QueuedEvents : e = NextEvent /\ e = Head(events) /\ e.run = s
    BY <1>t DEF NextEvent
  <1>k. e.kind \in ExecutorEvents \cup ControlEvents
    BY DEF QueuedEvents
  <1>4. (Cancelling(s) => Cancelling(s)') /\ (StopOwned(s) => StopOwned(s)')
    <2>1. \A c \in Controls : ctl[c].step \in {"stop", "join"} => ctl'[c] = ctl[c]
      BY ClosureRuns
    <2> QED BY <2>1 DEF Cancelling, StopOwned
  <1>5. \A kinds : Queued(s, kinds) /\ e.kind \notin kinds => Queued(s, kinds)'
    BY <1>3, <1>t, QueuedStays
  <1>f. ASSUME NEW status, Terminate(s, status) PROVE ~Unfinished(s)'
    BY <1>f, <1>t DEF Terminate, Settled, Unfinished, Kept, Exists, Rows
  <1>6. CASE e.kind \in {"failed", "cancelled", "cancel"} /\ Unfinished(s)
    <2>1. \E status : Terminate(s, status) /\ UNCHANGED capture
      <3>1. CASE e.kind = "cancel"
        BY <1>3, <3>1 DEF RunNextEvent, ApplyControl, ExecutorEvents, Outcomes
      <3>2. CASE e.kind \in {"failed", "cancelled"}
        <4>1. ApplyExecutorEvent(e)
          BY <1>3, <3>2 DEF RunNextEvent, ExecutorEvents, Outcomes
        <4>2. Terminate(s, e.kind) /\ UNCHANGED capture
          BY <1>3, <1>6, <3>2, <4>1 DEF ApplyExecutorEvent, Kept, Unfinished
        <4> QED BY <4>2
      <3> QED BY <1>6, <3>1, <3>2
    <2> QED BY <1>1, <1>4, <1>f, <2>1 DEF KeptKnown
  <1>7. CASE e.kind = "completed" /\ Unfinished(s)
    <2>1. ApplyExecutorEvent(NextEvent)
      BY <1>3, <1>7 DEF RunNextEvent, ExecutorEvents, Outcomes
    <2>2. capture' = [capture EXCEPT ![s] = IF @ = "none" THEN "copying" ELSE @]
      BY <1>3, <1>7, <2>1 DEF ApplyExecutorEvent, Completes, LifecycleKnown, Kept, Unfinished
    <2>3. capture'[s] # "none" /\ capture'[s] # "aborted"
      BY <1>t, <2>2 DEF KeptKnown
    <2>4. Queued(s, {"cancel"}) => Queued(s, {"cancel"})'
      BY <1>5, <1>7
    <2> QED BY <1>1, <1>2, <1>4, <2>3, <2>4 DEF KeptKnown
  <1>8. CASE e.kind \notin Ending /\ Unfinished(s)
    <2>1. UNCHANGED capture
      <3>1. CASE e.kind \in ExecutorEvents
        BY <1>3, <1>8, <3>1 DEF RunNextEvent, ApplyExecutorEvent, Ending, Outcomes
      <3>2. CASE e.kind \notin ExecutorEvents
        BY <1>3, <3>2 DEF RunNextEvent
      <3> QED BY <3>1, <3>2
    <2>2. /\ Queued(s, {"cancel"}) => Queued(s, {"cancel"})'
          /\ Queued(s, Ending) => Queued(s, Ending)'
      BY <1>5, <1>8 DEF Ending
    <2> QED BY <1>1, <1>2, <1>4, <2>1, <2>2 DEF KeptKnown
  <1>9. CASE ~Unfinished(s)
    <2>1. capture'[s] # "aborted"
      <3>1. CASE e.kind \in ExecutorEvents
        BY <1>3, <1>t, <3>1 DEF RunNextEvent, ApplyExecutorEvent, Completes, KeptKnown
      <3>2. CASE e.kind \notin ExecutorEvents
        BY <1>3, <3>2 DEF RunNextEvent, KeptKnown
      <3> QED BY <3>1, <3>2
    <2> QED BY <1>1, <1>2, <1>4, <1>9, <2>1 DEF KeptKnown
  <1> QED BY <1>k, <1>6, <1>7, <1>8, <1>9 DEF Ending, Outcomes

\* Recovery of the Run.
LEMMA RecoveryKeepsKnown ==
    ASSUME TypeOK, RowInvariant, [Next]_vars, LifecycleKnown, NEW s \in Runs, StartKnown(s),
           EntryKnown(s), Kept(s), KeptKnown(s),
           \/ RestoreBegins /\ s = First(recovering.todo)
           \/ RestoreEnds /\ s = recovering.current
    PROVE  KeptKnown(s)'
  <1> USE DEF tables, files, tasks, executor, invocations, recoveryOthers
  <1>t. /\ exec \in [Runs -> Entries] /\ exec[s] \in Entries /\ recovering \in RecoveryTasks
        /\ EntryTells(exec[s], launch[s], native[s])
    BY DEF TypeOK, EntryKnown
  <1>0. UNCHANGED <<events, ctl, capture, launch>>
    BY DEF RestoreBegins, RestoreEnds
  <1>1. EndStays(s)
    BY <1>0, EndGrows
  <1>2. launch[s].step = "none" /\ ~launch[s].cancelled
    <2>1. CASE RestoreBegins /\ s = First(recovering.todo)
      <3>1. s \in recovering.todo
        BY <1>t, <2>1, FirstIsMember DEF RestoreBegins, RecoveryTasks
      <3> QED BY <1>t, <3>1 DEF StartKnown, EntryTells
    <2>2. CASE RestoreEnds /\ s = recovering.current
      BY <1>t, <2>2 DEF LifecycleKnown, EntryTells
    <2> QED BY <2>1, <2>2
  <1>3. \/ UNCHANGED exec \/ SetExec(s, Preparing(TRUE))
        \/ SetExec(s, [exec[s] EXCEPT !.start = "none"])
    BY DEF RestoreBegins, RestoreEnds
  <1>4. UNCHANGED exec \/ exec'[s].phase = "preparing"
        \/ (exec'[s].phase = exec[s].phase /\ exec'[s].why = exec[s].why)
    <2>1. CASE SetExec(s, Preparing(TRUE))
      BY <1>t, <2>1 DEF SetExec, Preparing, AbsentExec
    <2>2. CASE SetExec(s, [exec[s] EXCEPT !.start = "none"])
      <3>1. exec'[s] = [exec[s] EXCEPT !.start = "none"]
        BY <1>t, <2>2 DEF SetExec
      <3> QED BY <1>t, <3>1 DEF Entries
    <2> QED BY <1>3, <2>1, <2>2
  <1> QED BY <1>0, <1>1, <1>2, <1>4 DEF KeptKnown, EndStays

\* A Run that is admitted, and one that a restart leaves.
LEMMA AdmitKeepsKnown ==
    ASSUME TypeOK, NEW s \in Runs, StartKnown(s), CapturesStopped, row[s].status = "absent",
           Kept(s)', NEW d \in Delegations, Admit(d)
    PROVE  KeptKnown(s)'
  <1> USE DEF executor
  <1>t. row \in [Runs -> Rows] /\ launch \in [Runs -> Launches]
    BY DEF TypeOK
  <1> DEFINE fresh == {r \in Runs : row[r].status = "absent"}
  <1>1. fresh # {}
    BY DEF Admit
  <1>2. PICK n \in Runs : n = First(fresh)
    BY <1>1, FirstIsMember
  <1>3. /\ \E x : row' = [row EXCEPT ![n] = x]
        /\ launch' = [launch EXCEPT
                ![n] = [step |-> "waiting", held |-> TRUE, cancelled |-> FALSE]]
        /\ UNCHANGED <<exec, capture>>
    BY <1>2 DEF Admit
  <1>4. n = s
    <2>1. row'[s].status # "absent"
      BY DEF Kept, Exists
    <2> QED BY <1>t, <1>3, <2>1
  <1>5. exec[s].phase = "absent" /\ capture[s] = "none"
    BY DEF StartKnown, CapturesStopped, Gone, Ended
  <1> QED BY <1>t, <1>3, <1>4, <1>5 DEF KeptKnown

\* After a restart no launch is over and nothing is on its way.
LEMMA RestartKeepsKnown ==
    ASSUME Restart, NEW s \in Runs
    PROVE  KeptKnown(s)'
  <1>1. exec'[s] = AbsentExec /\ launch'[s] = IdleLaunch /\ capture'[s] = "none"
    BY DEF Restart
  <1> QED BY <1>1 DEF KeptKnown, AbsentExec, IdleLaunch

\* A Run of a conversation that nobody deletes was one before, or is admitted.
LEMMA KeptBefore ==
    ASSUME TypeOK, RowInvariant, [Next]_vars, NEW s \in Runs, Kept(s)'
    PROVE  Kept(s) \/ row[s].status = "absent"
  <1>t. row \in [Runs -> Rows]
    BY DEF TypeOK
  <1>1. CASE RowsMove
    BY <1>1 DEF RowsMove, Moves, Kept, Exists, Conv
  <1>2. ASSUME NEW n \in Runs, Inserts(n) PROVE Kept(s) \/ row[s].status = "absent"
    <2>1. CASE s = n
      BY <1>2, <2>1 DEF Inserts
    <2>2. CASE s # n
      <3>1. row'[s] = row[s]
        BY <1>t, <1>2, <2>2 DEF Inserts
      <3> QED BY <3>1 DEF Kept, Exists, Conv
    <2> QED BY <2>1, <2>2
  <1>3. ASSUME NEW c \in Conversations, Deletes(RunsOf(c)) PROVE Kept(s)
    <2>1. row'[s] = row[s] \/ row'[s] = [row[s] EXCEPT !.status = "deleted"]
      BY <1>3 DEF Deletes
    <2>2. row'[s].status # "deleted"
      BY DEF Kept, Exists
    <2>3. row'[s] = row[s]
      BY <1>t, <2>1, <2>2 DEF Rows
    <2> QED BY <2>3 DEF Kept, Exists, Conv
  <1> QED BY <1>1, <1>2, <1>3, TableStep

\* A step of the open service is one of the Run itself, or leaves it alone.
LEMMA OwnOrUndisturbed ==
    ASSUME TypeOK, RowInvariant, ClosuresOwned, LifecycleKnown, [Next]_vars, NEW s \in Runs,
           Kept(s),
           ~closed', ~Restart
    PROVE  Own(s) \/ Undisturbed(s)
  <1>1. CASE UNCHANGED vars
    BY <1>1 DEF vars, Undisturbed, QueueOfOthers
  <1>2. CASE \E d \in Delegations : \/ \E q \in Calls : Delegate(d, q)
                                    \/ Admit(d) \/ AdmissionRefused(d)
    BY <1>2, AdmissionOfOther DEF Kept, Exists
  <1>3. ASSUME NEW r \in Runs, RunStep(r) \/ ExecutorStep(r) PROVE Own(s) \/ Undisturbed(s)
    BY <1>3, RunStepOfOther, ExecutorOfOther DEF Own
  <1>4. CASE RunNextEvent
    BY <1>4, ClosureOfOther DEF Own
  <1>5. ASSUME NEW c \in Controls, ControlStep(c) PROVE Own(s) \/ Undisturbed(s)
    BY <1>5, ControlOfOther DEF Own
  <1>6. ~CloseStep
    BY CloseMeansClosed
  <1>7. ASSUME NEW c \in Conversations, DeleteStep(c) PROVE Undisturbed(s)
    BY <1>7, DeletionOfOther
  <1>8. CASE RecoveryStep
    BY <1>8, RecoveryOfOther DEF Own
  <1> QED BY <1>1, <1>2, <1>3, <1>4, <1>5, <1>6, <1>7, <1>8 DEF Next

\* Only a restart opens the service again.
LEMMA StaysClosed ==
    ASSUME LifecycleKnown, [Next]_vars, closed
    PROVE  closed' \/ Restart
  <1> USE DEF lifecycle, outsideExecutor
  <1>1. CASE UNCHANGED vars
    BY <1>1 DEF vars
  <1>2. CASE \E d \in Delegations : \/ \E q \in Calls : Delegate(d, q)
                                    \/ Admit(d) \/ AdmissionRefused(d)
    BY <1>2 DEF Delegate, Admit, AdmissionRefused, AdmissionSettles
  <1>3. CASE \E x \in Runs : RunStep(x)
    BY <1>3, RunLeaves
  <1>4. CASE \E x \in Runs : ExecutorStep(x)
    BY <1>4, ExecutorLeaves
  <1>5. CASE RunNextEvent
    BY <1>5 DEF RunNextEvent
  <1>6. CASE \E c \in Controls : ControlStep(c)
    BY <1>6, ControlLeaves
  <1>7. CASE CloseStep
    BY <1>7, CloseMeansClosed
  <1>8. CASE \E c \in Conversations : DeleteStep(c)
    BY <1>8, DeleteLeaves
  <1>9. CASE RecoveryStep
    BY <1>9, RecoveryLeaves
  <1> QED BY <1>1, <1>2, <1>3, <1>4, <1>5, <1>6, <1>7, <1>8, <1>9 DEF Next

\* Only an admission makes a Run exist.
LEMMA AdmitInserts ==
    ASSUME TypeOK, RowInvariant, [Next]_vars, NEW s \in Runs, row[s].status = "absent",
           row'[s].status # "absent"
    PROVE  \E d \in Delegations : Admit(d)
  <1> USE DEF tables, outsideExecutor
  <1>m. ~RowsMove
    BY DEF RowsMove, Moves
  <1>0. row' # row
    OBVIOUS
  <1>1. ~UNCHANGED vars
    BY <1>0 DEF vars
  <1>2. ~\E d \in Delegations : (\E q \in Calls : Delegate(d, q)) \/ AdmissionRefused(d)
    BY <1>0 DEF Delegate, AdmissionRefused
  <1>3. /\ ~\E x \in Runs : RunStep(x) \/ ExecutorStep(x)
        /\ ~RunNextEvent /\ ~RecoveryStep /\ ~CloseStep /\ ~\E c \in Controls : ControlStep(c)
    BY <1>m, RunStepKeeps, ExecutorKeeps, QueueKeeps, RecoveryKeeps, CloseKeeps, ControlKeeps
  <1>4. ASSUME NEW c \in Conversations, DeleteStep(c) PROVE FALSE
    <2>1. CASE DeleteEnds(c)
      <3>1. s \notin RunsOf(c)
        BY DEF RunsOf, Exists
      <3> QED BY <2>1, <3>1 DEF DeleteEnds
    <2>2. CASE ~DeleteEnds(c)
      BY <1>4, <1>m, <2>2, DeleteMoves
    <2> QED BY <2>1, <2>2
  <1>5. ~Restart
    BY <1>0 DEF Restart
  <1> QED BY <1>1, <1>2, <1>3, <1>4, <1>5 DEF Next

\* Every step keeps it.
LEMMA StepKeepsKnown ==
    ASSUME TypeOK, RowInvariant, WorkerInvariant, \A r \in Runs : EntryKnown(r), ClosuresOwned,
           LifecycleKnown, RunsKnown, [Next]_vars
    PROVE  RunsKnown'
  <1> SUFFICES ASSUME NEW s \in Runs, Kept(s)', ~closed' PROVE KeptKnown(s)'
    BY DEF RunsKnown
  <1>w. StartKnown(s) /\ EntryKnown(s) /\ CapturesStopped
    BY DEF WorkerInvariant, StopKnown
  <1>1. CASE Restart
    BY <1>1, RestartKeepsKnown
  <1>2. CASE row[s].status = "absent"
    <2>1. row'[s].status # "absent"
      BY DEF Kept, Exists
    <2> QED BY <1>2, <1>w, <2>1, AdmitInserts, AdmitKeepsKnown
  <1>3. CASE ~Restart /\ row[s].status # "absent"
    <2>1. Kept(s)
      BY <1>3, KeptBefore
    <2>2. ~closed
      BY <1>3, StaysClosed
    <2>3. KeptKnown(s)
      BY <2>1, <2>2 DEF RunsKnown
    <2>4. CASE Undisturbed(s)
      BY <2>3, <2>4, UndisturbedKnown
    <2>5. CASE Own(s)
      BY <1>w, <2>1, <2>2, <2>3, <2>5, RunStepKeepsKnown, ExecutorKeepsKnown, ClosureKeepsKnown,
         ControlKeepsKnown, RecoveryKeepsKnown DEF Own
    <2> QED BY <1>3, <2>1, <2>4, <2>5, OwnOrUndisturbed
  <1> QED BY <1>1, <1>2, <1>3

\* A Run whose launch is over is settled, unless something will settle it.
LEMMA KnownSettles ==
    ASSUME \A r \in Runs : EntryKnown(r), RunsKnown
    PROVE  FinishedWorkerSettles
  <1> SUFFICES ASSUME NEW r \in Runs, Unfinished(r), Kept(r), Quiet(r), launch[r].step = "ended",
                      ~Active(r), capture[r] = "none"
               PROVE  FALSE
    BY DEF FinishedWorkerSettles
  <1>1. KeptKnown(r) /\ EntryTells(exec[r], launch[r], native[r])
    BY DEF RunsKnown, EntryKnown, Quiet
  <1>2. exec[r].phase = "absent" /\ exec[r].start = "none"
    BY <1>1 DEF EntryTells, Active
  <1>3. ~Cancelling(r) /\ ~Queued(r, Ending)
    BY DEF Quiet, Cancelling, Queued
  <1> QED BY <1>1, <1>2, <1>3 DEF KeptKnown

--------------------
(* The row follows the worker *)

\* Without a queue the row itself has to agree.
LEMMA EmptyFollows ==
    ASSUME TypeOK', NEW s \in Runs, events' = <<>>, Tells(s, row[s])'
    PROVE  RowFollows(s)'
  <1>1. PICK x \in Rows : x = row'[s]
    BY DEF TypeOK
  <1>2. Replay(<<>>, s, x, x)
    BY ReplayEmpty
  <1>3. Tells(s, x)'
    BY <1>1 DEF Tells
  <1>4. Replay(events', s, row'[s], x)
    BY <1>1, <1>2
  <1> QED BY <1>3, <1>4 DEF RowFollows

\* Without anything in the queue, the row itself agrees.
LEMMA IdleTells ==
    ASSUME TypeOK, NEW s \in Runs, RowFollows(s), QueueIdle
    PROVE  Tells(s, row[s])
  <1>1. PICK x \in Rows : Replay(events, s, row[s], x) /\ Tells(s, x)
    BY DEF RowFollows
  <1>2. events \in Seq(QueuedEvents) /\ row[s] \in Rows /\ events = <<>>
    BY DEF TypeOK, QueueIdle
  <1>3. x = row[s]
    <2>1. \A i \in 1..Len(events) : events[i].run # s
      BY <1>2
    <2> QED BY <1>1, <1>2, <2>1, ReplayNone
  <1> QED BY <1>1, <1>3 DEF Tells

\* A row that does not change, and a closure that is added.
LEMMA AddedFollows ==
    ASSUME TypeOK, NEW s \in Runs, row'[s] = row[s], NEW x \in Rows, Replay(events, s, row[s], x),
           NEW e \in QueuedEvents, events' = Append(events, e), Tells(s, Apply(e, s, x))'
    PROVE  RowFollows(s)'
  <1>1. events \in Seq(QueuedEvents) /\ row[s] \in Rows
    BY DEF TypeOK
  <1>2. PICK y \in Rows : y = Apply(e, s, x)
    BY AfterType DEF Apply
  <1>3. Replay(events', s, row'[s], y)
    BY <1>1, <1>2, ReplayAppend
  <1>4. Tells(s, y)'
    BY <1>2
  <1> QED BY <1>3, <1>4 DEF RowFollows

\* Neither the row nor the queue changes.
LEMMA SameFollows ==
    ASSUME NEW s \in Runs, row'[s] = row[s], UNCHANGED events, NEW x \in Rows,
           Replay(events, s, row[s], x), Tells(s, x)'
    PROVE  RowFollows(s)'
  BY DEF RowFollows

\* A worker that no row has to agree with.
LEMMA AnyRowFollows ==
    ASSUME TypeOK, NEW s \in Runs, RowFollows(s), row'[s] = row[s],
           UNCHANGED events \/ \E e \in QueuedEvents : events' = Append(events, e),
           launch'[s].step # "waiting",
           exec'[s].phase \in {"preparing", "opening"} => exec'[s].restoring,
           exec'[s].phase \notin {"turn", "interrupting", "paused"}
    PROVE  RowFollows(s)'
  <1>1. \A y : Tells(s, y)'
    BY DEF Tells
  <1>2. PICK x \in Rows : Replay(events, s, row[s], x)
    BY DEF RowFollows
  <1> QED BY <1>1, <1>2, SameFollows, AddedFollows

\* A Run that a step leaves alone: the queue may move on for others.
LEMMA UndisturbedFollows ==
    ASSUME TypeOK, NEW s \in Runs, Undisturbed(s), RowFollows(s)
    PROVE  RowFollows(s)'
  <1>1. PICK x \in Rows : Replay(events, s, row[s], x) /\ Tells(s, x)
    BY DEF RowFollows
  <1>2. row'[s] = row[s] /\ Tells(s, x)'
    BY <1>1 DEF Undisturbed, Tells
  <1>3. CASE UNCHANGED events
    BY <1>1, <1>2, <1>3, SameFollows
  <1>4. ASSUME NEW e \in QueuedEvents, e.run # s, events' = Append(events, e)
        PROVE  RowFollows(s)'
    <2>1. Apply(e, s, x) = x
      BY <1>4 DEF Apply
    <2>2. Tells(s, Apply(e, s, x))'
      BY <1>2, <2>1
    <2> QED BY <1>1, <1>2, <1>4, <2>2, AddedFollows
  <1>5. CASE events # <<>> /\ Head(events).run # s /\ events' = Tail(events)
    <2>1. events \in Seq(QueuedEvents) /\ row[s] \in Rows
      BY DEF TypeOK
    <2>2. Replay(Tail(events), s, Apply(Head(events), s, row[s]), x)
      BY <1>1, <1>5, <2>1, ReplayTail
    <2>3. Apply(Head(events), s, row[s]) = row[s]
      BY <1>5 DEF Apply
    <2> QED BY <1>2, <1>5, <2>2, <2>3 DEF RowFollows
  <1> QED BY <1>3, <1>4, <1>5 DEF Undisturbed, QueueOfOthers

\* The row after the next closure of the Run.
LEMMA RowAfter ==
    ASSUME TypeOK, RunNextEvent, LifecycleKnown, ~closed, NEW s \in Runs, Kept(s),
           NEW e \in QueuedEvents, e = NextEvent, e.run = s
    PROVE  row'[s] = After(e, row[s])
  <1>t. row \in [Runs -> Rows] /\ row[s] \in Rows /\ Exists(s) /\ Conv(s) \notin deleting
        /\ (Unfinished(s) <=> row[s].status \in ResourceStatuses /\ ~row[s].completed)
    BY DEF TypeOK, Kept, LifecycleKnown, Unfinished
  <1>k. e.kind \in ExecutorEvents \cup ControlEvents
    BY DEF QueuedEvents
  <1>x. /\ e.kind \in ExecutorEvents => ApplyExecutorEvent(e)
        /\ e.kind \notin ExecutorEvents => ApplyControl(e)
    BY DEF RunNextEvent
  <1>f. ASSUME NEW status, Terminate(s, status), ~row[s].completed
        PROVE  row'[s] = [row[s] EXCEPT !.status = status, !.permission = None, !.completed = TRUE]
    BY <1>f, <1>t DEF Terminate, Settled
  <1>s. \A status, permission : SetRow(s, status, permission) =>
          row'[s] = [row[s] EXCEPT !.status = status, !.permission = permission]
    BY <1>t DEF SetRow, Rows
  <1>1. CASE row[s].completed
    <2>1. After(e, row[s]) = row[s]
      BY <1>1 DEF After
    <2>2. UNCHANGED row
      BY <1>1, <1>k, <1>t, <1>x DEF ApplyExecutorEvent, ApplyControl, Terminate, Pauses, Resumes,
         Responds
    <2> QED BY <2>1, <2>2
  <1>2. CASE ~row[s].completed /\ e.kind = "started"
    <2>1. Starts(s)
      BY <1>2, <1>t, <1>x DEF ApplyExecutorEvent, ExecutorEvents, Outcomes
    <2>2. After(e, row[s]) = IF row[s].status = "enqueued" THEN [row[s] EXCEPT !.status = "running"]
                             ELSE row[s]
      BY <1>2 DEF After
    <2>3. CASE row[s].status = "enqueued"
      <3>1. PICK p : p = row[s].permission
        OBVIOUS
      <3>2. row' = [row EXCEPT ![s].status = "running", ![s].permission = p]
        BY <2>1, <2>3, <3>1 DEF Starts, SetRow
      <3>3. row'[s] = [row[s] EXCEPT !.status = "running", !.permission = p]
        BY <1>t, <3>2 DEF Rows
      <3>4. \A x \in Rows : [x EXCEPT !.status = "running", !.permission = x.permission]
                             = [x EXCEPT !.status = "running"]
        BY DEF Rows
      <3> QED BY <1>t, <2>2, <2>3, <3>1, <3>3, <3>4
    <2>4. CASE row[s].status # "enqueued"
      BY <2>1, <2>2, <2>4 DEF Starts
    <2> QED BY <2>3, <2>4
  <1>3. CASE ~row[s].completed /\ e.kind = "needs_user"
    <2>1. NeedsUser(s, e.request)
      BY <1>3, <1>t, <1>x DEF ApplyExecutorEvent, ExecutorEvents, Outcomes
    <2>2. After(e, row[s]) =
            IF row[s].status = "running"
            THEN [row[s] EXCEPT !.status = "needs_user", !.permission = e.request] ELSE row[s]
      BY <1>3 DEF After
    <2> QED BY <1>s, <2>1, <2>2 DEF NeedsUser
  <1>4. CASE ~row[s].completed /\ e.kind = "restored"
    <2>1. SetRow(s, "interrupted", None)
      BY <1>4, <1>t, <1>x DEF ApplyExecutorEvent, ExecutorEvents, Outcomes
    <2>2. After(e, row[s]) = [row[s] EXCEPT !.status = "interrupted", !.permission = None]
      BY <1>4 DEF After
    <2>3. row'[s] = [row[s] EXCEPT !.status = "interrupted", !.permission = None]
      BY <1>t, <2>1 DEF SetRow, Rows
    <2> QED BY <2>2, <2>3
  <1>5. CASE ~row[s].completed /\ e.kind = "completed"
    <2>1. Completes(s)
      BY <1>5, <1>t, <1>x DEF ApplyExecutorEvent, ExecutorEvents, Outcomes
    <2>2. UNCHANGED row
      BY <1>t, <2>1 DEF Completes
    <2> QED BY <1>5, <2>2 DEF After
  <1>6. CASE ~row[s].completed /\ e.kind \in {"failed", "cancelled"}
    <2>1. Terminate(s, e.kind)
      BY <1>6, <1>t, <1>x DEF ApplyExecutorEvent, ExecutorEvents, Outcomes
    <2> QED BY <1>6, <1>f, <2>1 DEF After
  <1>7. CASE ~row[s].completed /\ e.kind = "cancel"
    <2>1. Terminate(s, "cancelled")
      BY <1>7, <1>t, <1>x DEF ApplyControl, ExecutorEvents, Outcomes
    <2> QED BY <1>7, <1>f, <2>1 DEF After
  <1>8. CASE ~row[s].completed /\ e.kind = "interrupt"
    <2>1. Pauses(s)
      BY <1>8, <1>t, <1>x DEF ApplyControl, ExecutorEvents, Outcomes
    <2>2. After(e, row[s]) =
            IF row[s].status \in {"running", "needs_user"}
            THEN [row[s] EXCEPT !.status = "interrupted", !.permission = None] ELSE row[s]
      BY <1>8 DEF After
    <2>3. row[s].status \in {"running", "needs_user"} => Unfinished(s)
      BY <1>8, <1>t DEF ResourceStatuses
    <2> QED BY <1>s, <2>1, <2>2, <2>3 DEF Pauses
  <1>9. CASE ~row[s].completed /\ e.kind = "resume"
    <2>1. Resumes(s)
      BY <1>9, <1>t, <1>x DEF ApplyControl, ExecutorEvents, Outcomes
    <2>2. After(e, row[s]) =
            IF row[s].status = "interrupted"
            THEN [row[s] EXCEPT !.status = "running", !.permission = None] ELSE row[s]
      BY <1>9 DEF After
    <2>3. row[s].status = "interrupted" => Unfinished(s)
      BY <1>9, <1>t DEF ResourceStatuses
    <2> QED BY <1>s, <2>1, <2>2, <2>3 DEF Resumes
  <1>10. CASE ~row[s].completed /\ e.kind = "respond"
    <2>1. Responds(s, e.request)
      BY <1>10, <1>t, <1>x DEF ApplyControl, ExecutorEvents, Outcomes
    <2>2. After(e, row[s]) =
            IF row[s].status = "needs_user" /\ row[s].permission = e.request
            THEN [row[s] EXCEPT !.status = "running", !.permission = None] ELSE row[s]
      BY <1>10 DEF After
    <2>3. row[s].status = "needs_user" /\ row[s].permission = e.request => Unfinished(s)
      BY <1>10, <1>t DEF ResourceStatuses
    <2> QED BY <1>s, <2>1, <2>2, <2>3 DEF Responds
  <1> QED BY <1>k, <1>1, <1>2, <1>3, <1>4, <1>5, <1>6, <1>7, <1>8, <1>9, <1>10
       DEF ExecutorEvents, ControlEvents, Outcomes

\* A closure of the Run runs: the queue without it leads to the same row.
LEMMA ClosureFollows ==
    ASSUME TypeOK, RunNextEvent, LifecycleKnown, ~closed, NEW s \in Runs, Kept(s),
           NextEvent.run = s, RowFollows(s)
    PROVE  RowFollows(s)'
  <1> USE DEF files, executor
  <1>t. events \in Seq(QueuedEvents) /\ events # <<>> /\ events' = Tail(events) /\ row[s] \in Rows
    BY DEF TypeOK, RunNextEvent
  <1>1. PICK x \in Rows : Replay(events, s, row[s], x) /\ Tells(s, x)
    BY DEF RowFollows
  <1>2. PICK e \in QueuedEvents : e = NextEvent /\ e = Head(events)
    BY <1>t DEF NextEvent
  <1>3. row'[s] = Apply(e, s, row[s])
    BY <1>2, RowAfter DEF Apply
  <1>4. Replay(Tail(events), s, Apply(e, s, row[s]), x)
    BY <1>1, <1>2, <1>t, ReplayTail
  <1>5. UNCHANGED <<launch, exec>>
    BY DEF RunNextEvent
  <1>6. Tells(s, x)'
    BY <1>1, <1>5 DEF Tells
  <1>7. Replay(events', s, row'[s], x)
    BY <1>3, <1>4, <1>t
  <1> QED BY <1>6, <1>7 DEF RowFollows

\* The row that the queue leads to still agrees.
LEMMA StillFollows ==
    ASSUME NEW s \in Runs, RowFollows(s), row'[s] = row[s], UNCHANGED events,
           \A x \in Rows : Tells(s, x) => Tells(s, x)'
    PROVE  RowFollows(s)'
  BY SameFollows DEF RowFollows

\* The row that an added closure leads to agrees.
LEMMA NextFollows ==
    ASSUME TypeOK, NEW s \in Runs, RowFollows(s), row'[s] = row[s],
           NEW e \in QueuedEvents, e.run = s, events' = Append(events, e),
           \A x \in Rows : Tells(s, x) => Tells(s, After(e, x))'
    PROVE  RowFollows(s)'
  <1>1. PICK x \in Rows : Replay(events, s, row[s], x) /\ Tells(s, x)
    BY DEF RowFollows
  <1>2. Apply(e, s, x) = After(e, x)
    BY DEF Apply
  <1>3. Tells(s, Apply(e, s, x))'
    BY <1>1, <1>2
  <1> QED BY <1>1, <1>3, AddedFollows

\* A closure that ends the Run is added, or none is.
LEMMA EndFollows ==
    ASSUME TypeOK, NEW s \in Runs, RowFollows(s), row'[s] = row[s],
           NEW e \in QueuedEvents, e.run = s, e.kind \in {"cancel", "cancelled"},
           events' = Append(events, e)
    PROVE  RowFollows(s)'
  <1>1. \A x \in Rows : After(e, x).completed
    BY DEF After, Rows
  <1>2. \A x \in Rows : Tells(s, After(e, x))'
    BY <1>1 DEF Tells
  <1> QED BY <1>2, NextFollows

\* An event of the executor reaches the queue, or the launch was marked.
LEMMA EventQueued ==
    ASSUME NEW s \in Runs, NEW kind \in ExecutorEvents, NEW request \in Permissions \cup {None},
           NEW e, e = Event(kind, s, request, None)
    PROVE  e \in QueuedEvents /\ e.run = s /\ e.kind = kind /\ e.request = request
  BY DEF Event, QueuedEvents

\* The executor's own steps.
LEMMA ExecutorFollows ==
    ASSUME TypeOK, LifecycleKnown, ~closed, NEW s \in Runs, StartKnown(s), EntryKnown(s), Kept(s),
           KeptKnown(s), RowFollows(s), ExecutorStep(s)
    PROVE  RowFollows(s)'
  <1> USE DEF outsideExecutor, tables
  <1>t. /\ exec \in [Runs -> Entries] /\ ctl \in [Controls -> ControlTasks]
        /\ exec[s] \in Entries /\ EntryTells(exec[s], launch[s], native[s])
        /\ events \in Seq(QueuedEvents)
    BY DEF TypeOK, EntryKnown
  <1>1. UNCHANGED <<row, launch>>
    BY ExecutorLeaves
  <1>2. exec[s].phase # "absent" => launch[s].step # "waiting"
    BY DEF StartKnown
  <1>3. CASE UNCHANGED <<exec, events>>
    BY <1>1, <1>3, StillFollows DEF Tells
  <1>4. CASE Spawn(s)
    <2> DEFINE e == [exec[s] EXCEPT !.phase = "opening"]
    <2>1. e.phase = "opening" /\ e.restoring = exec[s].restoring /\ exec[s].phase = "preparing"
          /\ SetExec(s, e) /\ UNCHANGED events
      BY <1>t, <1>4 DEF Spawn, Entries
    <2> HIDE DEF e
    <2>2. exec'[s].phase = "opening" /\ exec'[s].restoring = exec[s].restoring
      BY <1>t, <2>1 DEF SetExec
    <2> QED BY <1>1, <2>1, <2>2, StillFollows DEF Tells
  <1>a. ASSUME NEW e, SetExec(s, e), e.phase \in {"absent", "loading", "releasing", "unreleased"},
               exec[s].phase # "absent",
               UNCHANGED events \/ \E kind \in Outcomes : events' = Emitted(kind, s, None)
        PROVE  RowFollows(s)'
    <2>1. exec'[s].phase = e.phase
      BY <1>a, <1>t DEF SetExec
    <2>2. UNCHANGED events \/ \E f \in QueuedEvents : events' = Append(events, f)
      BY <1>a DEF Emitted, Event, QueuedEvents, ExecutorEvents
    <2> QED BY <1>1, <1>2, <1>a, <2>1, <2>2, AnyRowFollows
  <1>5. CASE Loads(s) \/ StartFails(s) \/ PrepareFails(s)
    <2>1. CASE Loads(s)
      <3> DEFINE e == [exec[s] EXCEPT !.phase = "loading"]
      <3>1. e.phase = "loading" /\ SetExec(s, e) /\ exec[s].phase = "opening" /\ UNCHANGED events
        BY <1>t, <2>1 DEF Loads, Entries
      <3> HIDE DEF e
      <3> QED BY <1>a, <3>1
    <2>2. CASE StartFails(s)
      <3> DEFINE e == [exec[s] EXCEPT !.phase = "releasing", !.why = "startup"]
      <3>1. e.phase = "releasing" /\ SetExec(s, e) /\ exec[s].phase # "absent" /\ UNCHANGED events
        BY <1>t, <2>2 DEF StartFails, Entries
      <3> HIDE DEF e
      <3> QED BY <1>a, <3>1
    <2>3. CASE PrepareFails(s)
      <3> DEFINE e == [AbsentExec EXCEPT !.start = "failed", !.restoring = exec[s].restoring]
      <3>1. e.phase = "absent" /\ SetExec(s, e) /\ exec[s].phase # "absent" /\ UNCHANGED events
        BY <2>3 DEF PrepareFails, AbsentExec
      <3> HIDE DEF e
      <3> QED BY <1>a, <3>1
    <2> QED BY <1>5, <2>1, <2>2, <2>3
  <1>6. CASE ProcessExits(s) \/ \E outcome \in Outcomes : TurnEnds(s, outcome)
    <2>1. CASE UNCHANGED exec
      <3>1. UNCHANGED events
        BY <1>6 DEF ProcessExits, TurnEnds
      <3> QED BY <1>3, <2>1, <3>1
    <2>2. ASSUME NEW outcome \in Outcomes, SetExec(s, Settling(s, outcome)) PROVE RowFollows(s)'
      <3> DEFINE e == Settling(s, outcome)
      <3>1. e.phase = "releasing" /\ SetExec(s, e) /\ exec[s].phase # "absent" /\ UNCHANGED events
        BY <1>t, <1>6, <2>2 DEF ProcessExits, TurnEnds, Settling, Entries, Active
      <3> HIDE DEF e
      <3> QED BY <1>a, <3>1
    <2> QED BY <1>6, <2>1, <2>2 DEF ProcessExits, TurnEnds, Outcomes
  <1>7. CASE ReleaseSucceeds(s)
    <2>1. PICK start \in StartAfterRelease(s) \cup Unsupported(s) :
            SetExec(s, [AbsentExec EXCEPT !.start = start, !.restoring = exec[s].restoring])
      BY <1>7 DEF ReleaseSucceeds
    <2> DEFINE e == [AbsentExec EXCEPT !.start = start, !.restoring = exec[s].restoring]
    <2>2. e.phase = "absent" /\ SetExec(s, e) /\ exec[s].phase # "absent"
      BY <1>7, <2>1 DEF AbsentExec, ReleaseSucceeds
    <2>3. UNCHANGED events \/ \E kind \in Outcomes : events' = Emitted(kind, s, None)
      BY <1>7 DEF ReleaseSucceeds
    <2> HIDE DEF e
    <2> QED BY <1>a, <2>2, <2>3
  <1>8. CASE ReleaseFails(s)
    <2>1. PICK start \in StartAfterRelease(s), turn \in {FALSE, exec[s].turn /\ ~exec[s].settled} :
            SetExec(s, [exec[s] EXCEPT !.phase = "unreleased", !.start = start, !.turn = turn,
                           !.why = IF @ = "startup" THEN @ ELSE None])
      BY <1>8 DEF ReleaseFails
    <2> DEFINE e == [exec[s] EXCEPT !.phase = "unreleased", !.start = start, !.turn = turn,
                         !.why = IF @ = "startup" THEN @ ELSE None]
    <2>2. e.phase = "unreleased" /\ SetExec(s, e) /\ exec[s].phase # "absent"
      BY <1>t, <1>8, <2>1 DEF Entries, ReleaseFails
    <2>3. UNCHANGED events \/ \E kind \in Outcomes : events' = Emitted(kind, s, None)
      BY <1>8 DEF ReleaseFails, Outcomes
    <2> HIDE DEF e
    <2> QED BY <1>a, <2>2, <2>3
  <1>9. CASE Opened(s)
    <2>1. PICK saved \in BOOLEAN :
            SetExec(s, [exec[s] EXCEPT !.saved = saved, !.start = "ok",
                           !.turn = ~exec[s].restoring,
                           !.phase = IF exec[s].restoring THEN "paused" ELSE "turn"])
      BY <1>9 DEF Opened
    <2> DEFINE e == [exec[s] EXCEPT !.saved = saved, !.start = "ok",
                           !.turn = ~exec[s].restoring,
                           !.phase = IF exec[s].restoring THEN "paused" ELSE "turn"]
               kind == IF exec[s].restoring THEN "restored" ELSE "started"
    <2>2. /\ e.phase = IF exec[s].restoring THEN "paused" ELSE "turn"
          /\ e.pending = exec[s].pending /\ SetExec(s, e)
      BY <1>t, <2>1 DEF Entries
    <2>3. /\ exec[s].phase = IF exec[s].restoring THEN "loading" ELSE "opening"
          /\ events' = Emitted(kind, s, None) /\ kind \in ExecutorEvents
      BY <1>9 DEF Opened, ExecutorEvents
    <2> HIDE DEF e
    <2>4. /\ exec'[s].phase = IF exec[s].restoring THEN "paused" ELSE "turn"
          /\ exec'[s].pending = {} /\ launch[s].step # "waiting"
      BY <1>2, <1>t, <2>2, <2>3 DEF SetExec, EntryTells
    <2>5. Emits(s)
      BY <2>3, KeptEmits DEF KeptKnown
    <2>6. PICK f : f = Event(kind, s, None, None)
      OBVIOUS
    <2>7. f \in QueuedEvents /\ f.run = s /\ f.kind = kind
      BY <2>3, <2>6, EventQueued
    <2>8. events' = Append(events, f)
      BY <2>3, <2>5, <2>6 DEF Emitted
    <2>9. ASSUME NEW x \in Rows, Tells(s, x) PROVE Tells(s, After(f, x))'
      <3>1. CASE x.completed
        BY <2>9, <3>1 DEF Tells, After
      <3>2. CASE ~x.completed /\ exec[s].restoring
        <4>1. After(f, x) = [x EXCEPT !.status = "interrupted", !.permission = None]
          BY <2>7, <3>2 DEF After
        <4>2. After(f, x).status = "interrupted"
          BY <4>1 DEF Rows
        <4> QED BY <1>1, <2>4, <3>2, <4>2 DEF Tells
      <3>3. CASE ~x.completed /\ ~exec[s].restoring
        <4>1. x.status = "enqueued"
          BY <2>3, <2>9, <3>3 DEF Tells
        <4>2. After(f, x) = [x EXCEPT !.status = "running"]
          BY <2>7, <3>3, <4>1 DEF After
        <4>3. After(f, x).status = "running"
          BY <4>2 DEF Rows
        <4> QED BY <1>1, <2>4, <3>3, <4>3 DEF Tells
      <3> QED BY <3>1, <3>2, <3>3
    <2> QED BY <1>1, <2>7, <2>8, <2>9, NextFollows
  <1>10. CASE TurnPaused(s)
    <2> DEFINE e == [exec[s] EXCEPT !.phase = "paused", !.turn = FALSE]
    <2>1. e.phase = "paused" /\ SetExec(s, e) /\ exec[s].phase = "interrupting"
      BY <1>t, <1>10 DEF TurnPaused, Entries
    <2> HIDE DEF e
    <2>2. exec'[s].phase = "paused" /\ launch[s].step # "waiting"
      BY <1>2, <1>t, <2>1 DEF SetExec
    <2>3. PICK c \in Controls : events' = Append(events, Event("interrupt", s, None, c))
      BY <1>10 DEF TurnPaused
    <2>4. PICK f : f = Event("interrupt", s, None, c)
      OBVIOUS
    <2>5. f \in QueuedEvents /\ f.run = s /\ f.kind = "interrupt"
      BY <2>4 DEF Event, QueuedEvents, ControlEvents
    <2>6. ASSUME NEW x \in Rows, Tells(s, x) PROVE Tells(s, After(f, x))'
      <3>1. CASE x.completed
        BY <2>6, <3>1 DEF Tells, After
      <3>2. CASE ~x.completed
        <4>1. x.status \in {"running", "needs_user"}
          BY <2>1, <2>6, <3>2 DEF Tells
        <4>2. After(f, x) = [x EXCEPT !.status = "interrupted", !.permission = None]
          BY <2>5, <3>2, <4>1 DEF After
        <4>3. After(f, x).status = "interrupted"
          BY <4>2 DEF Rows
        <4> QED BY <1>1, <2>2, <4>3 DEF Tells
      <3> QED BY <3>1, <3>2
    <2> QED BY <1>1, <2>3, <2>4, <2>5, <2>6, NextFollows
  <1>11. CASE AsksPermission(s)
    <2>0. PICK request : request = exec[s].asked + 1
      OBVIOUS
    <2> DEFINE e == [exec[s] EXCEPT !.asked = request, !.pending = @ \cup {request}]
    <2>1. /\ SetExec(s, e) /\ exec[s].phase \in {"turn", "interrupting"}
          /\ events' = Emitted("needs_user", s, request) /\ exec[s].asked < MaxPermissions
      BY <1>11, <2>0 DEF AsksPermission
    <2>2. e.phase = exec[s].phase /\ e.asked = request /\ e.pending = exec[s].pending \cup {request}
      BY <1>t DEF Entries
    <2>3. request \in Permissions /\ request > exec[s].asked
      BY <1>t, <2>0, <2>1, RunStateAssumption DEF Entries, Permissions
    <2> HIDE DEF e
    <2>4. /\ exec'[s].phase = exec[s].phase /\ exec'[s].asked = request
          /\ exec'[s].pending = exec[s].pending \cup {request} /\ launch[s].step # "waiting"
      BY <1>2, <1>t, <2>1, <2>2 DEF SetExec
    <2>5. Emits(s)
      BY <2>1, KeptEmits DEF KeptKnown
    <2>6. PICK f : f = Event("needs_user", s, request, None)
      OBVIOUS
    <2>7. f \in QueuedEvents /\ f.run = s /\ f.kind = "needs_user" /\ f.request = request
      BY <2>3, <2>6, EventQueued DEF ExecutorEvents
    <2>8. events' = Append(events, f)
      BY <2>1, <2>5, <2>6 DEF Emitted
    <2>9. ASSUME NEW x \in Rows, Tells(s, x) PROVE Tells(s, After(f, x))'
      <3>1. CASE x.completed
        BY <2>9, <3>1 DEF Tells, After
      <3>2. CASE ~x.completed /\ x.status = "running"
        <4>1. After(f, x) = [x EXCEPT !.status = "needs_user", !.permission = request]
          BY <2>7, <3>2 DEF After
        <4>2. After(f, x).status = "needs_user" /\ After(f, x).permission = request
          BY <4>1 DEF Rows
        <4> QED BY <1>1, <2>1, <2>4, <4>2 DEF Tells
      <3>3. CASE ~x.completed /\ x.status # "running"
        <4>1. After(f, x) = x
          BY <2>7, <3>3 DEF After
        <4>2. x.status = "needs_user" /\ x.permission \in exec[s].pending
          BY <2>1, <2>9, <3>3 DEF Tells
        <4> QED BY <1>1, <2>1, <2>4, <4>1, <4>2 DEF Tells
      <3> QED BY <3>1, <3>2, <3>3
    <2> QED BY <1>1, <2>7, <2>8, <2>9, NextFollows
  <1> QED BY <1>4, <1>5, <1>6, <1>7, <1>8, <1>9, <1>10, <1>11 DEF ExecutorStep

\* The controls of the Run.
LEMMA ControlFollows ==
    ASSUME TypeOK, LifecycleKnown, ~closed, NEW s \in Runs, StartKnown(s), EntryKnown(s), Kept(s),
           KeptKnown(s), RowFollows(s), NEW c \in Controls, Concerns(c, s)
    PROVE  RowFollows(s)'
  <1> USE DEF tables, files, tasks, executor
  <1>t. /\ exec \in [Runs -> Entries] /\ ctl \in [Controls -> ControlTasks]
        /\ launch \in [Runs -> Launches] /\ launch[s] \in Launches
        /\ exec[s] \in Entries /\ EntryTells(exec[s], launch[s], native[s])
        /\ events \in Seq(QueuedEvents) /\ row[s] \in Rows
    BY DEF TypeOK, EntryKnown
  <1>1. UNCHANGED row
    BY DEF Concerns, InterruptBegins, ResumeBegins, RespondBegins, CancelBegins, Unfinished,
       InterruptFails, InterruptRejected, CancelReleased, CancelJoined
  <1>2. exec[s].phase # "absent" => launch[s].step # "waiting"
    BY DEF StartKnown
  <1>3. CASE UNCHANGED <<launch, exec, events>>
    BY <1>1, <1>3, StillFollows DEF Tells
  <1>4. CASE InterruptBegins(c, s)
    <2> DEFINE e == [exec[s] EXCEPT !.phase = "interrupting"]
    <2>1. e.phase = "interrupting" /\ e.pending = exec[s].pending /\ e.asked = exec[s].asked
      BY <1>t DEF Entries
    <2>2. SetExec(s, e) /\ exec[s].phase = "turn" /\ UNCHANGED <<events, launch>>
      BY <1>4 DEF InterruptBegins, Controllable, Actions, RuntimeActions
    <2> HIDE DEF e
    <2>3. /\ exec'[s].phase = "interrupting" /\ exec'[s].pending = exec[s].pending
          /\ exec'[s].asked = exec[s].asked /\ launch[s].step # "waiting"
      BY <1>2, <1>t, <2>1, <2>2 DEF SetExec
    <2> QED BY <1>1, <2>2, <2>3, StillFollows DEF Tells
  <1>5. CASE InterruptRejected(c) /\ ctl[c].run = s
    <2> DEFINE e == [exec[s] EXCEPT !.phase = "turn"]
    <2>1. e.phase = "turn" /\ e.pending = exec[s].pending /\ e.asked = exec[s].asked
      BY <1>t DEF Entries
    <2>2. SetExec(s, e) /\ exec[s].phase = "interrupting" /\ UNCHANGED <<events, launch>>
      BY <1>5 DEF InterruptRejected
    <2> HIDE DEF e
    <2>3. /\ exec'[s].phase = "turn" /\ exec'[s].pending = exec[s].pending
          /\ exec'[s].asked = exec[s].asked /\ launch[s].step # "waiting"
      BY <1>2, <1>t, <2>1, <2>2 DEF SetExec
    <2> QED BY <1>1, <2>2, <2>3, StillFollows DEF Tells
  <1>6. CASE ResumeBegins(c, s)
    <2> DEFINE e == [exec[s] EXCEPT !.phase = "turn", !.turn = TRUE]
    <2>1. e.phase = "turn" /\ e.pending = exec[s].pending
      BY <1>t DEF Entries
    <2>2. SetExec(s, e) /\ exec[s].phase = "paused" /\ exec[s].pending = {} /\ UNCHANGED launch
      BY <1>6 DEF ResumeBegins, Controllable, Actions, RuntimeActions
    <2> HIDE DEF e
    <2>3. exec'[s].phase = "turn" /\ exec'[s].pending = {} /\ launch[s].step # "waiting"
      BY <1>2, <1>t, <2>1, <2>2 DEF SetExec
    <2>4. PICK f : f = Event("resume", s, None, c)
      OBVIOUS
    <2>5. f \in QueuedEvents /\ f.run = s /\ f.kind = "resume"
      BY <2>4 DEF Event, QueuedEvents, ControlEvents
    <2>6. events' = Append(events, f)
      BY <1>6, <2>4 DEF ResumeBegins
    <2>7. ASSUME NEW x \in Rows, Tells(s, x) PROVE Tells(s, After(f, x))'
      <3>1. CASE x.completed
        BY <2>7, <3>1 DEF Tells, After
      <3>2. CASE ~x.completed
        <4>1. x.status = "interrupted"
          BY <2>2, <2>7, <3>2 DEF Tells
        <4>2. After(f, x) = [x EXCEPT !.status = "running", !.permission = None]
          BY <2>5, <3>2, <4>1 DEF After
        <4>3. After(f, x).status = "running"
          BY <4>2 DEF Rows
        <4> QED BY <2>2, <2>3, <4>3 DEF Tells
      <3> QED BY <3>1, <3>2
    <2> QED BY <1>1, <2>5, <2>6, <2>7, NextFollows
  <1>7. CASE RespondBegins(c, s)
    <2>0. PICK request : request = row[s].permission
      OBVIOUS
    <2> DEFINE e == [exec[s] EXCEPT !.pending = @ \ {request}]
    <2>1. e.phase = exec[s].phase /\ e.pending = exec[s].pending \ {request}
         /\ e.asked = exec[s].asked
      BY <1>t DEF Entries
    <2>2. /\ SetExec(s, e) /\ request \in exec[s].pending /\ UNCHANGED launch
          /\ row[s].status = "needs_user" /\ ~row[s].completed /\ QueueIdle
          /\ exec[s].phase \notin {"absent", "preparing", "opening", "releasing", "unreleased"}
      BY <1>7, <2>0 DEF RespondBegins, Controllable, Actions, RuntimeActions, RecoveryState, Active,
         Unfinished
    <2> HIDE DEF e
    <2>3. /\ exec'[s].phase = exec[s].phase /\ exec'[s].asked = exec[s].asked
          /\ exec'[s].pending = exec[s].pending \ {request} /\ launch[s].step # "waiting"
      BY <1>2, <1>t, <2>1, <2>2 DEF SetExec
    <2>4. Tells(s, row[s])
      BY <2>2, IdleTells
    <2>5. exec[s].phase \in {"turn", "interrupting"}
      BY <1>t, <2>2, <2>4 DEF Tells, EntryTells, Entries, Phases
    <2>6. exec[s].pending \ {request} = {} \/ exec[s].asked > 1
      <3>1. exec[s].asked \in Nat /\ exec[s].pending \subseteq 1..exec[s].asked
        BY <1>t, RunStateAssumption DEF Entries, EntryTells
      <3>2. exec[s].asked \in {0, 1} => exec[s].pending \subseteq {1}
        BY <3>1
      <3>3. exec[s].asked \in {0, 1} => exec[s].pending \subseteq {request}
        BY <2>2, <3>2
      <3> QED BY <3>1, <3>3
    <2>7. PICK f : f = Event("respond", s, request, c)
      OBVIOUS
    <2>8. f \in QueuedEvents /\ f.run = s /\ f.kind = "respond" /\ f.request = request
      BY <1>t, <2>0, <2>7 DEF Event, QueuedEvents, ControlEvents, Rows
    <2>9. events' = Append(events, f)
      BY <1>7, <2>0, <2>7 DEF RespondBegins
    <2>10. PICK x \in Rows : x = row[s]
      BY <1>t
    <2>11. After(f, x) = [x EXCEPT !.status = "running", !.permission = None]
      BY <2>0, <2>2, <2>8, <2>10 DEF After
    <2>12. After(f, x).status = "running"
      BY <2>11 DEF Rows
    <2>13. Tells(s, After(f, x))'
      BY <2>2, <2>3, <2>5, <2>6, <2>12 DEF Tells
    <2>14. Replay(events, s, row[s], x)
      BY <2>2, <2>10, ReplayEmpty DEF QueueIdle
    <2>15. Apply(f, s, x) = After(f, x)
      BY <2>8 DEF Apply
    <2>16. Tells(s, Apply(f, s, x))'
      BY <2>13, <2>15
    <2> QED BY <1>1, <2>8, <2>9, <2>14, <2>16, AddedFollows
  <1>8. CASE CancelBegins(c, s)
    <2> DEFINE mark(b) ==
          launch' = [launch EXCEPT ![s].cancelled = IF launch[s].held THEN b ELSE @]
    <2>1. mark(TRUE) \/ mark(FALSE)
      BY <1>8 DEF CancelBegins
    <2>2. launch'[s].step = launch[s].step
      BY <1>t, <2>1 DEF Launches
    <2>3. UNCHANGED exec \/ SetExec(s, Stopping(s)) \/ SetExec(s, exec[s])
      BY <1>8 DEF CancelBegins
    <2>4. exec'[s] = exec[s] \/ (exec'[s] = Stopping(s) /\ ~StopJoins(s))
      <3>1. StopJoins(s) => Stopping(s) = exec[s]
        BY DEF Stopping, StopJoins, StopRejects
      <3> QED BY <1>t, <2>3, <3>1 DEF SetExec
    <2>5. UNCHANGED events
      BY <1>8 DEF CancelBegins
    <2>6. CASE exec'[s] = exec[s]
      BY <1>1, <2>2, <2>5, <2>6, StillFollows DEF Tells
    <2>7. CASE exec'[s] = Stopping(s) /\ ~StopJoins(s)
      <3>1. exec[s].phase # "absent"
        BY <2>7 DEF StopJoins
      <3>2. exec'[s].phase \in {"releasing", "unreleased"}
        <4>1. CASE StopRejects(s)
          <5>1. exec'[s] = [exec[s] EXCEPT !.why = None]
            BY <2>7, <4>1 DEF Stopping
          <5> QED BY <1>t, <4>1, <5>1 DEF StopRejects, Entries
        <4>2. CASE ~StopRejects(s)
          <5>1. exec'[s] = [exec[s] EXCEPT !.phase = "releasing", !.why = "stop"]
            BY <2>7, <4>2 DEF Stopping
          <5> QED BY <1>t, <5>1 DEF Entries
        <4> QED BY <4>1, <4>2
      <3> QED BY <1>1, <1>2, <2>2, <2>5, <3>1, <3>2, AnyRowFollows
    <2> QED BY <2>4, <2>6, <2>7
  <1>9. CASE InterruptFails(c)
    BY <1>3, <1>9 DEF InterruptFails
  <1>10. CASE CancelReleased(c) /\ ctl[c].run = s
    <2>1. CASE Active(s)
      <3>1. launch' = [launch EXCEPT ![s].cancelled = IF launch[s].held THEN FALSE ELSE @]
            /\ UNCHANGED <<events, exec>>
        BY <1>10, <2>1 DEF CancelReleased
      <3>2. launch'[s].step = launch[s].step
        BY <1>t, <3>1 DEF Launches
      <3> QED BY <1>1, <3>1, <3>2, StillFollows DEF Tells
    <2>2. CASE ~Active(s)
      <3>1. events' = Emitted("cancelled", s, None) /\ UNCHANGED <<launch, exec>>
        BY <1>10, <2>2 DEF CancelReleased
      <3>2. CASE ~Emits(s)
        BY <1>3, <3>1, <3>2 DEF Emitted
      <3>3. CASE Emits(s)
        <4>1. PICK f : f = Event("cancelled", s, None, None)
          OBVIOUS
        <4>2. f \in QueuedEvents /\ f.run = s /\ f.kind = "cancelled"
          BY <4>1, EventQueued DEF ExecutorEvents, Outcomes
        <4>3. events' = Append(events, f)
          BY <3>1, <3>3, <4>1 DEF Emitted
        <4> QED BY <1>1, <4>2, <4>3, EndFollows
      <3> QED BY <3>2, <3>3
    <2> QED BY <2>1, <2>2
  <1>11. CASE CancelJoined(c) /\ ctl[c].run = s
    <2>1. PICK f : f = Event("cancel", s, None, c)
      OBVIOUS
    <2>2. f \in QueuedEvents /\ f.run = s /\ f.kind = "cancel"
      BY <2>1 DEF Event, QueuedEvents, ControlEvents
    <2>3. events' = Append(events, f)
      BY <1>11, <2>1 DEF CancelJoined
    <2> QED BY <1>1, <2>2, <2>3, EndFollows
  <1> QED BY <1>4, <1>5, <1>6, <1>7, <1>8, <1>9, <1>10, <1>11 DEF Concerns

\* A step that settles the Run while nothing is queued, or leaves its row.
LEMMA SettledFollows ==
    ASSUME TypeOK, TypeOK', NEW s \in Runs, RowFollows(s), QueueIdle, UNCHANGED events,
           row'[s].completed \/ (row'[s] = row[s] /\ \A x \in Rows : Tells(s, x) => Tells(s, x)')
    PROVE  RowFollows(s)'
  <1>1. CASE row'[s] = row[s] /\ \A x \in Rows : Tells(s, x) => Tells(s, x)'
    BY <1>1, StillFollows
  <1>2. CASE row'[s].completed
    <2>1. Tells(s, row[s])'
      BY <1>2 DEF Tells
    <2> QED BY <2>1, EmptyFollows DEF QueueIdle
  <1> QED BY <1>1, <1>2

\* Launch, capture and delivery of the Run.
LEMMA RunStepFollows ==
    ASSUME TypeOK, TypeOK', LifecycleKnown, ~closed, NEW s \in Runs, StartKnown(s),
           EntryKnown(s), Kept(s), RowFollows(s), RunStep(s)
    PROVE  RowFollows(s)'
  <1> USE DEF tables, files, tasks, executor, invocations
  <1>t. /\ exec \in [Runs -> Entries] /\ launch \in [Runs -> Launches] /\ launch[s] \in Launches
        /\ exec[s] \in Entries /\ EntryTells(exec[s], launch[s], native[s])
        /\ row \in [Runs -> Rows] /\ row[s] \in Rows
    BY DEF TypeOK, EntryKnown
  <1>0. UNCHANGED events
    BY RunLeaves
  <1>f. ASSUME NEW status, Terminate(s, status) PROVE row'[s] = row[s] \/ row'[s].completed
    BY <1>f, <1>t DEF Terminate, Settled, Rows
  <1>4. CASE LaunchBegins(s)
    <2>0. UNCHANGED row /\ launch[s].step = "waiting" /\ exec[s].phase = "absent"
      BY <1>4 DEF LaunchBegins, StartKnown
    <2>1. CASE LaunchCancelled(s)
      <3>1. launch' = [launch EXCEPT ![s] = [@ EXCEPT !.step = "skipped", !.cancelled = TRUE]]
            /\ UNCHANGED exec
        BY <1>4, <2>1 DEF LaunchBegins
      <3>2. launch'[s].step = "skipped"
        BY <1>t, <3>1 DEF Launches
      <3> QED BY <1>0, <2>0, <3>1, <3>2, AnyRowFollows
    <2>2. CASE ~LaunchCancelled(s) /\ row[s].completed
      <3>1. launch' = [launch EXCEPT ![s] = [@ EXCEPT !.step = "skipped", !.held = FALSE]]
            /\ UNCHANGED exec
        BY <1>4, <2>2 DEF LaunchBegins
      <3>2. launch'[s].step = "skipped"
        BY <1>t, <3>1 DEF Launches
      <3> QED BY <1>0, <2>0, <3>1, <3>2, AnyRowFollows
    <2>3. CASE ~LaunchCancelled(s) /\ ~row[s].completed
      <3>1. SetExec(s, Preparing(FALSE))
        BY <1>4, <2>3 DEF LaunchBegins
      <3>2. exec'[s].phase = "preparing"
        BY <1>t, <3>1 DEF SetExec, Preparing, AbsentExec
      <3> QED BY <1>0, <2>0, <3>2, StillFollows DEF Tells
    <2> QED BY <2>1, <2>2, <2>3
  <1>5. CASE LaunchRefused(s)
    <2>1. launch' = [launch EXCEPT ![s] = [@ EXCEPT !.step = "skipped", !.held = FALSE]]
          /\ UNCHANGED exec /\ Terminate(s, "failed") /\ launch[s].step = "waiting" /\ QueueIdle
      BY <1>5 DEF LaunchRefused
    <2>2. exec'[s].phase = "absent" /\ launch'[s].step = "skipped"
      BY <1>t, <2>1 DEF StartKnown, Launches
    <2>3. \A x \in Rows : Tells(s, x)'
      BY <2>2 DEF Tells
    <2> QED BY <1>0, <1>f, <2>1, <2>3, SettledFollows
  <1>6. CASE LaunchEnds(s)
    <2> DEFINE e == [exec[s] EXCEPT !.start = "none"]
    <2>1. SetExec(s, e) /\ launch[s].step = "started" /\ QueueIdle
          /\ launch' = [launch EXCEPT ![s].step = "ended",
                               ![s].held = launch[s].held /\ launch[s].cancelled]
      BY <1>6 DEF LaunchEnds
    <2>2. e.phase = exec[s].phase /\ e.pending = exec[s].pending /\ e.asked = exec[s].asked
          /\ e.restoring = exec[s].restoring
      BY <1>t DEF Entries
    <2> HIDE DEF e
    <2>3. exec'[s].phase = exec[s].phase /\ exec'[s].pending = exec[s].pending
          /\ exec'[s].asked = exec[s].asked /\ exec'[s].restoring = exec[s].restoring
      BY <1>t, <2>1, <2>2 DEF SetExec
    <2>4. launch'[s].step = "ended"
      BY <1>t, <2>1 DEF Launches
    <2>5. row'[s] = row[s] \/ row'[s].completed
      BY <1>6, <1>f DEF LaunchEnds
    <2>6. \A x \in Rows : Tells(s, x) => Tells(s, x)'
      BY <2>3, <2>4 DEF Tells
    <2> QED BY <1>0, <2>1, <2>5, <2>6, SettledFollows
  <1>7. ASSUME NEW status \in {"completed", "failed"}, CaptureEnds(s, status) PROVE RowFollows(s)'
    <2>1. UNCHANGED <<exec, launch>> /\ QueueIdle
      BY <1>7 DEF CaptureEnds
    <2>2. row'[s] = row[s] \/ row'[s].completed
      BY <1>7, <1>f DEF CaptureEnds
    <2>3. \A x \in Rows : Tells(s, x) => Tells(s, x)'
      BY <2>1 DEF Tells
    <2> QED BY <1>0, <2>1, <2>2, <2>3, SettledFollows
  <1>8. CASE RetryDelivery(s)
    <2>1. UNCHANGED <<exec, launch, row>>
      BY <1>8 DEF RetryDelivery
    <2> QED BY <1>0, <2>1, StillFollows DEF Tells
  <1>9. ASSUME NEW acknowledged \in BOOLEAN, AttemptEnds(s, acknowledged) PROVE RowFollows(s)'
    <2>1. UNCHANGED <<exec, launch>> /\ QueueIdle
      BY <1>9 DEF AttemptEnds
    <2>2. row'[s].status = row[s].status /\ row'[s].permission = row[s].permission
          /\ row'[s].completed = row[s].completed
      BY <1>9, <1>t DEF AttemptEnds, Rows
    <2>3. Tells(s, row[s])
      BY <2>1, IdleTells
    <2>4. Tells(s, row[s])'
      BY <2>1, <2>2, <2>3 DEF Tells
    <2> QED BY <1>0, <2>1, <2>4, EmptyFollows DEF QueueIdle
  <1> QED BY <1>4, <1>5, <1>6, <1>7, <1>8, <1>9 DEF RunStep

\* Recovery of the Run.
LEMMA RecoveryFollows ==
    ASSUME TypeOK, TypeOK', LifecycleKnown, NEW s \in Runs, StartKnown(s), EntryKnown(s),
           RowFollows(s),
           \/ RestoreBegins /\ s = First(recovering.todo)
           \/ RestoreEnds /\ s = recovering.current
    PROVE  RowFollows(s)'
  <1> USE DEF tables, files, tasks, executor, invocations, recoveryOthers
  <1>t. /\ exec \in [Runs -> Entries] /\ exec[s] \in Entries /\ recovering \in RecoveryTasks
        /\ row \in [Runs -> Rows]
    BY DEF TypeOK
  <1>0. UNCHANGED <<events, launch>>
    BY DEF RestoreBegins, RestoreEnds
  <1>1. CASE RestoreBegins /\ s = First(recovering.todo)
    <2>1. s \in recovering.todo
      BY <1>t, <1>1, FirstIsMember DEF RestoreBegins, RecoveryTasks
    <2>2. exec[s].phase = "absent" /\ launch[s].step = "none" /\ UNCHANGED row
      BY <1>1, <2>1 DEF StartKnown, RestoreBegins
    <2>3. UNCHANGED exec \/ SetExec(s, Preparing(TRUE))
      BY <1>1 DEF RestoreBegins
    <2>4. exec'[s].phase = "absent" \/ (exec'[s].phase = "preparing" /\ exec'[s].restoring)
      BY <1>t, <2>2, <2>3 DEF SetExec, Preparing, AbsentExec
    <2> QED BY <1>0, <2>2, <2>4, AnyRowFollows
  <1>2. CASE RestoreEnds /\ s = recovering.current
    <2> DEFINE e == [exec[s] EXCEPT !.start = "none"]
    <2>1. SetExec(s, e) /\ QueueIdle
      BY <1>2 DEF RestoreEnds
    <2>2. e.phase = exec[s].phase /\ e.pending = exec[s].pending /\ e.asked = exec[s].asked
          /\ e.restoring = exec[s].restoring
      BY <1>t DEF Entries
    <2> HIDE DEF e
    <2>3. exec'[s].phase = exec[s].phase /\ exec'[s].pending = exec[s].pending
          /\ exec'[s].asked = exec[s].asked /\ exec'[s].restoring = exec[s].restoring
      BY <1>t, <2>1, <2>2 DEF SetExec
    <2>4. row'[s] = row[s] \/ row'[s].completed
      BY <1>2, <1>t DEF RestoreEnds, Rows
    <2>5. \A x \in Rows : Tells(s, x) => Tells(s, x)'
      BY <1>0, <2>3 DEF Tells
    <2> QED BY <1>0, <2>1, <2>4, <2>5, SettledFollows
  <1> QED BY <1>1, <1>2

\* A Run that is admitted, and one that a restart leaves.
LEMMA AdmitFollows ==
    ASSUME TypeOK, TypeOK', NEW s \in Runs, StartKnown(s), row[s].status = "absent",
           row'[s].status # "absent", NEW d \in Delegations, Admit(d)
    PROVE  RowFollows(s)'
  <1> USE DEF executor
  <1>t. row \in [Runs -> Rows]
    BY DEF TypeOK
  <1> DEFINE fresh == {r \in Runs : row[r].status = "absent"}
  <1>1. fresh # {}
    BY DEF Admit
  <1>2. PICK n \in Runs : n = First(fresh)
    BY <1>1, FirstIsMember
  <1>3. PICK q : row' = [row EXCEPT ![n] = [AbsentRow EXCEPT !.status = "enqueued", !.call = q]]
    BY <1>2 DEF Admit
  <1>4. events' = <<>> /\ UNCHANGED exec
    BY DEF Admit, QueueIdle
  <1>5. row'[s].status = "enqueued"
    BY <1>t, <1>3 DEF AbsentRow
  <1>6. exec'[s].phase = "absent"
    BY <1>4 DEF StartKnown
  <1>7. Tells(s, row[s])'
    BY <1>5, <1>6 DEF Tells
  <1> QED BY <1>4, <1>7, EmptyFollows

\* After a restart there is neither a queue nor a worker.
LEMMA RestartFollows ==
    ASSUME TypeOK', Restart, NEW s \in Runs
    PROVE  RowFollows(s)'
  <1>1. exec'[s] = AbsentExec /\ launch'[s] = IdleLaunch /\ events' = <<>>
    BY DEF Restart
  <1>2. Tells(s, row[s])'
    BY <1>1 DEF Tells, AbsentExec, IdleLaunch
  <1> QED BY <1>1, <1>2, EmptyFollows

\* Every Run of a conversation that nobody deletes, while the service is open.
LEMMA StepFollows ==
    ASSUME TypeOK, TypeOK', RowInvariant, WorkerInvariant, \A r \in Runs : EntryKnown(r),
           ClosuresOwned, LifecycleKnown, RunsKnown, RunsFollow, [Next]_vars
    PROVE  RunsFollow'
  <1> SUFFICES ASSUME NEW s \in Runs, Kept(s)', ~closed' PROVE RowFollows(s)'
    BY DEF RunsFollow
  <1>w. StartKnown(s) /\ EntryKnown(s)
    BY DEF WorkerInvariant
  <1>1. CASE Restart
    BY <1>1, RestartFollows
  <1>2. CASE row[s].status = "absent"
    <2>1. row'[s].status # "absent"
      BY DEF Kept, Exists
    <2> QED BY <1>2, <1>w, <2>1, AdmitInserts, AdmitFollows
  <1>3. CASE ~Restart /\ row[s].status # "absent"
    <2>1. Kept(s)
      BY <1>3, KeptBefore
    <2>2. ~closed
      BY <1>3, StaysClosed
    <2>3. KeptKnown(s) /\ RowFollows(s)
      BY <2>1, <2>2 DEF RunsKnown, RunsFollow
    <2>4. CASE Undisturbed(s)
      BY <2>3, <2>4, UndisturbedFollows
    <2>5. CASE Own(s)
      BY <1>w, <2>1, <2>2, <2>3, <2>5, RunStepFollows, ExecutorFollows, ClosureFollows,
         ControlFollows, RecoveryFollows DEF Own
    <2> QED BY <1>3, <2>1, <2>4, <2>5, OwnOrUndisturbed
  <1> QED BY <1>1, <1>2, <1>3

\* When nothing of the Run is on its way, its row is the one that agrees.
LEMMA FollowsMatches ==
    ASSUME TypeOK, \A r \in Runs : EntryKnown(r), RunsFollow
    PROVE  RowMatchesWorker
  <1> SUFFICES ASSUME NEW r \in Runs, Unfinished(r), Kept(r), Quiet(r), Tells(r, row[r])
               PROVE  CASE exec[r].phase = "turn" ->
                             \/ /\ row[r].status = "running"
                                /\ exec[r].pending = {} \/ exec[r].asked > 1
                             \/ /\ row[r].status = "needs_user"
                                /\ row[r].permission \in exec[r].pending
                        [] exec[r].phase = "paused" -> row[r].status = "interrupted"
                        [] OTHER -> TRUE
    <2> SUFFICES ASSUME NEW r \in Runs, Unfinished(r), Kept(r), Quiet(r) PROVE Tells(r, row[r])
      BY DEF RowMatchesWorker
    <2>1. PICK x \in Rows : Replay(events, r, row[r], x) /\ Tells(r, x)
      BY DEF RunsFollow, RowFollows, Quiet
    <2>2. events \in Seq(QueuedEvents) /\ row[r] \in Rows
      BY DEF TypeOK
    <2>3. \A i \in 1..Len(events) : events[i].run # r
      BY DEF Quiet
    <2>4. x = row[r]
      BY <2>1, <2>2, <2>3, ReplayNone
    <2> QED BY <2>1, <2>4
  <1> QED BY DEF Tells, Unfinished

\* While the service is open, what ends a Run is on its way when its worker is gone,
\* and the closures in the queue lead its row to what the worker does.
THEOREM RunsWellKept ==
    Spec => [](/\ TypeOK /\ RowInvariant /\ WorkerInvariant /\ EntryInvariant
               /\ KeptInvariant)
  <1> DEFINE Before == TypeOK /\ RowInvariant /\ WorkerInvariant /\ EntryInvariant
  <1>1. Init => KeptInvariant
    <2> SUFFICES ASSUME Init PROVE KeptInvariant
      OBVIOUS
    <2>1. \A r \in Runs : ~Kept(r)
      BY DEF Init, Kept, Exists, AbsentRow
    <2> QED BY <2>1, InitLifecycle DEF KeptInvariant, RunsKnown, RunsFollow
  <1>2. Before /\ Before' /\ KeptInvariant /\ [Next]_vars => KeptInvariant'
    <2> SUFFICES ASSUME Before, Before', KeptInvariant, [Next]_vars PROVE KeptInvariant'
      OBVIOUS
    <2>1. (\A r \in Runs : EntryKnown(r)) /\ (\A r \in Runs : StartKnown(r))
      BY DEF EntryInvariant, WorkerInvariant
    <2>2. LifecycleKnown'
      BY <2>1, StepKeepsLifecycle DEF KeptInvariant
    <2>3. ClosuresOwned'
      BY StepOwnsClosures DEF KeptInvariant
    <2>4. RunsKnown'
      BY <2>1, StepKeepsKnown DEF KeptInvariant
    <2>5. RunsFollow'
      BY <2>1, StepFollows DEF KeptInvariant
    <2> QED BY <2>2, <2>3, <2>4, <2>5 DEF KeptInvariant
  <1>3. Spec => []Before
    BY EntriesWellKept
  <1> QED BY <1>1, <1>2, <1>3, PTL DEF Spec

\* No outcome and no failed start is lost: a Run whose launch is over is settled,
\* or a worker or a capture of its output will settle it.
THEOREM FinishedSettle == Spec => []FinishedWorkerSettles
  <1>1. EntryInvariant /\ KeptInvariant => FinishedWorkerSettles
    BY KnownSettles DEF EntryInvariant, KeptInvariant
  <1> QED BY <1>1, RunsWellKept, PTL

\* Between two activities the row tells what the worker does.
THEOREM RowsFollowWorkers == Spec => []RowMatchesWorker
  <1>1. TypeOK /\ EntryInvariant /\ KeptInvariant => RowMatchesWorker
    BY FollowsMatches DEF EntryInvariant, KeptInvariant
  <1> QED BY <1>1, RunsWellKept, PTL

--------------------
(* Settled Runs and deleted conversations *)

LEMMA OverLasts ==
    ASSUME TypeOK, RowInvariant, \A r \in Runs : StartKnown(r), [Next]_vars, ~Restart,
           NEW s \in Runs
    PROVE  /\ Over(s) => Over(s)'
           /\ launch[s].step # "none" => launch'[s].step # "none"
           /\ launch[s].step \notin {"waiting", "started"} /\ closed =>
                launch'[s].step \notin {"waiting", "started"}
  <1> USE DEF files, executor, lifecycle, tasks, outsideExecutor
  <1> DEFINE Goal == /\ Over(s) => Over(s)'
                     /\ launch[s].step # "none" => launch'[s].step # "none"
                     /\ launch[s].step \notin {"waiting", "started"} /\ closed =>
                          launch'[s].step \notin {"waiting", "started"}
  <1>t. /\ exec \in [Runs -> Entries] /\ launch \in [Runs -> Launches]
        /\ recovering \in RecoveryTasks
        /\ row'[s].status = "absent" => row[s].status = "absent"
    BY RowsStayAdmitted DEF TypeOK
  <1>1. CASE ~Touches
    <2>1. LaunchStays(s) /\ EntryStays(s) /\ RecoveryStays(s)
      BY <1>1, OthersKeepWorkers DEF WorkerStays
    <2> QED BY <2>1, <1>t DEF LaunchStays, EntryStays, RecoveryStays, Active, Over
  <1>2. ASSUME NEW d \in Delegations, Admit(d) PROVE Goal
    <2>1. PICK n \in Runs : /\ row[n].status = "absent"
                            /\ launch' = [launch EXCEPT ![n] =
                                 [step |-> "waiting", held |-> TRUE, cancelled |-> FALSE]]
      <3> DEFINE fresh == {r \in Runs : row[r].status = "absent"}
      <3>1. First(fresh) \in fresh /\ First(fresh) \in Runs
        BY <1>2, FirstIsMember DEF Admit
      <3> QED BY <1>2, <3>1 DEF Admit
    <2>2. UNCHANGED <<exec, recovering>> /\ ~closed
      BY <1>2 DEF Admit, AdmissionSettles, AdmissionOpen
    <2> QED BY <1>t, <2>1, <2>2 DEF Over
  <1>3. ASSUME NEW r \in Runs, LaunchBegins(r) \/ LaunchRefused(r) PROVE Goal
    <2>1. launch[r].step = "waiting" /\ UNCHANGED recovering
          /\ \A x \in Runs \ {r} : launch'[x] = launch[x] /\ exec'[x] = exec[x]
      BY <1>3, <1>t DEF LaunchBegins, LaunchRefused, SetExec
    <2>2. launch'[r].step # "none"
      <3>1. PICK l \in {[launch[r] EXCEPT !.step = "skipped", !.cancelled = TRUE],
                       [launch[r] EXCEPT !.step = "skipped", !.held = FALSE],
                       [launch[r] EXCEPT !.step = "started"]} : launch' = [launch EXCEPT ![r] = l]
        BY <1>3 DEF LaunchBegins, LaunchRefused
      <3>2. l.step # "none"
        BY <1>t, <3>1 DEF Launches
      <3> QED BY <1>t, <3>1, <3>2
    <2> QED BY <1>t, <2>1, <2>2 DEF Over
  <1>4. ASSUME NEW r \in Runs, Spawn(r) \/ PrepareFails(r) \/ ReleaseSucceeds(r) PROVE Goal
    <2>1. exec'[s] = exec[s] \/ exec'[s].phase \in {"opening", "absent"}
      BY <1>4, <1>t DEF Spawn, PrepareFails, ReleaseSucceeds, Entries, AbsentExec, SetExec
    <2>2. UNCHANGED <<launch, recovering>>
      BY <1>4 DEF Spawn, PrepareFails, ReleaseSucceeds
    <2> QED BY <1>t, <2>1, <2>2 DEF Over
  <1>5. CASE RestoreBegins
    <2>1. PICK r \in Runs : r = First(recovering.todo) /\ r \in recovering.todo
      BY <1>5, <1>t, FirstIsMember DEF RestoreBegins, RecoveryTasks
    <2>2. UNCHANGED launch /\ (UNCHANGED exec \/ SetExec(r, Preparing(TRUE)))
          /\ recovering'.todo \subseteq recovering.todo
      BY <1>5, <1>t, <2>1 DEF RestoreBegins, RecoveryTasks
    <2> QED BY <1>t, <2>1, <2>2 DEF Over, SetExec
  <1>6. CASE RestoreEnds
    <2>1. UNCHANGED launch /\ recovering'.todo = recovering.todo
          /\ exec'[s].phase = exec[s].phase
      BY <1>6, <1>t, StartIsTaken DEF RestoreEnds, RecoveryTasks, ReleaseStays
    <2> QED BY <1>t, <2>1 DEF Over
  <1> QED BY <1>1, <1>2, <1>3, <1>4, <1>5, <1>6 DEF Touches

LEMMA ClosingStays ==
    ASSUME TypeOK, RowInvariant, WorkerInvariant, EntryInvariant, LifecycleKnown, ClosingKnown,
           [Next]_vars
    PROVE  ClosingKnown'
  <1> USE DEF files, executor, tasks, tables
  <1>k. /\ \A r \in Runs : StartKnown(r)
        /\ closing \in ClosingTasks
    BY DEF WorkerInvariant, TypeOK
  <1>1. CASE Restart
    BY <1>1 DEF Restart, NotClosing, ClosingKnown
  <1>2. CASE UNCHANGED closing /\ ~Restart
    <2>1. closing.step = "drain" => closed
      BY DEF LifecycleKnown
    <2> QED BY <1>2, <1>k, <2>1, OverLasts DEF ClosingKnown, ClosingTasks
  <1>3. CASE CloseStep /\ ~Restart
    <2>o. \A r \in Runs : /\ Over(r) => Over(r)'
                          /\ launch[r].step # "none" => launch'[r].step # "none"
      BY <1>3, <1>k, OverLasts
    <2>g. ASSUME closing'.lost \cup closing'.owned \subseteq closing.lost \cup closing.owned,
                 MayClose, closing'.step # "drain"
          PROVE  ClosingKnown'
      BY <1>k, <2>o, <2>g DEF ClosingKnown, ClosingTasks
    <2>1. CASE Close
      <3>1. \A r \in Runs : capture[r] # "none" => Over(r)
        BY DEF WorkerInvariant, StopKnown, CapturesStopped, Gone, Ended, Over
      <3>2. /\ closing'.lost = {r \in Runs : capture[r] # "none"} /\ closing'.owned = {}
            /\ closing'.step = "admissions" /\ MayClose
        BY <2>1 DEF Close, NotClosing
      <3> QED BY <3>1, <3>2, <2>o DEF ClosingKnown
    <2>2. CASE CloseProbes
      <3>1. /\ closing'.step = "suspend" /\ MayClose
            /\ closing'.lost \cup closing'.owned \subseteq closing.lost \cup
                 {r \in Runs : launch[r].held \/ RecoveryState(r) # "unknown"}
        BY <1>k, <2>2 DEF CloseProbes, ClosingTasks, ClosingKnown, UnfinishedRuns
      <3>2. ASSUME NEW r \in Runs, launch[r].held \/ RecoveryState(r) # "unknown"
            PROVE  Over(r) \/ launch[r].step # "none"
        BY <1>k, <3>2, EndedIfActive DEF RecoveryState, Ended, Over, StartKnown
      <3> QED BY <1>k, <3>1, <3>2, <2>o DEF ClosingKnown, ClosingTasks
    <2>3. CASE SuspendBegins \/ SuspendEnds \/ CloseSettles
      BY <1>k, <2>3, <2>g DEF SuspendBegins, SuspendEnds, CloseSettles, ClosingTasks, ClosingKnown
    <2>4. CASE CloseDrains
      <3>1. /\ closing'.lost = closing.lost /\ closing'.owned = closing.owned /\ MayClose
        BY <1>k, <2>4 DEF CloseDrains, ClosingTasks, ClosingKnown
      <3>2. ASSUME NEW r \in Runs PROVE launch'[r].step \notin {"waiting", "started"}
        <4>1. launch'[r].step = launch[r].step
          BY <2>4 DEF CloseDrains, TypeOK, Launches
        <4> QED BY <2>4, <4>1 DEF CloseDrains, LaunchOver, EntryInvariant, EntryKnown, EntryTells
      <3> QED BY <1>k, <3>1, <3>2, <2>o DEF ClosingKnown, ClosingTasks
    <2> QED BY <1>3, <2>1, <2>2, <2>3, <2>4 DEF CloseStep
  <1> QED BY <1>1, <1>2, <1>3, ClosingWritten

LEMMA FailedStays ==
    ASSUME TypeOK, \A r \in Runs : StartKnown(r), FailedKnown, [Next]_vars
    PROVE  FailedKnown'
  <1> SUFFICES ASSUME Clean', NEW s \in Runs, FailedStart(exec'[s]) PROVE exec'[s].phase = "absent"
    BY DEF FailedKnown, FailedStart
  <1> USE DEF files, executor, tasks, lifecycle, FailedStart
  <1> DEFINE Goal == exec'[s].phase = "absent"
             Same(e, r) == e.start = exec[r].start /\ exec[r].phase # "absent"
  <1>t. /\ exec \in [Runs -> Entries] /\ Clean
        /\ \A r \in Runs : FailedStart(exec[r]) => exec[r].phase = "absent"
    BY CleanBefore DEF TypeOK, FailedKnown
  <1>0. ASSUME UNCHANGED exec PROVE Goal
    BY <1>0, <1>t
  <1>e. ASSUME NEW r \in Runs, NEW e, SetExec(r, e),
               FailedStart(e) => e.phase = "absent" \/ Same(e, r)
        PROVE  Goal
    BY <1>e, <1>t DEF SetExec
  <1>s. ASSUME NEW r \in Runs, SetExec(r, Stopping(r)) PROVE Goal
    <2>1. Stopping(r) = exec[r] \/ Same(Stopping(r), r)
      BY <1>t DEF Stopping, StopJoins, StopRejects, Entries
    <2> QED BY <1>s, <1>t, <2>1 DEF SetExec
  <1>n. ASSUME NEW r \in Runs, SetExec(r, [exec[r] EXCEPT !.start = "none"]) PROVE Goal
    <2>1. [exec[r] EXCEPT !.start = "none"].start = "none"
      BY <1>t DEF Entries
    <2> QED BY <1>n, <1>t, <2>1 DEF SetExec
  <1>1. CASE \/ UNCHANGED vars \/ RunNextEvent
             \/ \E d \in Delegations : \/ \E q \in Calls : Delegate(d, q)
                                       \/ Admit(d) \/ AdmissionRefused(d)
    BY <1>0, <1>1 DEF vars, Delegate, Admit, AdmissionRefused, RunNextEvent
  <1>2. ASSUME NEW r \in Runs, RunStep(r) PROVE Goal
    <2>1. CASE LaunchBegins(r)
      BY <1>0, <1>e, <2>1 DEF LaunchBegins, Preparing, AbsentExec
    <2>2. CASE ~LaunchBegins(r)
      BY <1>0, <1>2, <1>n, <2>2 DEF RunStep, LaunchRefused, LaunchEnds, CaptureEnds, AttemptEnds,
         RetryDelivery
    <2> QED BY <2>1, <2>2
  <1>3. ASSUME NEW r \in Runs, ExecutorStep(r) PROVE Goal
    <2>1. CASE PrepareFails(r) \/ ReleaseSucceeds(r)
      BY <1>e, <2>1 DEF PrepareFails, ReleaseSucceeds, AbsentExec
    <2>2. CASE ReleaseFails(r)
      BY <2>2 DEF ReleaseFails, Clean, TypeOK
    <2>3. CASE ~PrepareFails(r) /\ ~ReleaseSucceeds(r) /\ ~ReleaseFails(r)
      <3>1. exec[r].phase # "absent"
        BY <1>3, <2>3 DEF ExecutorStep, Spawn, Loads, Opened, StartFails, TurnEnds, TurnPaused,
           AsksPermission, ProcessExits, Active
      <3>2. CASE Opened(r)
        <4>1. PICK saved, turn, phase :
                SetExec(r, [exec[r] EXCEPT !.saved = saved, !.start = "ok", !.turn = turn,
                                           !.phase = phase])
          BY <3>2 DEF Opened
        <4>2. [exec[r] EXCEPT !.saved = saved, !.start = "ok", !.turn = turn,
                              !.phase = phase].start = "ok"
          BY <1>t DEF Entries
        <4> QED BY <1>e, <4>1, <4>2
      <3>3. CASE ~Opened(r)
        <4>1. PICK e \in {exec[r], [exec[r] EXCEPT !.phase = "opening"],
                         [exec[r] EXCEPT !.phase = "loading"],
                         [exec[r] EXCEPT !.phase = "releasing", !.why = "startup"],
                         [exec[r] EXCEPT !.phase = "paused", !.turn = FALSE],
                         [exec[r] EXCEPT !.asked = exec[r].asked + 1,
                                         !.pending = @ \cup {exec[r].asked + 1}]}
                        \cup {Settling(r, outcome) : outcome \in Outcomes} :
                UNCHANGED exec \/ SetExec(r, e)
          BY <1>3, <2>3, <3>3 DEF ExecutorStep, Spawn, Loads, StartFails, TurnEnds, TurnPaused,
             AsksPermission, ProcessExits, Outcomes
        <4>2. e.start = exec[r].start
          BY <1>t, <4>1 DEF Settling, Entries
        <4> QED BY <1>0, <1>e, <3>1, <4>1, <4>2
      <3> QED BY <3>2, <3>3
    <2> QED BY <2>1, <2>2, <2>3
  <1>4. ASSUME NEW c \in Controls, ControlStep(c) PROVE Goal
    <2>1. ASSUME NEW r \in Runs, InterruptBegins(c, r) \/ ResumeBegins(c, r) \/ RespondBegins(c, r)
          PROVE  Goal
      <3>1. exec[r].phase # "absent"
        <4>1. PICK a \in {"interrupt", "resume", "respondPermission"} : Controllable(c, r, a)
          BY <2>1 DEF InterruptBegins, ResumeBegins, RespondBegins
        <4> QED BY <4>1 DEF Controllable, Actions, RuntimeActions, RecoveryState, Active
      <3>2. PICK e \in {[exec[r] EXCEPT !.phase = "interrupting"],
                       [exec[r] EXCEPT !.phase = "turn", !.turn = TRUE],
                       [exec[r] EXCEPT !.pending = @ \ {row[r].permission}]} : SetExec(r, e)
        BY <2>1 DEF InterruptBegins, ResumeBegins, RespondBegins
      <3>3. e.start = exec[r].start
        BY <1>t, <3>2 DEF Entries
      <3> QED BY <1>e, <3>1, <3>2, <3>3
    <2>2. ASSUME NEW r \in Runs, CancelBegins(c, r) PROVE Goal
      <3>1. UNCHANGED exec \/ SetExec(r, exec[r]) \/ SetExec(r, Stopping(r))
        BY <2>2 DEF CancelBegins
      <3> QED BY <1>0, <1>s, <1>t, <3>1 DEF SetExec
    <2>3. CASE InterruptRejected(c)
      <3> DEFINE r == ctl[c].run
      <3>1. r \in Runs /\ exec[r].phase = "interrupting"
        BY <2>3, ControlledRun DEF InterruptRejected
      <3>2. SetExec(r, [exec[r] EXCEPT !.phase = "turn"])
        BY <2>3 DEF InterruptRejected
      <3>3. [exec[r] EXCEPT !.phase = "turn"].start = exec[r].start
        BY <1>t, <3>1 DEF Entries
      <3> QED BY <1>e, <3>1, <3>2, <3>3
    <2>4. CASE InterruptFails(c) \/ CancelReleased(c) \/ CancelJoined(c)
      BY <1>0, <2>4 DEF InterruptFails, CancelReleased, CancelJoined
    <2> QED BY <1>4, <2>1, <2>2, <2>3, <2>4 DEF ControlStep
  <1>5. CASE CloseStep
    <2>1. CASE SuspendBegins
      <3>1. PICK r \in Runs : \/ SetExec(r, Stopping(r))
                              \/ Suspends(r) /\ SetExec(r, [exec[r] EXCEPT !.phase = "releasing",
                                                                          !.why = "suspend"])
        BY <2>1, FirstIsMember DEF SuspendBegins, TypeOK, ClosingTasks
      <3>2. CASE Suspends(r) /\ ~SetExec(r, Stopping(r))
        <4> DEFINE e == [exec[r] EXCEPT !.phase = "releasing", !.why = "suspend"]
        <4>1. e.start = exec[r].start /\ SetExec(r, e)
          BY <1>t, <3>1, <3>2 DEF Entries
        <4>2. exec[r].phase # "absent"
          BY <3>2 DEF Suspends, StartKnown
        <4> HIDE DEF e
        <4> QED BY <1>e, <4>1, <4>2
      <3> QED BY <1>s, <3>1, <3>2
    <2> QED BY <1>0, <1>5, <2>1 DEF CloseStep, Close, CloseProbes, SuspendEnds, CloseDrains,
               CloseSettles
  <1>6. ASSUME NEW c \in Conversations, DeleteStep(c) PROVE Goal
    <2>1. \/ UNCHANGED exec
          \/ \E r \in Runs : SetExec(r, exec[r]) \/ SetExec(r, Stopping(r))
      BY <1>6 DEF DeleteStep, DeleteBegins, DeleteCollects, DeleteCaptured, DeleteStops,
         DeleteStopped, DeleteUndone, DeleteDrains, DeleteClears, DeleteEnds, DeleteFails
    <2> QED BY <1>0, <1>s, <1>t, <2>1 DEF SetExec
  <1>7. CASE RecoveryStep
    <2>1. \/ UNCHANGED exec
          \/ \E r \in Runs : \/ SetExec(r, Preparing(TRUE))
                             \/ SetExec(r, [exec[r] EXCEPT !.start = "none"])
      BY <1>7, FirstIsMember DEF RecoveryStep, RestoreBegins, RestoreDeferred, RestoreEnds,
         RecoveryEnds, ReconcilePending, TypeOK, RecoveryTasks
    <2> QED BY <1>0, <1>e, <1>n, <2>1 DEF Preparing, AbsentExec
  <1>8. CASE Restart
    BY <1>8 DEF Restart, AbsentExec
  <1> QED BY <1>1, <1>2, <1>3, <1>4, <1>5, <1>6, <1>7, <1>8 DEF Next

LEMMA SettledStays ==
    ASSUME TypeOK, RowInvariant, RowInvariant', WorkerInvariant, WorkerInvariant', EntryInvariant,
           LifecycleKnown, ClosingKnown, FailedKnown, SettledKnown, [Next]_vars
    PROVE  SettledKnown'
  <1> SUFFICES ASSUME NEW s \in Runs, row'[s].completed
               PROVE  Over(s)' /\ (Clean' => Gone(s)')
    BY DEF SettledKnown
  <1> DEFINE Goal == Over(s)' /\ (Clean' => Gone(s)')
  <1>t. /\ \A r \in Runs : StartKnown(r)
        /\ StartKnown(s)' /\ EntryTells(exec[s], launch[s], native[s])
        /\ Clean' => Clean
    BY CleanBefore DEF WorkerInvariant, EntryInvariant, EntryKnown
  <1>r. CASE Restart
    <2>1. /\ row[s].completed /\ row'[s] = row[s] /\ exec'[s].phase = "absent"
          /\ launch'[s].step = "none" /\ native'[s] = native[s] /\ Clean' = Clean
          /\ s \notin recovering'.todo
      BY <1>r DEF Restart, tables, files, AbsentExec, IdleLaunch, UnfinishedRuns, Unfinished, Clean
    <2>2. row'[s].status # "absent" /\ (Clean => Gone(s))
      BY <2>1 DEF RowInvariant, WellFormed, SettledKnown
    <2> QED BY <2>1, <2>2 DEF Over, Gone, Ended, Running
  <1>k. ASSUME ~Restart, Over(s), Clean => Gone(s) PROVE Goal
    BY <1>k, <1>t, OverLasts, StepKeepsWorkers DEF Keeps, Lasts
  <1>1. CASE ~Restart /\ row[s].completed
    BY <1>1, <1>k DEF SettledKnown
  <1>2. CASE ~Restart /\ ~row[s].completed
    <2>1. /\ row'[s].status \in TerminalStatuses /\ row'[s].status # row[s].status
          /\ row[s].status # "absent"
      <3>1. WellFormed(row[s]) /\ WellFormed(row'[s])
        BY DEF RowInvariant
      <3>2. row'[s].status # "deleted" /\ row[s].status # "absent"
        <4>1. CASE RowsMove
          BY <1>2, <3>1, <4>1 DEF RowsMove, Moves, WellFormed
        <4>2. ASSUME NEW n \in Runs, Inserts(n) PROVE FALSE
          BY <1>2, <4>2 DEF Inserts, AbsentRow, TypeOK, Rows
        <4>3. ASSUME NEW c \in Conversations, Deletes(RunsOf(c))
              PROVE  row'[s].status # "deleted" /\ row[s].status # "absent"
          BY <1>2, <3>1, <4>3 DEF Deletes, WellFormed, TypeOK
        <4> QED BY <4>1, <4>2, <4>3, TableStep
      <3> QED BY <1>2, <3>1, <3>2 DEF WellFormed
    <2>2. Gone(s) \/ Fails(s)
      BY <1>t, <2>1, RowsFinish DEF WorkerInvariant
    <2>3. CASE Gone(s)
      BY <1>2, <1>k, <2>3 DEF Gone, Ended, Over
    <2>4. CASE LaunchRefused(s)
      <3>1. launch'[s].step = "skipped"
        BY <2>4 DEF LaunchRefused, TypeOK, Launches
      <3>2. Gone(s)'
        BY <1>t, <2>1, <3>1 DEF StartKnown, Gone, Ended, TerminalStatuses
      <3> QED BY <3>2 DEF Gone, Ended, Over
    <2>f. ASSUME FailedStart(exec[s]), s \notin recovering.todo, launch[s].step # "waiting"
          PROVE  Goal
      <3>1. Over(s)
        BY <1>t, <2>1, <2>f DEF Over, StartKnown, FailedStart
      <3>2. Clean => Gone(s)
        BY <1>t, <2>f, <3>1 DEF FailedKnown, FailedStart, Over, StartKnown, Gone, Ended
      <3> QED BY <1>2, <1>k, <3>1, <3>2
    <2>5. CASE LaunchEnds(s) /\ exec[s].start = "failed"
      BY <1>t, <2>5, <2>f DEF LaunchEnds, StartKnown, FailedStart
    <2>6. CASE RunNextEvent /\ NextEvent.run = s /\ NextEvent.kind = "failed"
      <3>1. events[1] = NextEvent /\ 1 \in 1..Len(events)
        BY <2>6 DEF RunNextEvent, NextEvent, TypeOK
      <3>2. Settles(s, "failed")
        BY <2>6, <3>1 DEF WorkerInvariant, StopKnown, QueueStopped, Outcomes
      <3> QED BY <1>2, <1>k, <3>2 DEF Settles, Ended, Over
    <2>7. CASE CloseSettles /\ s \in Stoppable
      <3>1. Over(s) \/ launch[s].step \notin {"none", "waiting", "started"}
        BY <2>7 DEF CloseSettles, Stoppable, ClosingKnown
      <3>2. launch[s].step \in {"none", "waiting", "started", "skipped", "ended"} /\ ~Clean
        BY <2>7 DEF TypeOK, Launches, CloseSettles, ClosingKnown, Clean
      <3>3. Over(s)
        BY <1>t, <2>1, <3>1, <3>2 DEF StartKnown, EntryTells, Over
      <3> QED BY <1>2, <1>k, <3>2, <3>3
    <2>8. CASE RestoreEnds /\ s = recovering.current /\ exec[s].start = "unsupported"
      BY <2>8, <2>f DEF LifecycleKnown, FailedStart
    <2> QED BY <2>2, <2>3, <2>4, <2>5, <2>6, <2>7, <2>8 DEF Fails
  <1> QED BY <1>r, <1>1, <1>2

\* Nothing begins for a Run that is not there, or whose conversation is being deleted.
LEMMA NothingBegins ==
    ASSUME TypeOK, [Next]_vars, NEW s \in Runs, ~Exists(s) \/ Conv(s) \in deleting
    PROVE  /\ capture[s] = "none" => capture'[s] = "none"
           /\ recon[s] = "none" => recon'[s] = "none"
           /\ \A k \in Controls : ctl'[k].run = s => ctl[k].run = s
  <1> USE DEF tasks, invocations, outsideExecutor, deletionOthers
  <1> DEFINE C == capture[s] = "none" => capture'[s] = "none"
             R == recon[s] = "none" => recon'[s] = "none"
             K == \A k \in Controls : ctl'[k].run = s => ctl[k].run = s
  <1>t. /\ capture \in [Runs -> {"none", "copying", "aborted"}]
        /\ recon \in [Runs -> {"none", "pending", "aborted"}]
        /\ ctl \in [Controls -> ControlTasks] /\ None # s
    BY NoneIsNoRun DEF TypeOK
  <1>u. (UNCHANGED capture => C) /\ (UNCHANGED recon => R) /\ (UNCHANGED ctl => K)
    OBVIOUS
  <1>r. ASSUME NEW r \in Runs, Exists(r) PROVE Reconciling(r)[s] = recon[s]
    BY <1>r, <1>t DEF Reconciling
  <1>f. ASSUME NEW r \in Runs, NEW status, Terminate(r, status) PROVE R
    BY <1>f, <1>r, <1>u DEF Terminate
  <1>k. ASSUME NEW c \in Controls, NEW e, ctl' = [ctl EXCEPT ![c] = e],
               e.run = s => ctl[c].run = s
        PROVE  K
    BY <1>k, <1>t
  <1>1. CASE \/ UNCHANGED vars
             \/ \E d \in Delegations : \/ \E q \in Calls : Delegate(d, q)
                                       \/ Admit(d) \/ AdmissionRefused(d)
    BY <1>1, <1>u DEF vars, Delegate, Admit, AdmissionRefused, AdmissionSettles
  <1>2. ASSUME NEW r \in Runs, RunStep(r) PROVE C /\ R /\ K
    <2>1. CASE LaunchBegins(r) \/ LaunchRefused(r) \/ LaunchEnds(r)
      BY <1>f, <1>u, <2>1 DEF LaunchBegins, LaunchRefused, LaunchEnds
    <2>2. ASSUME NEW status \in {"completed", "failed"}, CaptureEnds(r, status) PROVE C /\ R /\ K
      BY <1>f, <1>t, <1>u, <2>2 DEF CaptureEnds
    <2>3. CASE (\E acknowledged \in BOOLEAN : AttemptEnds(r, acknowledged)) \/ RetryDelivery(r)
      BY <1>r, <1>t, <1>u, <2>3 DEF AttemptEnds, RetryDelivery
    <2> QED BY <1>2, <2>1, <2>2, <2>3 DEF RunStep
  <1>3. ASSUME NEW r \in Runs, ExecutorStep(r) PROVE C /\ R /\ K
    <2>1. C /\ R
      BY <1>3, <1>u, ExecutorLeaves
    <2>2. ASSUME TurnPaused(r) PROVE K
      <3>1. PICK c \in Controls : ctl' = [ctl EXCEPT ![c] = [ctl[c] EXCEPT !.step = "apply"]]
        BY <2>2 DEF TurnPaused
      <3>2. \A t \in ControlTasks : [t EXCEPT !.step = "apply"].run = t.run
        BY DEF ControlTasks
      <3> QED BY <1>k, <1>t, <3>1, <3>2
    <2>3. ASSUME ~TurnPaused(r) PROVE K
      BY <1>3, <1>u, <2>3 DEF ExecutorStep, Spawn, PrepareFails, Loads, Opened, StartFails, TurnEnds,
         AsksPermission, ProcessExits, ReleaseSucceeds, ReleaseFails
    <2> QED BY <2>1, <2>2, <2>3
  <1>4. CASE RunNextEvent
    <2>1. NextEvent \in QueuedEvents
      BY <1>4 DEF RunNextEvent, NextEvent, TypeOK
    <2>2. PICK r \in Runs : r = NextEvent.run
      BY <2>1 DEF QueuedEvents
    <2>3. CASE NextEvent.kind \in ExecutorEvents
      <3>1. ApplyExecutorEvent(NextEvent) /\ UNCHANGED ctl
        BY <1>4, <2>3 DEF RunNextEvent
      <3>2. CASE UNCHANGED <<recon, capture>>
        BY <1>u, <3>1, <3>2
      <3>3. CASE Exists(r) /\ Completes(r)
        BY <1>f, <1>t, <1>u, <3>1, <3>3 DEF Completes
      <3>4. CASE UNCHANGED capture /\ Terminate(r, NextEvent.kind)
        BY <1>f, <1>u, <3>1, <3>4
      <3> QED BY <2>2, <3>1, <3>2, <3>3, <3>4 DEF ApplyExecutorEvent
    <2>4. CASE NextEvent.kind \notin ExecutorEvents
      <3>1. /\ ApplyControl(NextEvent) /\ UNCHANGED capture
            /\ ctl' = [ctl EXCEPT ![NextEvent.by] = IdleControl]
        BY <1>4, <2>4 DEF RunNextEvent
      <3>2. UNCHANGED recon \/ Terminate(r, "cancelled")
        BY <2>2, <3>1 DEF ApplyControl
      <3>3. K
        BY <1>t, <3>1 DEF IdleControl
      <3> QED BY <1>f, <1>u, <3>1, <3>2, <3>3
    <2> QED BY <2>3, <2>4
  <1>5. ASSUME NEW c \in Controls, ControlStep(c) PROVE C /\ R /\ K
    <2>1. UNCHANGED <<capture, recon>>
      BY <1>5, ControlLeaves
    <2>2. ASSUME NEW r \in Runs, \/ InterruptBegins(c, r) \/ ResumeBegins(c, r)
                                 \/ RespondBegins(c, r) \/ CancelBegins(c, r)
          PROVE  K
      <3>1. \E action : Controllable(c, r, action)
        BY <2>2 DEF InterruptBegins, ResumeBegins, RespondBegins, CancelBegins
      <3>2. r # s
        BY <3>1 DEF Controllable, Actions, Unfinished, Exists, ResourceStatuses
      <3>3. UNCHANGED ctl \/ \E step : Step(c, step, r)
        BY <2>2 DEF InterruptBegins, ResumeBegins, RespondBegins, CancelBegins
      <3> QED BY <1>k, <1>u, <3>2, <3>3 DEF Step
    <2>3. ASSUME \/ InterruptFails(c) \/ InterruptRejected(c) \/ CancelReleased(c)
                 \/ CancelJoined(c)
          PROVE  K
      <3> DEFINE Left(step, r) == ctl' = [ctl EXCEPT ![c] = [step |-> step, run |-> r]]
      <3>1. \/ Left("idle", None) \/ Left("join", ctl[c].run) \/ Left("apply", ctl[c].run)
        BY <2>3 DEF InterruptFails, InterruptRejected, CancelReleased, CancelJoined, Step
      <3> QED BY <1>t, <3>1
    <2> QED BY <1>5, <1>u, <2>1, <2>2, <2>3 DEF ControlStep
  <1>6. CASE CloseStep
    <2>1. CASE Close \/ CloseDrains
      BY <1>t, <1>u, <2>1 DEF Close, CloseDrains, Abort
    <2>2. CASE CloseProbes \/ SuspendBegins \/ SuspendEnds \/ CloseSettles
      BY <1>u, <2>2 DEF CloseProbes, SuspendBegins, SuspendEnds, CloseSettles
    <2> QED BY <1>6, <2>1, <2>2 DEF CloseStep
  <1>7. ASSUME NEW c \in Conversations, DeleteStep(c) PROVE C /\ R /\ K
    <2>1. CASE DeleteBegins(c) \/ DeleteDrains(c)
      BY <1>t, <1>u, <2>1 DEF DeleteBegins, DeleteDrains, Abort
    <2>2. CASE ~DeleteBegins(c) /\ ~DeleteDrains(c)
      BY <1>7, <1>u, <2>2 DEF DeleteStep, DeleteCollects, DeleteCaptured, DeleteStops,
         DeleteStopped, DeleteUndone, DeleteClears, DeleteEnds, DeleteFails
    <2> QED BY <2>1, <2>2
  <1>8. CASE RecoveryStep
    <2>1. UNCHANGED <<capture, ctl>>
      BY <1>8, RecoveryLeaves
    <2>2. R
      BY <1>8, <1>r, <1>u DEF RecoveryStep, RestoreBegins, RestoreDeferred, RestoreEnds,
         RecoveryEnds, ReconcilePending
    <2> QED BY <1>u, <2>1, <2>2
  <1>9. CASE Restart
    BY <1>9, <1>t DEF Restart, IdleControl
  <1> QED BY <1>1, <1>2, <1>3, <1>4, <1>5, <1>6, <1>7, <1>8, <1>9 DEF Next

\* Only its own deletion moves what is known of a conversation.
LEMMA DeletionWritten ==
    ASSUME TypeOK, [Next]_vars, NEW c \in Conversations
    PROVE  \/ DeleteStep(c) \/ deletion'[c].step \in {"none", "done"}
           \/ deletion'[c].step = deletion[c].step /\ deletion'[c].lost = deletion[c].lost
  <1> USE DEF lifecycle, outsideExecutor, recoveryOthers
  <1>t. deletion \in [Conversations -> DeletionTasks]
    BY DEF TypeOK
  <1>1. CASE \/ UNCHANGED vars \/ RunNextEvent
             \/ \E d \in Delegations, q \in Calls : Delegate(d, q)
    BY <1>1 DEF vars, RunNextEvent, Delegate
  <1>2. CASE \E d \in Delegations : Admit(d) \/ AdmissionRefused(d)
    <2>1. PICK d : deletion' = [x \in Conversations |-> [deletion[x] EXCEPT !.waits = @ \ {d}]]
      BY <1>2 DEF Admit, AdmissionRefused, AdmissionSettles
    <2> QED BY <1>t, <2>1 DEF DeletionTasks
  <1>3. CASE \E r \in Runs : RunStep(r) \/ ExecutorStep(r)
    BY <1>3, RunLeaves, ExecutorLeaves
  <1>4. CASE (\E k \in Controls : ControlStep(k)) \/ CloseStep
    BY <1>4, ControlLeaves, CloseLeaves
  <1>5. ASSUME NEW x \in Conversations, x # c, DeleteStep(x) PROVE deletion'[c] = deletion[c]
    BY <1>5, <1>t DEF DeleteStep, DeleteBegins, DeleteCollects, DeleteCaptured, DeleteStops,
       DeleteThrows, DeleteStopped, DeleteUndone, DeleteDrains, DeleteClears, DeleteEnds,
       DeleteFails
  <1>6. CASE RecoveryStep
    BY <1>6, RecoveryLeaves
  <1>7. CASE Restart
    BY <1>7 DEF Restart, NotDeleting
  <1> QED BY <1>1, <1>2, <1>3, <1>4, <1>5, <1>6, <1>7 DEF Next

LEMMA QuietStays ==
    ASSUME TypeOK, RowInvariant, QuietKnown, [Next]_vars
    PROVE  QuietKnown'
  <1> USE DEF tasks, deletionOthers
  <1>t. /\ deletion \in [Conversations -> DeletionTasks] /\ row \in [Runs -> Rows]
        /\ capture \in [Runs -> {"none", "copying", "aborted"}]
    BY DEF TypeOK
  <1>0. ASSUME NEW r \in Runs, ~Exists(r) PROVE Still(r)'
    <2>1. Still(r)
      BY <1>0 DEF QuietKnown
    <2> QED BY <1>0, <2>1, NothingBegins DEF Still
  <1>1. ASSUME NEW r \in Runs, ~Exists(r)' PROVE Still(r)'
    <2>1. CASE Exists(r)
      <3>1. PICK c \in Conversations : Deletes(RunsOf(c)) /\ DeleteEnds(c) /\ r \in RunsOf(c)
        <4>1. ASSUME RowsMove PROVE FALSE
          BY <1>1, <2>1, <4>1 DEF RowsMove, Moves, Exists
        <4>2. ASSUME NEW n \in Runs, Inserts(n) PROVE FALSE
          BY <1>1, <1>t, <2>1, <4>2 DEF Inserts, AbsentRow, Exists
        <4>3. ASSUME NEW c \in Conversations, Deletes(RunsOf(c)), r \notin RunsOf(c) PROVE FALSE
          BY <1>1, <2>1, <4>3 DEF Deletes, Exists
        <4> QED BY <4>1, <4>2, <4>3, TableStep
      <3>2. Still(r)
        BY <3>1 DEF QuietKnown, DeletionQuiet, DeleteEnds
      <3> QED BY <3>1, <3>2 DEF Still, DeleteEnds
    <2> QED BY <1>0, <2>1
  <1>2. ASSUME NEW c \in Conversations PROVE DeletionQuiet(c)'
    <2>r. ASSUME NEW r \in RunsOf(c)' PROVE r \in RunsOf(c) \/ Still(r)'
      <3>r. r \in Runs
        BY DEF RunsOf
      <3>1. CASE Exists(r)
        <4>1. row'[r].call = row[r].call
          <5>1. ASSUME NEW n \in Runs, Inserts(n) PROVE row'[r].call = row[r].call
            BY <1>t, <3>1, <3>r, <5>1 DEF Inserts, Exists
          <5>2. ASSUME NEW x \in Conversations, Deletes(RunsOf(x)) PROVE row'[r].call = row[r].call
            BY <1>t, <3>r, <5>2 DEF Deletes, Rows
          <5> QED BY <3>r, <5>1, <5>2, TableStep DEF RowsMove, Moves
        <4> QED BY <3>1, <3>r, <4>1 DEF RunsOf, Conv
      <3> QED BY <1>0, <3>1, <3>r
    <2>d. deletion[c].step \in {"captures", "rows", "undo", "drain", "remove"} => c \in deleting
      BY DEF RowInvariant, DeletionKnows
    <2>s. ASSUME NEW r \in RunsOf(c), c \in deleting
          PROVE  (capture[r] = "none" => capture'[r] = "none") /\ (Still(r) => Still(r)')
      BY <2>s, NothingBegins DEF RunsOf, Still
    <2>1. CASE deletion'[c].step \in {"none", "done"}
      BY <2>1 DEF DeletionQuiet
    <2>2. CASE deletion'[c].step = deletion[c].step /\ deletion'[c].lost = deletion[c].lost
      BY <2>2, <2>r, <2>d, <2>s DEF QuietKnown, DeletionQuiet, Still
    <2>3. CASE DeleteStep(c) /\ ~(deletion'[c].step \in {"none", "done"})
      <3>1. CASE DeleteBegins(c)
        <4>1. /\ deletion'[c].step = "captures"
              /\ deletion'[c].lost = {r \in RunsOf(c) : capture[r] # "none"}
              /\ \A r \in Runs : capture[r] = "none" => capture'[r] = "none"
          BY <1>t, <3>1 DEF DeleteBegins, NotDeleting, Abort
        <4> QED BY <2>r, <4>1 DEF DeletionQuiet, RunsOf, Still
      <3>2. CASE DeleteCollects(c)
        <4>1. /\ deletion'[c].step = "rows" /\ deletion[c].step = "captures"
              /\ \A r \in deletion[c].lost : capture[r] = "none"
          BY <1>t, <3>2 DEF DeleteCollects, DeletionTasks
        <4> QED BY <2>r, <2>d, <2>s, <4>1 DEF QuietKnown, DeletionQuiet, Still
      <3>3. CASE \/ \E r \in Runs : DeleteCaptured(c, r) \/ DeleteStops(c, r)
                 \/ DeleteStopped(c) \/ DeleteUndone(c) \/ DeleteDrains(c)
        <4>1. /\ deletion[c].step \in {"rows", "undo"}
              /\ deletion'[c].step \in {"rows", "undo", "drain"}
          <5>1. CASE DeleteThrows(c) /\ deletion[c].step = "rows"
            <6>1. \/ deletion'[c] = NotDeleting
                  \/ deletion'[c] = [deletion[c] EXCEPT !.step = "undo", !.current = None]
              BY <1>t, <5>1 DEF DeleteThrows
            <6>2. [deletion[c] EXCEPT !.step = "undo", !.current = None].step = "undo"
              BY <1>t DEF DeletionTasks
            <6>3. NotDeleting.step = "none"
              BY DEF NotDeleting
            <6> QED BY <2>3, <5>1, <6>1, <6>2, <6>3
          <5>2. CASE ~DeleteThrows(c)
            <6>1. ASSUME NEW r \in Runs, DeleteStops(c, r) PROVE deletion'[c].step = "rows"
              <7>1. /\ deletion[c].step = "rows"
                    /\ deletion' = [deletion EXCEPT ![c].current = r, ![c].todo = @ \ {r}]
                BY <5>2, <6>1 DEF DeleteStops, Deleting
              <7> QED BY <1>t, <7>1 DEF DeletionTasks
            <6>2. CASE DeleteStopped(c)
              BY <1>t, <5>2, <6>2 DEF DeleteStopped, DeletionTasks
            <6>3. ASSUME NEW r \in Runs, DeleteCaptured(c, r) PROVE deletion'[c].step = "rows"
              BY <1>t, <6>3 DEF DeleteCaptured, Deleting, DeletionTasks
            <6>4. CASE DeleteDrains(c)
              BY <1>t, <6>4 DEF DeleteDrains, DeletionTasks
            <6>5. CASE DeleteUndone(c)
              BY <1>t, <2>3, <6>5 DEF DeleteUndone, NotDeleting, DeletionTasks
            <6>6. \A r \in Runs : DeleteCaptured(c, r) \/ DeleteStops(c, r) => deletion[c].step = "rows"
              BY DEF DeleteCaptured, DeleteStops, Deleting
            <6>7. DeleteStopped(c) \/ DeleteDrains(c) => deletion[c].step = "rows"
              BY DEF DeleteStopped, DeleteDrains
            <6> QED BY <3>3, <6>1, <6>2, <6>3, <6>4, <6>5, <6>6, <6>7
          <5>3. CASE DeleteUndone(c)
            BY <1>t, <2>3, <5>3 DEF DeleteUndone, NotDeleting, DeletionTasks
          <5> QED BY <3>3, <5>1, <5>2, <5>3 DEF DeleteCaptured, DeleteStops, Deleting, DeleteStopped,
                     DeleteDrains
        <4> QED BY <2>r, <2>d, <2>s, <4>1 DEF QuietKnown, DeletionQuiet, Still
      <3>4. CASE DeleteClears(c)
        <4>1. /\ deletion[c].step = "drain" /\ deletion'[c].step = "remove"
              /\ \A r \in RunsOf(c) : recon[r] = "none" /\ \A k \in Controls : ctl[k].run # r
          BY <1>t, <3>4, NoneIsNoRun DEF DeleteClears, DeletionTasks, TypeOK, ControlTasks, RunsOf
        <4> QED BY <2>r, <2>d, <2>s, <4>1 DEF QuietKnown, DeletionQuiet, Still
      <3>5. CASE DeleteEnds(c) \/ DeleteFails(c)
        BY <1>t, <2>3, <3>5 DEF DeleteEnds, DeleteFails, NotDeleting
      <3> QED BY <2>3, <3>1, <3>2, <3>3, <3>4, <3>5 DEF DeleteStep
    <2> QED BY <2>1, <2>2, <2>3, DeletionWritten
  <1> QED BY <1>1, <1>2 DEF QuietKnown

\* No worker is started for a settled Run, and nothing begins for one whose
\* conversation is being deleted or that is not there.
THEOREM SettledStayQuiet ==
    Spec => [](/\ TypeOK /\ RowInvariant /\ WorkerInvariant /\ EntryInvariant
               /\ KeptInvariant /\ QuietInvariant)
  <1> DEFINE Before == TypeOK /\ RowInvariant /\ WorkerInvariant /\ EntryInvariant /\ KeptInvariant
  <1>1. Init => QuietInvariant
    <2> SUFFICES ASSUME Init PROVE QuietInvariant
      OBVIOUS
    <2>1. \A r \in Runs : ~row[r].completed /\ Still(r) /\ exec[r].start = "none"
      BY NoneIsNoRun DEF Init, AbsentRow, AbsentExec, IdleControl, Still
    <2>2. \A c \in Conversations : deletion[c].step = "none"
      BY DEF Init, NotDeleting
    <2>3. closing.step = "open" /\ closing.lost \cup closing.owned = {}
      BY DEF Init, NotClosing
    <2> QED BY <2>1, <2>2, <2>3 DEF QuietInvariant, ClosingKnown, FailedKnown, FailedStart,
               SettledKnown, QuietKnown, DeletionQuiet
  <1>2. Before /\ Before' /\ QuietInvariant /\ [Next]_vars => QuietInvariant'
    <2> SUFFICES ASSUME Before, Before', QuietInvariant, [Next]_vars PROVE QuietInvariant'
      OBVIOUS
    <2>1. (\A r \in Runs : StartKnown(r)) /\ LifecycleKnown
      BY DEF WorkerInvariant, KeptInvariant
    <2>2. ClosingKnown' /\ FailedKnown' /\ SettledKnown' /\ QuietKnown'
      BY <2>1, ClosingStays, FailedStays, SettledStays, QuietStays DEF QuietInvariant
    <2> QED BY <2>2 DEF QuietInvariant
  <1>3. Spec => []Before
    BY RunsWellKept, PTL
  <1> QED BY <1>1, <1>2, <1>3, PTL DEF Spec

\* A deleted conversation stays quiet: none of its Runs is launched, controlled,
\* captured, delivered or executed after the deletion returned.
THEOREM DeletedStayQuiet == Spec => []DeletedIsQuiet
  <1>1. RowInvariant /\ QuietInvariant => DeletedIsQuiet
    <2> SUFFICES ASSUME RowInvariant, QuietInvariant, NEW r \in Runs, row[r].status = "deleted"
                 PROVE  /\ Over(r) /\ Still(r)
                        /\ Clean => Gone(r)
      BY DEF DeletedIsQuiet, Over, Still, Clean, Gone, Ended
    <2>1. row[r].completed /\ ~Exists(r)
      BY DEF RowInvariant, WellFormed, Exists
    <2> QED BY <2>1 DEF QuietInvariant, SettledKnown, QuietKnown
  <1> QED BY <1>1, SettledStayQuiet, PTL
===========================================================================
