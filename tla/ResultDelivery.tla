---------------------------- MODULE ResultDelivery ----------------------------
(* The delivery of Run results into the transcript of one conversation, beside *)
(* the user's messages, a Stop, closing (archiving) and deleting the           *)
(* conversation (companion/pi-runtime.ts, companion/session-catalog.ts), and   *)
(* the attempts by which the Run service drives it (run-service.ts,            *)
(* reconcileRun).                                                              *)
(*                                                                             *)
(* The Runs are terminal.  Everything that changes the session goes through    *)
(* one sequence per conversation (a PQueue with concurrency 1); its head may   *)
(* wait for the session's opening, for the preflight of a prompt or for the    *)
(* end of a turn, and meanwhile the native session goes on by itself.  That    *)
(* session is a library outside the repository; its turn, its follow-up queue  *)
(* and sendCustomMessage are modelled from the code that uses them.            *)
EXTENDS Naturals, Sequences

CONSTANTS Runs,          \* terminal Runs of the conversation
          Calls,         \* deliverExternalResult() calls, used again when they ended
          None,          \* no call, no Run
          MaxFailures,   \* bound: steps that fail
          MaxRestarts    \* bound: deaths of the process

Marks == {"none", "recording"}
ASSUME CallsAssumption == /\ Calls \cap {"send", "close", "delete"} = {}
                          /\ Calls \cap Marks = {}
                          /\ None \notin Runs
ASSUME BoundsAssumption == MaxFailures \in Nat /\ MaxRestarts \in Nat

VARIABLES file,       \* the session file exists
          member,     \* the conversation and its Runs are in the database
          copies,     \* [Runs -> entries with the Run's result ever appended to the file]
          reported,   \* [Runs -> resultReportedAt is set]
          session,    \* an AgentSession is open
          turn,       \* the native turn: "idle" or "streaming"
          starter,    \* the Run whose message started the turn and is not appended yet
          followUps,  \* [Runs -> its messages in the native follow-up queue]
          op,         \* [Runs -> externalDeliveries: none, sending or sent]
          call,       \* [Calls -> the Run and how far the call is]
          attempt,    \* [Runs -> the call an attempt waits for, "recording" or "none"]
          sequence,   \* the tasks of sessionEvents, the head is at work
          phase,      \* what the head waits for
          closing,    \* closing.has(): "no", "pending" or "failed"
          deleting,   \* deleting.has()
          fenced,     \* deletingConversations of the Run service
          failures, restarts

disk == <<file, member, copies, reported>>
native == <<session, turn, starter, followUps>>
deliveries == <<op, call, attempt>>
fences == <<closing, deleting, fenced>>
bounds == <<failures, restarts>>
vars == <<disk, native, deliveries, sequence, phase, fences, bounds>>

Tasks == Calls \cup {"send", "close", "delete"}
Phases == {"idle", "opening", "opened", "prompting", "aborting", "draining",
           "preparing", "stopping", "unlinking", "purging"}
Free == [run |-> None, at |-> "idle"]

Init == /\ file = TRUE /\ member = TRUE
        /\ copies = [r \in Runs |-> 0]
        /\ reported = [r \in Runs |-> FALSE]
        /\ session = FALSE /\ turn = "idle" /\ starter = None
        /\ followUps = [r \in Runs |-> 0]
        /\ op = [r \in Runs |-> "none"]
        /\ call = [c \in Calls |-> Free]
        /\ attempt = [r \in Runs |-> "none"]
        /\ sequence = <<>> /\ phase = "idle"
        /\ closing = "no" /\ deleting = FALSE /\ fenced = FALSE
        /\ failures = 0 /\ restarts = 0

Fails == failures < MaxFailures /\ failures' = failures + 1 /\ UNCHANGED restarts

(* requireAvailable *)
Available == ~deleting /\ closing = "no"

Queued == {sequence[i] : i \in 1..Len(sequence)}
At(task) == sequence # <<>> /\ Head(sequence) = task
TaskEnds == sequence' = Tail(sequence) /\ phase' = "idle"
TaskWaits(p) == phase' = p /\ UNCHANGED sequence

-----------------------------------------------------------------------------
(* Calls and attempts *)

(***************************************************************************)
(* The calls in ended end, and the attempts that still wait for them learn *)
(* whether the entry is there: with it the acknowledgement is queued,      *)
(* without it the attempt is given up and the Run stays unreported.        *)
(***************************************************************************)
CallsEnd(ended, there) ==
    /\ call' = [c \in Calls |-> IF c \in ended THEN Free ELSE call[c]]
    /\ attempt' = [r \in Runs |-> IF attempt[r] \notin ended THEN attempt[r]
                                  ELSE IF r \in there THEN "recording" ELSE "none"]

WaitingFor(runs) == {c \in Calls : call[c].at = "waiting" /\ call[c].run \in runs}

(* Seeded fault: the exhaustion of the native queue is not noticed. *)
ReconcileEntries(ops, entries, exhausted) ==
    LET over == {r \in Runs : ops[r] # "none" /\ entries[r] > 0}
    IN  /\ op' = [r \in Runs |-> IF r \in over THEN "none" ELSE ops[r]]
        /\ CallsEnd(WaitingFor(over), {r \in Runs : entries[r] > 0})

(***************************************************************************)
(* reconcile, for every delivery in ops, when entries are in the file:     *)
(* a delivery ends with its entry, or without one when its message was     *)
(* sent and the native queue is exhausted.                                 *)
(***************************************************************************)
Reconcile(ops, entries, exhausted) ==
    LET over == {r \in Runs : \/ ops[r] # "none" /\ entries[r] > 0
                              \/ ops[r] = "sent" /\ exhausted}
    IN  /\ op' = [r \in Runs |-> IF r \in over THEN "none" ELSE ops[r]]
        /\ CallsEnd(WaitingFor(over), {r \in Runs : entries[r] > 0})

Exhausted(queue) == \A r \in Runs : queue[r] = 0

(* reconcileRun: the attempt calls onTerminal, which refuses at once or     *)
(* enters the sequence.                                                     *)
Attempt(r) == /\ member /\ ~reported[r] /\ ~fenced /\ attempt[r] = "none"
              /\ Available
              /\ \E c \in Calls :
                    /\ call[c] = Free
                    /\ call' = [call EXCEPT ![c] = [run |-> r, at |-> "queued"]]
                    /\ attempt' = [attempt EXCEPT ![r] = c]
                    /\ sequence' = Append(sequence, c)
              /\ UNCHANGED <<disk, native, op, phase, fences, bounds>>

(* waitForReconciliationAttempt gives up; the delivery goes on. *)
AttemptTimesOut(r) == /\ attempt[r] \in Calls
                      /\ attempt' = [attempt EXCEPT ![r] = "none"]
                      /\ UNCHANGED <<disk, native, op, call, sequence, phase, fences, bounds>>

(* Seeded fault: the time limit of a call also forgets its delivery. *)
CallTimesOutForgets(c) ==
    /\ call[c].at = "waiting"
    /\ CallsEnd({c}, {})
    /\ op' = [op EXCEPT ![call[c].run] = "none"]
    /\ UNCHANGED <<disk, native, sequence, phase, fences, bounds>>

(* pi_result_delivery_pending: the call gives up, its delivery goes on. *)
CallTimesOut(c) == /\ call[c].at = "waiting"
                   /\ CallsEnd({c}, {})
                   /\ UNCHANGED <<disk, native, op, sequence, phase, fences, bounds>>

Record(r) == /\ attempt[r] = "recording"
             /\ reported' = [reported EXCEPT ![r] = TRUE]
             /\ attempt' = [attempt EXCEPT ![r] = "none"]
             /\ UNCHANGED <<file, member, copies, native, op, call, sequence, phase, fences, bounds>>

-----------------------------------------------------------------------------
(* Tasks of the sequence *)

HeadRun == call[Head(sequence)].run

HeadDelivers == sequence # <<>> /\ Head(sequence) \in Calls

(* requireSessionNow has answered.  The fences are read when a task begins, and *)
(* not again when the session that it opened is there.                          *)
HasSession == session /\ (phase = "opened" \/ (phase = "idle" /\ Available))

(* Seeded fault: the call is dropped from the sequence without an answer. *)
DeliverRefusedSilently == /\ phase = "idle" /\ HeadDelivers
                          /\ ~Available \/ (~session /\ ~file)
                          /\ TaskEnds
                          /\ UNCHANGED <<disk, native, deliveries, fences, bounds>>

(* A fence was raised while the call was queued, or there is no session file. *)
DeliverRefused == /\ phase = "idle" /\ HeadDelivers
                  /\ ~Available \/ (~session /\ ~file)
                  /\ CallsEnd({Head(sequence)}, {})
                  /\ TaskEnds
                  /\ UNCHANGED <<disk, native, op, fences, bounds>>

Opens == /\ phase = "idle" /\ Available
         /\ sequence # <<>> /\ Head(sequence) \in Calls \cup {"send"}
         /\ ~session /\ file
         /\ TaskWaits("opening")
         /\ UNCHANGED <<disk, native, deliveries, fences, bounds>>

(* The session is registered, and the task goes on with it. *)
OpenEnds == /\ phase = "opening"
            /\ session' = TRUE
            /\ TaskWaits("opened")
            /\ UNCHANGED <<disk, turn, starter, followUps, deliveries, fences, bounds>>

OpenFails == /\ phase = "opening"
             /\ Fails
             /\ IF Head(sequence) \in Calls THEN CallsEnd({Head(sequence)}, {})
                ELSE UNCHANGED <<call, attempt>>
             /\ TaskEnds
             /\ UNCHANGED <<disk, native, op, fences>>

(* The entry is there already: the delivery of an earlier attempt. *)
DeliverFound == /\ HeadDelivers /\ HasSession
                /\ copies[HeadRun] > 0
                /\ CallsEnd({Head(sequence)}, {HeadRun})
                /\ TaskEnds
                /\ UNCHANGED <<disk, native, op, fences, bounds>>

CallWaits == /\ call' = [call EXCEPT ![Head(sequence)].at = "waiting"]
             /\ UNCHANGED attempt

(* A delivery of this session is under way already: the call joins it. *)
DeliverJoins == /\ HeadDelivers /\ HasSession
                /\ copies[HeadRun] = 0 /\ op[HeadRun] # "none"
                /\ CallWaits
                /\ TaskEnds
                /\ UNCHANGED <<disk, native, op, fences, bounds>>

(* beginExternalDelivery: sendCustomMessage starts a turn when the session is *)
(* idle, and resolves when that turn ends; it adds to the queue and resolves  *)
(* when the session is busy.                                                  *)
Sends == /\ CallWaits
         /\ IF turn = "idle"
            THEN /\ turn' = "streaming" /\ starter' = HeadRun
                 /\ op' = [op EXCEPT ![HeadRun] = "sending"]
                 /\ UNCHANGED followUps
            ELSE /\ followUps' = [followUps EXCEPT ![HeadRun] = @ + 1]
                 /\ op' = [op EXCEPT ![HeadRun] = "sent"]
                 /\ UNCHANGED <<turn, starter>>
         /\ TaskEnds
         /\ UNCHANGED <<disk, session, fences, bounds>>

(* Seeded fault: the transcript is not searched for the entry first. *)
DeliverSendsUnread == HeadDelivers /\ HasSession /\ op[HeadRun] = "none" /\ Sends

DeliverSends == /\ HeadDelivers /\ HasSession
                /\ copies[HeadRun] = 0 /\ op[HeadRun] = "none"
                /\ Sends

Send == /\ Available /\ "send" \notin Queued
        /\ sequence' = Append(sequence, "send")
        /\ UNCHANGED <<disk, native, deliveries, phase, fences, bounds>>

SendRefused == /\ At("send")
               /\ \/ phase = "idle" /\ (~Available \/ (~session /\ ~file))
                  \/ HasSession /\ turn # "idle"
               /\ TaskEnds
               /\ UNCHANGED <<disk, native, deliveries, fences, bounds>>

SendPrompts == /\ At("send") /\ HasSession /\ turn = "idle"
               /\ TaskWaits("prompting")
               /\ UNCHANGED <<disk, native, deliveries, fences, bounds>>

(* The preflight accepts the prompt and its turn starts, or it rejects it. *)
PromptAccepted == /\ phase = "prompting"
                  /\ turn' = "streaming"
                  /\ TaskEnds
                  /\ UNCHANGED <<disk, session, starter, followUps, deliveries, fences, bounds>>

PromptRejected == /\ phase = "prompting"
                  /\ TaskEnds
                  /\ UNCHANGED <<disk, native, deliveries, fences, bounds>>

-----------------------------------------------------------------------------
(* The native session *)

Appends(r) == copies' = [copies EXCEPT ![r] = @ + 1]

(* The message that started the turn enters the transcript. *)
TurnBegins == /\ starter # None
              /\ Appends(starter) /\ starter' = None
              /\ Reconcile(op, copies', FALSE)
              /\ UNCHANGED <<file, member, reported, session, turn, followUps,
                            sequence, phase, fences, bounds>>

(* The turn fails before that, and sendCustomMessage rejects. *)
TurnFails == /\ starter # None
             /\ Fails
             /\ turn' = "idle" /\ starter' = None
             /\ Reconcile([op EXCEPT ![starter] = "none"], copies, Exhausted(followUps))
             /\ UNCHANGED <<disk, session, followUps, sequence, phase, fences>>

(* The running turn takes a message from the follow-up queue. *)
TurnTakes == /\ turn = "streaming" /\ starter = None
             /\ \E r \in Runs :
                   /\ followUps[r] > 0
                   /\ Appends(r)
                   /\ followUps' = [followUps EXCEPT ![r] = @ - 1]
             /\ Reconcile(op, copies', FALSE)
             /\ UNCHANGED <<file, member, reported, session, turn, starter,
                            sequence, phase, fences, bounds>>

(* agent_settled; the sendCustomMessage that started the turn resolves. *)
Settles(queue) ==
    /\ turn' = "idle" /\ starter' = None
    /\ followUps' = queue
    /\ Reconcile([r \in Runs |-> IF op[r] = "sending" THEN "sent" ELSE op[r]],
                 copies, Exhausted(queue))

TurnEnds == /\ turn = "streaming" /\ starter = None /\ Exhausted(followUps)
            /\ Settles(followUps)
            /\ UNCHANGED <<disk, session, sequence, phase, fences, bounds>>

(* A Stop of the user, or an error of the model: the queue stays or is emptied. *)
TurnStops == /\ turn = "streaming"
             /\ \E queue \in {followUps, [r \in Runs |-> 0]} : Settles(queue)
             /\ UNCHANGED <<disk, session, sequence, phase, fences, bounds>>

-----------------------------------------------------------------------------
(* Closing *)

Close == /\ ~deleting /\ closing # "pending"
         /\ closing' = "pending"
         /\ sequence' = Append(sequence, "close")
         /\ UNCHANGED <<disk, native, deliveries, phase, deleting, fenced, bounds>>

(* Seeded fault: the memory is drained without an abort of the turn. *)
CloseNowUnaborted == /\ phase = "idle" /\ (At("close") \/ At("delete"))
                     /\ session
                     /\ TaskWaits("draining")
                     /\ UNCHANGED <<disk, native, deliveries, fences, bounds>>

(* closeNow, for a close or as the first part of a deletion *)
CloseNow == /\ phase = "idle" /\ (At("close") \/ At("delete"))
            /\ session
            /\ TaskWaits("aborting")
            /\ UNCHANGED <<disk, native, deliveries, fences, bounds>>

(* session.abort() resolves when the turn has ended. *)
CloseAborts == /\ phase = "aborting"
               /\ IF turn = "streaming" THEN Settles(followUps)
                  ELSE UNCHANGED <<turn, starter, followUps, deliveries>>
               /\ TaskWaits("draining")
               /\ UNCHANGED <<disk, session, fences, bounds>>

(* The abort, the drain of the memory or the writing of the file fails: the   *)
(* session and its exclusion are kept.                                        *)
CloseFails == /\ phase \in {"aborting", "draining"}
              /\ Fails
              /\ closing' = "failed"
              /\ deleting' = (deleting /\ ~At("delete"))
              /\ TaskEnds
              /\ UNCHANGED <<disk, native, deliveries, fenced>>

(* dispose of every delivery, then of the session with its queue *)
Disposes == /\ op' = [r \in Runs |-> "none"]
            /\ CallsEnd(WaitingFor({r \in Runs : op[r] # "none"}), {r \in Runs : copies[r] > 0})
            /\ session' = FALSE /\ starter' = None
            /\ followUps' = [r \in Runs |-> 0]
            /\ UNCHANGED turn

CloseEnds == /\ At("close")
             /\ \/ phase = "draining" /\ Disposes
                \/ phase = "idle" /\ ~session /\ UNCHANGED <<native, deliveries>>
             /\ closing' = "no"
             /\ TaskEnds
             /\ UNCHANGED <<disk, deleting, fenced, bounds>>

-----------------------------------------------------------------------------
(* Deletion *)

Delete == /\ member /\ ~deleting
          /\ deleting' = TRUE
          /\ sequence' = Append(sequence, "delete")
          /\ UNCHANGED <<disk, native, deliveries, phase, closing, fenced, bounds>>

(* The session is closed, and the Run service takes over. *)
DeleteCloses == /\ At("delete")
                /\ \/ phase = "draining" /\ Disposes
                   \/ phase = "idle" /\ ~session /\ UNCHANGED <<native, deliveries>>
                /\ closing' = "no"
                /\ TaskWaits("preparing")
                /\ UNCHANGED <<disk, deleting, fenced, bounds>>

(* prepareConversationDeletion: no attempt begins, those that wait are aborted. *)
DeletePrepares == /\ phase = "preparing"
                  /\ fenced' = TRUE
                  /\ attempt' = [r \in Runs |-> IF attempt[r] \in Calls THEN "none" ELSE attempt[r]]
                  /\ TaskWaits("stopping")
                  /\ UNCHANGED <<disk, native, op, call, closing, deleting, bounds>>

DeletionThrows == /\ Fails
                  /\ deleting' = FALSE
                  /\ TaskEnds

(* A worker of the conversation cannot be stopped: the fence is taken back. *)
DeleteRefused == /\ phase = "stopping"
                 /\ DeletionThrows
                 /\ fenced' = FALSE
                 /\ UNCHANGED <<disk, native, deliveries, closing>>

DeleteStopped == /\ phase = "stopping"
                 /\ \A r \in Runs : attempt[r] = "none"
                 /\ TaskWaits("unlinking")
                 /\ UNCHANGED <<disk, native, deliveries, fences, bounds>>

DeleteUnlinks == /\ phase = "unlinking"
                 /\ file' = FALSE
                 /\ TaskWaits("purging")
                 /\ UNCHANGED <<member, copies, reported, native, deliveries, fences, bounds>>

(* The file or the rows cannot be removed: the fence stays. *)
DeleteFails == /\ phase \in {"unlinking", "purging"}
               /\ DeletionThrows
               /\ UNCHANGED <<disk, native, deliveries, closing, fenced>>

DeletePurges == /\ phase = "purging"
                /\ member' = FALSE
                /\ deleting' = FALSE
                /\ TaskEnds
                /\ UNCHANGED <<file, copies, reported, native, deliveries, closing, fenced, bounds>>

-----------------------------------------------------------------------------
(* The process dies; the next one finds what is on disk. *)
Restart == /\ restarts < MaxRestarts /\ restarts' = restarts + 1
           /\ session' = FALSE /\ turn' = "idle" /\ starter' = None
           /\ followUps' = [r \in Runs |-> 0]
           /\ op' = [r \in Runs |-> "none"]
           /\ call' = [c \in Calls |-> Free]
           /\ attempt' = [r \in Runs |-> "none"]
           /\ sequence' = <<>> /\ phase' = "idle"
           /\ closing' = "no" /\ deleting' = FALSE /\ fenced' = FALSE
           /\ UNCHANGED <<disk, failures>>

AttemptStep(r) == Attempt(r) \/ AttemptTimesOut(r) \/ Record(r)

DeliverStep == DeliverRefused \/ DeliverFound \/ DeliverJoins \/ DeliverSends
SendStep == SendRefused \/ SendPrompts \/ PromptAccepted \/ PromptRejected
CloseStep == CloseNow \/ CloseAborts \/ CloseEnds
DeleteStep == DeleteCloses \/ DeletePrepares \/ DeleteStopped \/ DeleteUnlinks \/ DeletePurges
Failure == OpenFails \/ CloseFails \/ DeleteRefused \/ DeleteFails

(* What the head of the sequence does as soon as what it waits for is there. *)
HeadStep == DeliverStep \/ Opens \/ OpenEnds \/ SendStep \/ CloseStep \/ DeleteStep

TurnStep == TurnBegins \/ TurnFails \/ TurnTakes \/ TurnEnds \/ TurnStops

Next == \/ \E r \in Runs : AttemptStep(r)
        \/ \E c \in Calls : CallTimesOut(c)
        \/ HeadStep \/ Failure \/ TurnStep
        \/ Send \/ Close \/ Delete
        \/ Restart

(***************************************************************************)
(* The head of the sequence goes on: opening, preflight, abort and drain   *)
(* end by themselves.  Timers fire and the event queue runs.  Nothing is   *)
(* assumed of the native turn, which may stream for ever, nor of anybody   *)
(* who could retry an attempt.                                             *)
(***************************************************************************)
Fairness == /\ WF_vars(HeadStep)
            /\ \A r \in Runs : WF_vars(Record(r))
            /\ \A c \in Calls : WF_vars(CallTimesOut(c))

Spec == Init /\ [][Next]_vars /\ Fairness

-----------------------------------------------------------------------------
(* Properties *)

TypeOK == /\ file \in BOOLEAN /\ member \in BOOLEAN
          /\ copies \in [Runs -> Nat] /\ reported \in [Runs -> BOOLEAN]
          /\ session \in BOOLEAN /\ turn \in {"idle", "streaming"}
          /\ starter \in Runs \cup {None} /\ followUps \in [Runs -> Nat]
          /\ op \in [Runs -> {"none", "sending", "sent"}]
          /\ call \in [Calls -> {Free} \cup [run : Runs, at : {"queued", "waiting"}]]
          /\ attempt \in [Runs -> Calls \cup Marks]
          /\ sequence \in Seq(Tasks) /\ phase \in Phases
          /\ closing \in {"no", "pending", "failed"}
          /\ deleting \in BOOLEAN /\ fenced \in BOOLEAN
          /\ failures \in 0..MaxFailures /\ restarts \in 0..MaxRestarts

(* A message that may still enter the transcript belongs to a delivery of the *)
(* open session, whatever timed out or was given up meanwhile: a retry joins  *)
(* it and sends no second one ("Keep ownership until persistence, native      *)
(* queue exhaustion, or disposal, even after timeout", pi-runtime.ts:544).    *)
OwnershipLasts ==
    \A r \in Runs : starter = r \/ followUps[r] > 0
        => /\ session /\ op[r] # "none" /\ copies[r] = 0
           /\ starter = r => followUps[r] = 0
           /\ followUps[r] <= 1

(* A delivery whose message was lost by the native queue (a Stop, a turn that *)
(* failed) does not survive the exhaustion of that queue: every later retry   *)
(* would join it and deliver nothing.                                         *)
NoDeadDelivery ==
    \A r \in Runs : op[r] # "none" /\ starter # r /\ followUps[r] = 0
        => turn = "streaming" \/ ~Exhausted(followUps)

(* The head of the sequence has the session for itself where it relies on     *)
(* that: no delivery starts a turn under the preflight of the user's prompt,  *)
(* nor after the abort of a closing session whose memory is drained, and the  *)
(* files of a conversation are removed under no open session.                 *)
HeadIsAlone == /\ phase \in {"prompting", "draining"} => turn = "idle"
               /\ phase \in {"preparing", "stopping", "unlinking", "purging"} => ~session

(* A call that is under way ends, with the entry, with an error or with its   *)
(* time limit, and closing and deleting end, done or failed, though a native  *)
(* turn may stream for ever and deliveries wait for it ("waiting for Pi's     *)
(* follow-up queue must not block Stop or close", pi-runtime.ts:462).         *)
CallsReturn == /\ \A c \in Calls : call[c] # Free ~> call[c] = Free
               /\ closing = "pending" ~> closing # "pending"
               /\ deleting ~> ~deleting

(* Each result enters the transcript once, is reported only then, and nothing *)
(* is delivered or reported after the deletion, through timeouts, retries,    *)
(* closes and restarts.                                                       *)
Entry == [r \in Runs |-> IF reported[r] /\ copies[r] = 1 THEN "reported"
                         ELSE IF reported[r] THEN "reported without entry"
                         ELSE IF copies[r] = 0 THEN "missing"
                         ELSE IF copies[r] = 1 THEN "delivered" ELSE "delivered again"]

Once == INSTANCE DeliverOnce WITH open <- file, entry <- Entry

ImplementsDeliverOnce == Once!Spec
=============================================================================
