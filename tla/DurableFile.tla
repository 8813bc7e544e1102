----------------------------- MODULE DurableFile -----------------------------
(* The replacement of one file or directory tree by renames inside its parent  *)
(* directory, and the recovery of a replacement that was cut off               *)
(* (storage/durable-file-transaction.ts).                                      *)
(*                                                                             *)
(* One target and one caller at a time.  Every step is one file-system         *)
(* operation followed by the fsync of the parent directory, so losing the      *)
(* power before the fsync leaves what the previous step left.  A job is cut    *)
(* off between any two steps, by the death of the process or by an operation   *)
(* that throws: the code behaves the same in both cases, it leaves the files   *)
(* where they are and the marker tells the next start what to do.              *)
EXTENDS Naturals

CONSTANTS Contents,    \* what callers write at the target
          Valid,       \* the contents that the caller's verify accepts
          Absent,      \* nothing at the path
          Torn,        \* a tree that is half written or half removed
          None,        \* no marker file
          MaxFaults    \* bound: jobs cut off and verifications that fail by accident

ASSUME ContentsAssumption == /\ Valid \subseteq Contents
                             /\ Absent \notin Contents
                             /\ Torn \notin Contents
                             /\ Absent # Torn
                             /\ None \notin Contents
ASSUME MarkerAssumption == None \notin {"staged", "old-target-moved", "activated"}
ASSUME MaxFaultsAssumption == MaxFaults \in Nat

VARIABLES target,    \* what is at the path that callers read
          staging,   \* the new copy, beside the target
          backup,    \* the old copy, beside the target
          marker,    \* the state recorded in the marker file, or None
          job,       \* who is at work: nobody, a replacement or a recovery
          at,        \* the next file-system operation of the job
          before,    \* what the target held when the replacement began
          offer,     \* what the replacement wants there
          faults     \* faults so far

files == <<target, staging, backup, marker>>
vars == <<target, staging, backup, marker, job, at, before, offer, faults>>

MarkerStates == {"staged", "old-target-moved", "activated"}
Jobs == {"none", "replace", "recover"}
Steps == {"idle", "stage", "verifyStaged", "markStaged", "moveTarget", "markMoved",
          "activate", "markActivated", "verifyTarget", "dropBackup", "unmark",
          "returnTarget", "returnBackup", "dropStaging"}

Init == /\ target \in Contents \cup {Absent}
        /\ staging = Absent
        /\ backup = Absent
        /\ marker = None
        /\ job = "none"
        /\ at = "idle"
        /\ before = target
        /\ offer = target
        /\ faults = 0

(***************************************************************************)
(* What an examination of a copy may report.  verify reads the copy, so it *)
(* may fail on a good one (it throws, and the code takes that for          *)
(* "invalid"); it never accepts a bad one.                                 *)
(***************************************************************************)
CanFail == faults < MaxFaults

Verdicts(copy) == IF copy = Absent THEN {"missing"}
                  ELSE IF copy \notin Valid THEN {"invalid"}
                  ELSE IF CanFail THEN {"valid", "invalid"} ELSE {"valid"}

Exact(copy) == IF copy = Absent THEN "missing"
               ELSE IF copy \in Valid THEN "valid" ELSE "invalid"

(* Charge the budget of faults when a good copy was reported invalid. *)
Charge(accident) == faults' = IF accident THEN faults + 1 ELSE faults

GoTo(step) == at' = step /\ UNCHANGED job
EndJob == at' = "idle" /\ job' = "none"

-----------------------------------------------------------------------------
(* Replacement *)

(* Seeded fault: a replacement begins although a marker exists. *)
BeginUnchecked(c) == /\ job = "none"
                     /\ job' = "replace" /\ at' = "stage"
                     /\ before' = target /\ offer' = c
                     /\ staging' = Torn /\ backup' = Absent
                     /\ UNCHANGED <<target, marker, faults>>

(* The call is refused while a marker exists.  The copy is written under a  *)
(* fresh name, so what an earlier call left in its own staging is forgotten. *)
Begin(c) == /\ job = "none" /\ marker = None
            /\ job' = "replace" /\ at' = "stage"
            /\ before' = target /\ offer' = c
            /\ staging' = Torn /\ backup' = Absent
            /\ UNCHANGED <<target, marker, faults>>

(* The caller's stage has filled the copy, and the whole tree is on disk. *)
Stage == /\ at = "stage"
         /\ staging' = offer
         /\ GoTo("verifyStaged")
         /\ UNCHANGED <<target, backup, marker, before, offer, faults>>

(* A copy that does not verify is removed and the call throws. *)
VerifyStaged ==
    /\ at = "verifyStaged"
    /\ \E verdict \in Verdicts(staging) :
        /\ Charge(verdict # Exact(staging))
        /\ IF verdict = "valid"
           THEN GoTo("markStaged") /\ UNCHANGED staging
           ELSE EndJob /\ staging' = Absent
    /\ UNCHANGED <<target, backup, marker, before, offer>>

WriteMarker(state, next) == /\ marker' = state
                            /\ GoTo(next)
                            /\ UNCHANGED <<target, staging, backup, before, offer, faults>>

MarkStaged == at = "markStaged" /\ WriteMarker("staged", "moveTarget")
MarkMoved == at = "markMoved" /\ WriteMarker("old-target-moved", "activate")
MarkActivated == /\ at = "markActivated"
                 /\ WriteMarker("activated", IF job = "replace" THEN "verifyTarget"
                                             ELSE "dropBackup")

MoveTarget == /\ at = "moveTarget"
              /\ IF target = Absent THEN UNCHANGED <<target, backup>>
                 ELSE backup' = target /\ target' = Absent
              /\ GoTo("markMoved")
              /\ UNCHANGED <<staging, marker, before, offer, faults>>

Activate == /\ at = "activate"
            /\ target' = staging /\ staging' = Absent
            /\ GoTo("markActivated")
            /\ UNCHANGED <<backup, marker, before, offer, faults>>

VerifyTarget ==
    /\ at = "verifyTarget"
    /\ \E verdict \in Verdicts(target) :
        /\ Charge(verdict # Exact(target))
        /\ GoTo(IF verdict = "valid" THEN "dropBackup" ELSE "returnTarget")
    /\ UNCHANGED <<target, staging, backup, marker, before, offer>>

(* The removal of a tree takes more than one step: it may be cut off inside. *)
DropBackup == /\ at = "dropBackup"
              /\ \/ backup \in Contents /\ backup' = Torn /\ UNCHANGED <<at, job>>
                 \/ backup' = Absent /\ GoTo("unmark")
              /\ UNCHANGED <<target, staging, marker, before, offer, faults>>

DropStaging == /\ at = "dropStaging"
               /\ \/ staging \in Contents /\ staging' = Torn /\ UNCHANGED <<at, job>>
                  \/ staging' = Absent /\ GoTo("unmark")
               /\ UNCHANGED <<target, backup, marker, before, offer, faults>>

(* Seeded fault: the marker is left behind when the files are in place. *)
UnmarkForgotten == /\ at = "unmark"
                   /\ EndJob
                   /\ UNCHANGED <<target, staging, backup, marker, before, offer, faults>>

Unmark == /\ at = "unmark"
          /\ marker' = None
          /\ EndJob
          /\ UNCHANGED <<target, staging, backup, before, offer, faults>>

(* Seeded fault: the copy at the target is removed, not moved aside. *)
ReturnTargetRemoved == /\ at = "returnTarget"
                       /\ target' = Absent
                       /\ GoTo("returnBackup")
                       /\ UNCHANGED <<staging, backup, marker, before, offer, faults>>

(* rollback and restore: the new copy leaves the target, the old one returns. *)
ReturnTarget == /\ at = "returnTarget"
                /\ IF target = Absent THEN UNCHANGED <<target, staging>>
                   ELSE staging' = target /\ target' = Absent
                /\ GoTo("returnBackup")
                /\ UNCHANGED <<backup, marker, before, offer, faults>>

ReturnBackup == /\ at = "returnBackup"
                /\ IF backup = Absent THEN UNCHANGED <<target, backup>>
                   ELSE target' = backup /\ backup' = Absent
                /\ GoTo("dropStaging")
                /\ UNCHANGED <<staging, marker, before, offer, faults>>

Replace == \/ Stage \/ VerifyStaged \/ MarkStaged \/ MoveTarget \/ MarkMoved
           \/ Activate \/ MarkActivated \/ VerifyTarget

Finish == DropBackup \/ Unmark
Withdraw == ReturnTarget \/ ReturnBackup \/ DropStaging

-----------------------------------------------------------------------------
(* Recovery *)

Kept(b) == b \in {"valid", "missing"}

(***************************************************************************)
(* What recovery does with a marker and the verdicts on the three copies:  *)
(* the first operation of the plan it chooses, or "required" when it       *)
(* leaves the layout to a person.                                          *)
(***************************************************************************)
Plan(state, t, s, b) ==
    CASE state = "staged" /\ s = "valid" /\ b = "missing" ->
            IF t = "invalid" THEN "required" ELSE "moveTarget"
      [] state = "staged" /\ s = "valid" /\ t = "missing" /\ b = "valid" -> "markMoved"
      [] state = "old-target-moved" /\ s = "valid" /\ t = "missing" /\ Kept(b) -> "activate"
      [] state = "activated" /\ s = "valid" /\ t = "missing" /\ b = "missing" -> "activate"
      [] s = "missing" /\ t = "valid" /\ Kept(b) -> "dropBackup"
      [] s # "valid" /\ t # "valid" /\ b = "valid" /\ (t = "missing" \/ s = "missing")
            -> "returnTarget"
      [] OTHER -> "required"

Recover ==
    /\ job = "none" /\ marker # None
    /\ \E t \in Verdicts(target), s \in Verdicts(staging), b \in Verdicts(backup) :
        /\ Charge(<<t, s, b>> # <<Exact(target), Exact(staging), Exact(backup)>>)
        /\ LET plan == Plan(marker, t, s, b)
           IN  /\ plan # "required"
               /\ job' = "recover" /\ at' = plan
    /\ UNCHANGED <<target, staging, backup, marker, before, offer>>

(* The process dies, or an operation throws out of the job. *)
Interrupt == /\ job # "none" /\ CanFail
             /\ faults' = faults + 1
             /\ EndJob
             /\ UNCHANGED <<target, staging, backup, marker, before, offer>>

JobStep == Replace \/ Finish \/ Withdraw

Next == \/ \E c \in Contents : Begin(c)
        \/ JobStep
        \/ Recover
        \/ Interrupt

(***************************************************************************)
(* A job that is not cut off goes on, and the program recovers at every    *)
(* start (bootstrapLibrary, ensureModelsRecovered).                        *)
(***************************************************************************)
Fairness == WF_vars(JobStep) /\ WF_vars(Recover)

Spec == Init /\ [][Next]_vars /\ Fairness

-----------------------------------------------------------------------------
(* Properties *)

TypeOK == /\ target \in Contents \cup {Absent}
          /\ staging \in Contents \cup {Absent, Torn}
          /\ backup \in Contents \cup {Absent, Torn}
          /\ marker \in MarkerStates \cup {None}
          /\ job \in Jobs
          /\ at \in Steps
          /\ before \in Contents \cup {Absent}
          /\ offer \in Contents \cup {Absent}
          /\ faults \in 0..MaxFaults

(* With this layout, recovery hands over to a person even when it can read  *)
(* every copy.                                                              *)
Stalled == /\ job = "none" /\ marker # None
           /\ Plan(marker, Exact(target), Exact(staging), Exact(backup)) = "required"

(* While a transaction is unfinished some whole copy of the old or of the    *)
(* new contents exists, at whichever of the three paths: no cut-off, no       *)
(* recovery and no recovery of a recovery loses both ("unless another         *)
(* verified copy remains", the header of recoverDurableFileTransaction).      *)
OldOrNewRemains == marker # None => {before, offer} \cap {target, staging, backup} # {}

(* Recovery removes a copy only when the target holds one that verifies,      *)
(* though it examined the copies before it moved them and several renames     *)
(* lie between the examination and the removal.                               *)
RecoveryKeepsACopy ==
    [][/\ job = "recover" /\ target' = target
       /\ staging' # staging \/ backup' # backup
       => target \in Valid]_vars

(* A layout that recovery leaves to a person still offers both outcomes: the  *)
(* target holds one of the two contents, or both copies lie whole beside it.  *)
StalledLosesNothing ==
    Stalled => \/ target \in {before, offer}
               \/ staging = offer /\ backup = before

(* Neither a cut-off nor a recovery nor a layout left to a person loses a     *)
(* content that is still needed.                                              *)
NothingLost == OldOrNewRemains /\ StalledLosesNothing

(* A transaction that recovery does not leave to a person ends: the marker    *)
(* disappears, so that the next replacement of the target is not refused.     *)
TransactionEnds == marker # None ~> (marker = None \/ Stalled)

(* The replacement is atomic.  Whoever reads the target after the next        *)
(* complete recovery sees the old or the new contents, decided once.          *)
Value == IF marker = None THEN target ELSE before
Pending == IF marker = None THEN None ELSE offer

Abstract == INSTANCE AtomicReplace WITH value <- Value, pending <- Pending

ImplementsAtomicReplace == Abstract!Spec
=============================================================================
