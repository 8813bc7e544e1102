-------------------------- MODULE DurableFileProofs --------------------------
(* The replacement keeps the old or the new contents, and is atomic, for every *)
(* set of contents and every number of interruptions.                          *)
EXTENDS DurableFile, TLAPS

Copies(t, s, b) == target = t /\ staging = s /\ backup = b

(* The layouts an interruption can leave behind, by the state in the marker. *)
Returned == /\ target = before /\ backup = Absent
            /\ staging \in {offer, Torn, Absent}
Aside == Copies(Absent, offer, before)
InPlace == /\ target = offer /\ staging = Absent
           /\ backup \in {before, Torn, Absent}

Layout == marker # None =>
            /\ offer \in Valid
            /\ \/ Returned
               \/ Aside
               \/ marker # "staged" /\ InPlace

(* What holds besides, before each operation of a job. *)
Position ==
    /\ job = "none" <=> at = "idle"
    /\ at \in {"stage", "verifyStaged", "markStaged"} =>
          job = "replace" /\ marker = None /\ target = before /\ backup = Absent
    /\ at \in {"verifyStaged", "markStaged"} => staging = offer
    /\ at = "markStaged" => offer \in Valid
    /\ at \notin {"idle", "stage", "verifyStaged", "markStaged"} => marker # None
    /\ at = "moveTarget" => marker = "staged" /\ Copies(before, offer, Absent)
    /\ at = "markMoved" => marker = "staged" /\ Aside
    /\ at = "activate" => marker # "staged" /\ Aside
    /\ at = "markActivated" => marker # "staged" /\ Copies(offer, Absent, before)
    /\ at = "verifyTarget" => /\ job = "replace" /\ marker # "staged"
                              /\ Copies(offer, Absent, before)
    /\ at = "dropBackup" => staging = Absent /\ target \in Valid
    /\ at = "unmark" => staging = Absent /\ backup = Absent
    /\ at = "returnTarget" => \/ marker # "staged" /\ Copies(offer, Absent, before)
                              \/ Aside
    /\ at = "returnBackup" => Aside
    /\ at = "dropStaging" => Copies(before, offer, Absent) \/ Copies(before, Torn, Absent)
    /\ job = "recover" /\ at \in {"returnTarget", "returnBackup", "dropStaging"} =>
          before \in Valid

IInv == TypeOK /\ Layout /\ Position

-----------------------------------------------------------------------------
(* What a verdict tells for certain: a copy reported missing is missing, one *)
(* accepted is good.                                                         *)
LEMMA VerdictFacts ==
    ASSUME NEW copy, NEW verdict \in Verdicts(copy)
    PROVE  /\ verdict = "missing" <=> copy = Absent
           /\ verdict = "valid" => copy \in Valid
    BY ContentsAssumption DEF Verdicts

(* The plans of recovery, each with what the verdicts must have been. *)
LEMMA PlanFacts ==
    ASSUME NEW state \in MarkerStates, NEW t, NEW s, NEW b,
           Plan(state, t, s, b) # "required"
    PROVE  \/ /\ Plan(state, t, s, b) = "moveTarget"
              /\ state = "staged" /\ s = "valid" /\ b = "missing"
           \/ /\ Plan(state, t, s, b) = "markMoved"
              /\ state = "staged" /\ s = "valid" /\ t = "missing"
           \/ /\ Plan(state, t, s, b) = "activate"
              /\ state # "staged" /\ s = "valid" /\ t = "missing"
           \/ /\ Plan(state, t, s, b) = "dropBackup"
              /\ s = "missing" /\ t = "valid"
           \/ /\ Plan(state, t, s, b) = "returnTarget"
              /\ b = "valid" /\ (t = "missing" \/ s = "missing")
    BY DEF Plan, MarkerStates

LEMMA InitInv == Init => IInv
    BY ContentsAssumption, MaxFaultsAssumption, MarkerAssumption
    DEF Init, IInv, TypeOK, Layout, Position, Jobs, Steps

(* The budget of faults is never exceeded. *)
LEMMA ChargeFacts ==
    ASSUME faults \in 0..MaxFaults, NEW copy, NEW verdict \in Verdicts(copy),
           Charge(verdict # Exact(copy))
    PROVE  faults' \in 0..MaxFaults
    <1>1. CASE verdict = Exact(copy)
      BY <1>1 DEF Charge
    <1>2. CASE verdict # Exact(copy)
      <2>1. faults < MaxFaults
        BY <1>2 DEF Verdicts, Exact, CanFail
      <2>2. faults' = faults + 1
        BY <1>2 DEF Charge
      <2> QED
        BY <2>1, <2>2, MaxFaultsAssumption
    <1> QED
      BY <1>1, <1>2

LEMMA RecoverInv == IInv /\ Recover => IInv'
    <1> SUFFICES ASSUME IInv, Recover PROVE IInv'
      OBVIOUS
    <1> USE ContentsAssumption, MarkerAssumption
    <1>1. PICK t \in Verdicts(target), s \in Verdicts(staging), b \in Verdicts(backup) :
            /\ Charge(<<t, s, b>> # <<Exact(target), Exact(staging), Exact(backup)>>)
            /\ Plan(marker, t, s, b) # "required"
            /\ job' = "recover" /\ at' = Plan(marker, t, s, b)
      BY DEF Recover
    <1>2. /\ job = "none" /\ marker # None
          /\ UNCHANGED <<target, staging, backup, marker, before, offer>>
      BY DEF Recover
    <1>3. marker \in MarkerStates
      BY <1>2 DEF IInv, TypeOK
    <1>4. faults' \in 0..MaxFaults
      <2>1. CASE <<t, s, b>> = <<Exact(target), Exact(staging), Exact(backup)>>
        BY <1>1, <2>1 DEF Charge, IInv, TypeOK
      <2>2. CASE <<t, s, b>> # <<Exact(target), Exact(staging), Exact(backup)>>
        <3>1. faults < MaxFaults
          BY <2>2 DEF Verdicts, Exact, CanFail
        <3>2. faults' = faults + 1
          BY <1>1, <2>2 DEF Charge
        <3> QED
          BY <3>1, <3>2, MaxFaultsAssumption DEF IInv, TypeOK
      <2> QED
        BY <2>1, <2>2
    <1>5. /\ t = "missing" <=> target = Absent
          /\ t = "valid" => target \in Valid
          /\ s = "missing" <=> staging = Absent
          /\ s = "valid" => staging \in Valid
          /\ b = "missing" <=> backup = Absent
          /\ b = "valid" => backup \in Valid
      BY VerdictFacts
    <1>6. \/ Returned
          \/ Aside
          \/ marker # "staged" /\ InPlace
      BY <1>2 DEF IInv, Layout
    <1>7. TypeOK' /\ Layout'
      <2>1. at' \in Steps /\ job' \in Jobs
        BY <1>1, <1>3, PlanFacts DEF Steps, Jobs
      <2> QED
        BY <1>2, <1>4, <2>1 DEF IInv, TypeOK, Layout, Returned, Aside, InPlace, Copies
    <1> HIDE DEF IInv
    <1>8. offer \in Valid
      BY <1>2 DEF IInv, Layout
    <1>9. ASSUME /\ at' = "moveTarget"
                 /\ marker = "staged" /\ s = "valid" /\ b = "missing"
           PROVE  Position'
      <2>1. Copies(before, offer, Absent)
        BY <1>2, <1>5, <1>6, <1>8, <1>9 DEF Returned, Aside, InPlace, Copies
      <2> QED
        BY <1>1, <1>2, <1>9, <2>1 DEF Position, Aside, Copies
    <1>10. ASSUME /\ at' = "markMoved"
                  /\ marker = "staged" /\ s = "valid" /\ t = "missing"
           PROVE  Position'
      <2>1. Aside
        BY <1>2, <1>5, <1>6, <1>8, <1>10 DEF Returned, Aside, InPlace, Copies
      <2> QED
        BY <1>1, <1>2, <1>10, <2>1 DEF Position, Aside, Copies
    <1>11. ASSUME /\ at' = "activate"
                  /\ marker # "staged" /\ s = "valid" /\ t = "missing"
           PROVE  Position'
      <2>1. Aside
        BY <1>2, <1>5, <1>6, <1>8, <1>11 DEF Returned, Aside, InPlace, Copies
      <2> QED
        BY <1>1, <1>2, <1>11, <2>1 DEF Position, Aside, Copies
    <1>12. ASSUME at' = "dropBackup" /\ s = "missing" /\ t = "valid"
           PROVE  Position'
      <2>1. staging = Absent /\ target \in Valid
        BY <1>2, <1>5, <1>6, <1>8, <1>12 DEF Returned, Aside, InPlace, Copies
      <2> QED
        BY <1>1, <1>2, <1>12, <2>1 DEF Position, Aside, Copies
    <1>13. ASSUME /\ at' = "returnTarget"
                  /\ b = "valid" /\ (t = "missing" \/ s = "missing")
           PROVE  Position'
      <2>1. /\ before \in Valid
            /\ \/ marker # "staged" /\ Copies(offer, Absent, before)
               \/ Aside
        BY <1>2, <1>5, <1>6, <1>8, <1>13 DEF Returned, Aside, InPlace, Copies
      <2> QED
        BY <1>1, <1>2, <1>13, <2>1 DEF Position, Aside, Copies
    <1> QED
      BY <1>1, <1>3, <1>7, <1>9, <1>10, <1>11, <1>12, <1>13, PlanFacts DEF IInv

LEMMA NextInv == IInv /\ [Next]_vars => IInv'
    <1> SUFFICES ASSUME IInv, [Next]_vars PROVE IInv'
      OBVIOUS
    <1> USE ContentsAssumption, MarkerAssumption, MaxFaultsAssumption
    <1>1. CASE \E c \in Contents : Begin(c)
      <2>1. TypeOK' /\ Layout'
        BY <1>1 DEF Begin, IInv, TypeOK, Jobs, Steps, MarkerStates, Layout, Position,
                   Returned, Aside, InPlace, Copies, GoTo, EndJob
      <2>2. Position'
        BY <1>1 DEF Begin, IInv, TypeOK, Layout, Position,
                   Returned, Aside, InPlace, Copies, GoTo, EndJob
      <2> QED
        BY <2>1, <2>2 DEF IInv
    <1>2. CASE Stage
      <2>1. TypeOK' /\ Layout'
        BY <1>2 DEF Stage, IInv, TypeOK, Jobs, Steps, MarkerStates, Layout, Position,
                   Returned, Aside, InPlace, Copies, GoTo, EndJob
      <2>2. Position'
        BY <1>2 DEF Stage, IInv, TypeOK, Layout, Position,
                   Returned, Aside, InPlace, Copies, GoTo, EndJob
      <2> QED
        BY <2>1, <2>2 DEF IInv
    <1>3. CASE MarkStaged
      <2>1. TypeOK' /\ Layout'
        BY <1>3 DEF MarkStaged, WriteMarker, IInv, TypeOK, Jobs, Steps, MarkerStates, Layout, Position,
                   Returned, Aside, InPlace, Copies, GoTo, EndJob
      <2>2. Position'
        BY <1>3 DEF MarkStaged, WriteMarker, IInv, TypeOK, Layout, Position,
                   Returned, Aside, InPlace, Copies, GoTo, EndJob
      <2> QED
        BY <2>1, <2>2 DEF IInv
    <1>4. CASE MoveTarget
      <2>1. TypeOK' /\ Layout'
        BY <1>4 DEF MoveTarget, IInv, TypeOK, Jobs, Steps, MarkerStates, Layout, Position,
                   Returned, Aside, InPlace, Copies, GoTo, EndJob
      <2>2. Position'
        BY <1>4 DEF MoveTarget, IInv, TypeOK, Layout, Position,
                   Returned, Aside, InPlace, Copies, GoTo, EndJob
      <2> QED
        BY <2>1, <2>2 DEF IInv
    <1>5. CASE MarkMoved
      <2>1. TypeOK' /\ Layout'
        BY <1>5 DEF MarkMoved, WriteMarker, IInv, TypeOK, Jobs, Steps, MarkerStates, Layout, Position,
                   Returned, Aside, InPlace, Copies, GoTo, EndJob
      <2>2. Position'
        BY <1>5 DEF MarkMoved, WriteMarker, IInv, TypeOK, Layout, Position,
                   Returned, Aside, InPlace, Copies, GoTo, EndJob
      <2> QED
        BY <2>1, <2>2 DEF IInv
    <1>6. CASE Activate
      <2>1. TypeOK' /\ Layout'
        BY <1>6 DEF Activate, IInv, TypeOK, Jobs, Steps, MarkerStates, Layout, Position,
                   Returned, Aside, InPlace, Copies, GoTo, EndJob
      <2>2. Position'
        BY <1>6 DEF Activate, IInv, TypeOK, Layout, Position,
                   Returned, Aside, InPlace, Copies, GoTo, EndJob
      <2> QED
        BY <2>1, <2>2 DEF IInv
    <1>7. CASE MarkActivated
      <2>1. TypeOK' /\ Layout'
        BY <1>7 DEF MarkActivated, WriteMarker, IInv, TypeOK, Jobs, Steps, MarkerStates, Layout, Position,
                   Returned, Aside, InPlace, Copies, GoTo, EndJob
      <2>2. Position'
        BY <1>7 DEF MarkActivated, WriteMarker, IInv, TypeOK, Layout, Position,
                   Returned, Aside, InPlace, Copies, GoTo, EndJob
      <2> QED
        BY <2>1, <2>2 DEF IInv
    <1>8. CASE DropBackup
      <2>1. TypeOK' /\ Layout'
        BY <1>8 DEF DropBackup, IInv, TypeOK, Jobs, Steps, MarkerStates, Layout, Position,
                   Returned, Aside, InPlace, Copies, GoTo, EndJob
      <2>2. Position'
        BY <1>8 DEF DropBackup, IInv, TypeOK, Layout, Position,
                   Returned, Aside, InPlace, Copies, GoTo, EndJob
      <2> QED
        BY <2>1, <2>2 DEF IInv
    <1>9. CASE Unmark
      <2>1. TypeOK' /\ Layout'
        BY <1>9 DEF Unmark, IInv, TypeOK, Jobs, Steps, MarkerStates, Layout, Position,
                   Returned, Aside, InPlace, Copies, GoTo, EndJob
      <2>2. Position'
        BY <1>9 DEF Unmark, IInv, TypeOK, Layout, Position,
                   Returned, Aside, InPlace, Copies, GoTo, EndJob
      <2> QED
        BY <2>1, <2>2 DEF IInv
    <1>10. CASE ReturnTarget
      <2>1. TypeOK' /\ Layout'
        BY <1>10 DEF ReturnTarget, IInv, TypeOK, Jobs, Steps, MarkerStates, Layout, Position,
                   Returned, Aside, InPlace, Copies, GoTo, EndJob
      <2>2. Position'
        BY <1>10 DEF ReturnTarget, IInv, TypeOK, Layout, Position,
                   Returned, Aside, InPlace, Copies, GoTo, EndJob
      <2> QED
        BY <2>1, <2>2 DEF IInv
    <1>11. CASE ReturnBackup
      <2>1. TypeOK' /\ Layout'
        BY <1>11 DEF ReturnBackup, IInv, TypeOK, Jobs, Steps, MarkerStates, Layout, Position,
                   Returned, Aside, InPlace, Copies, GoTo, EndJob
      <2>2. Position'
        BY <1>11 DEF ReturnBackup, IInv, TypeOK, Layout, Position,
                   Returned, Aside, InPlace, Copies, GoTo, EndJob
      <2> QED
        BY <2>1, <2>2 DEF IInv
    <1>12. CASE DropStaging
      <2>1. TypeOK' /\ Layout'
        BY <1>12 DEF DropStaging, IInv, TypeOK, Jobs, Steps, MarkerStates, Layout, Position,
                   Returned, Aside, InPlace, Copies, GoTo, EndJob
      <2>2. Position'
        BY <1>12 DEF DropStaging, IInv, TypeOK, Layout, Position,
                   Returned, Aside, InPlace, Copies, GoTo, EndJob
      <2> QED
        BY <2>1, <2>2 DEF IInv
    <1>13. CASE Interrupt
      <2>1. TypeOK' /\ Layout'
        BY <1>13 DEF Interrupt, CanFail, IInv, TypeOK, Jobs, Steps, MarkerStates, Layout, Position,
                   Returned, Aside, InPlace, Copies, GoTo, EndJob
      <2>2. Position'
        BY <1>13 DEF Interrupt, CanFail, IInv, TypeOK, Layout, Position,
                   Returned, Aside, InPlace, Copies, GoTo, EndJob
      <2> QED
        BY <2>1, <2>2 DEF IInv
    <1>14. CASE VerifyStaged
      <2>1. PICK verdict \in Verdicts(staging) :
              /\ Charge(verdict # Exact(staging))
              /\ IF verdict = "valid"
                 THEN GoTo("markStaged") /\ UNCHANGED staging
                 ELSE EndJob /\ staging' = Absent
        BY <1>14 DEF VerifyStaged
      <2>2. faults' \in 0..MaxFaults
        BY <2>1, ChargeFacts DEF IInv, TypeOK
      <2>3. verdict = "valid" => staging \in Valid
        BY VerdictFacts
      <2>4. TypeOK' /\ Layout'
        BY <1>14, <2>1, <2>2, <2>3 DEF VerifyStaged, IInv, TypeOK, Jobs, Steps, MarkerStates, Layout,
                   Position, Returned, Aside, InPlace, Copies, GoTo, EndJob
      <2>5. Position'
        BY <1>14, <2>1, <2>3 DEF VerifyStaged, IInv, TypeOK, Layout, Position,
                   Returned, Aside, InPlace, Copies, GoTo, EndJob
      <2> QED
        BY <2>4, <2>5 DEF IInv
    <1>15. CASE VerifyTarget
      <2>1. PICK verdict \in Verdicts(target) :
              /\ Charge(verdict # Exact(target))
              /\ GoTo(IF verdict = "valid" THEN "dropBackup" ELSE "returnTarget")
        BY <1>15 DEF VerifyTarget
      <2>2. faults' \in 0..MaxFaults
        BY <2>1, ChargeFacts DEF IInv, TypeOK
      <2>3. verdict = "valid" => target \in Valid
        BY VerdictFacts
      <2>4. TypeOK' /\ Layout'
        BY <1>15, <2>1, <2>2, <2>3 DEF VerifyTarget, IInv, TypeOK, Jobs, Steps, MarkerStates, Layout,
                   Position, Returned, Aside, InPlace, Copies, GoTo, EndJob
      <2>5. Position'
        BY <1>15, <2>1, <2>3 DEF VerifyTarget, IInv, TypeOK, Layout, Position,
                   Returned, Aside, InPlace, Copies, GoTo, EndJob
      <2> QED
        BY <2>4, <2>5 DEF IInv
    <1>16. CASE Recover
      BY <1>16, RecoverInv
    <1>17. CASE UNCHANGED vars
      BY <1>17 DEF vars, IInv, TypeOK, Layout, Position, Returned, Aside, InPlace, Copies
    <1> QED
      BY <1>1, <1>2, <1>3, <1>4, <1>5, <1>6, <1>7, <1>8, <1>9, <1>10, <1>11, <1>12, <1>13, <1>14, <1>15, <1>16, <1>17 DEF Next, JobStep, Replace, Finish, Withdraw

(* The types of the variables hold in every state. *)
THEOREM TypeCorrect == Spec => []TypeOK
    <1>1. IInv => TypeOK
      BY DEF IInv
    <1> QED
      BY <1>1, InitInv, NextInv, PTL DEF Spec

(* The old or the new contents survive every sequence of interruptions and  *)
(* recoveries.                                                              *)
THEOREM KeepsOldOrNew == Spec => []OldOrNewRemains
    <1>1. IInv => OldOrNewRemains
      BY DEF IInv, Layout, OldOrNewRemains, Returned, Aside, InPlace, Copies
    <1> QED
      BY <1>1, InitInv, NextInv, PTL DEF Spec

(* What recovery leaves to a person still offers both outcomes. *)
THEOREM StallsWithoutLoss == Spec => []StalledLosesNothing
    <1>1. IInv => StalledLosesNothing
      BY DEF IInv, Layout, StalledLosesNothing, Stalled, Returned, Aside, InPlace, Copies
    <1> QED
      BY <1>1, InitInv, NextInv, PTL DEF Spec

(* Nothing that is still needed is lost, to a cut-off or to a person. *)
THEOREM NothingIsLost == Spec => []NothingLost
    <1>1. OldOrNewRemains /\ StalledLosesNothing => NothingLost
      BY DEF NothingLost
    <1> QED
      BY <1>1, KeepsOldOrNew, StallsWithoutLoss, PTL

(* Recovery removes a copy only when the target holds a good one. *)
THEOREM RecoveryRemovesSafely == Spec => RecoveryKeepsACopy
    <1> DEFINE Removal == /\ job = "recover" /\ target' = target
                          /\ staging' # staging \/ backup' # backup
    <1>1. IInv /\ [Next]_vars => [Removal => target \in Valid]_vars
      <2> SUFFICES ASSUME IInv, Next, Removal PROVE target \in Valid
        BY DEF vars
      <2> USE ContentsAssumption, MarkerAssumption
      <2>1. CASE DropBackup
        BY <2>1 DEF DropBackup, IInv, Position
      <2>2. CASE DropStaging
        BY <2>2 DEF DropStaging, IInv, Position, Copies
      <2>3. CASE MoveTarget
        BY <2>3 DEF MoveTarget, IInv, Position, Copies
      <2>4. CASE Activate
        BY <2>4 DEF Activate, IInv, Position, Layout, Aside, Copies
      <2>5. CASE ReturnTarget
        BY <2>5 DEF ReturnTarget, IInv, Position, Aside, Copies
      <2>6. CASE ReturnBackup
        BY <2>6 DEF ReturnBackup, IInv, Position, Aside, Copies
      <2>7. CASE Stage \/ VerifyStaged
        BY <2>7 DEF Stage, VerifyStaged, IInv, Position
      <2>8. CASE \E c \in Contents : Begin(c)
        BY <2>8 DEF Begin
      <2>9. CASE MarkStaged \/ MarkMoved \/ MarkActivated \/ VerifyTarget \/ Unmark
                 \/ Recover \/ Interrupt
        BY <2>9 DEF MarkStaged, MarkMoved, MarkActivated, WriteMarker, VerifyTarget, Unmark,
                    Recover, Interrupt
      <2> QED
        BY <2>1, <2>2, <2>3, <2>4, <2>5, <2>6, <2>7, <2>8, <2>9
        DEF Next, JobStep, Replace, Finish, Withdraw
    <1> QED
      BY <1>1, InitInv, NextInv, PTL DEF Spec, RecoveryKeepsACopy

-----------------------------------------------------------------------------
(* Refinement *)

LEMMA AbstractInit == Init => Abstract!Init
    BY DEF Init, Abstract!Init, Value, Pending

(* The marker's appearance begins the abstract replacement, its removal       *)
(* commits or aborts it, and nothing between shows.                           *)
LEMMA AbstractStep ==
    IInv /\ IInv' /\ [Next]_vars => [Abstract!Next]_<<Value, Pending>>
    <1> SUFFICES ASSUME IInv, IInv', [Next]_vars
                 PROVE  [Abstract!Next]_<<Value, Pending>>
      OBVIOUS
    <1> USE ContentsAssumption, MarkerAssumption
    <1>1. CASE MarkStaged
      <2>1. /\ marker = None /\ marker' = "staged" /\ target = before
            /\ offer \in Contents
            /\ UNCHANGED <<target, before, offer>>
        BY <1>1 DEF MarkStaged, WriteMarker, IInv, Position
      <2>2. Abstract!Begin(offer)
        BY <2>1 DEF Abstract!Begin, Value, Pending
      <2> QED
        BY <2>1, <2>2 DEF Abstract!Next
    <1>2. CASE Unmark
      <2>1. /\ marker # None /\ marker' = None
            /\ target \in {before, offer} /\ offer \in Contents
            /\ UNCHANGED <<target, before, offer>>
        BY <1>2 DEF Unmark, IInv, Position, Layout, Returned, Aside, InPlace, Copies
      <2>2. CASE target = offer
        BY <2>1, <2>2 DEF Abstract!Commit, Abstract!Next, Value, Pending
      <2>3. CASE target = before
        BY <2>1, <2>3 DEF Abstract!Abort, Abstract!Next, Value, Pending
      <2> QED
        BY <2>1, <2>2, <2>3
    <1>3. CASE /\ marker = None /\ marker' = None /\ target' = target
      BY <1>3 DEF Value, Pending
    <1>4. CASE /\ marker # None /\ marker' # None
               /\ UNCHANGED <<before, offer>>
      BY <1>4 DEF Value, Pending
    <1>5. ASSUME ~MarkStaged, ~Unmark, Next
          PROVE  \/ marker = None /\ marker' = None /\ target' = target
                 \/ /\ marker # None /\ marker' # None
                    /\ UNCHANGED <<before, offer>>
      <2>1. CASE \/ \E c \in Contents : Begin(c)
                 \/ Stage \/ VerifyStaged
        BY <2>1 DEF Begin, Stage, VerifyStaged, IInv, Position
      <2>2. CASE MoveTarget \/ Activate \/ VerifyTarget \/ MarkMoved \/ MarkActivated
        BY <2>2 DEF MoveTarget, Activate, VerifyTarget, MarkMoved, MarkActivated,
                    WriteMarker, IInv, Position
      <2>3. CASE DropBackup \/ ReturnTarget \/ ReturnBackup \/ DropStaging
        BY <2>3 DEF DropBackup, ReturnTarget, ReturnBackup, DropStaging, IInv, Position
      <2>4. CASE Recover \/ Interrupt
        BY <2>4 DEF Recover, Interrupt
      <2> QED
        BY <1>5, <2>1, <2>2, <2>3, <2>4 DEF Next, JobStep, Replace, Finish, Withdraw
    <1>6. CASE UNCHANGED vars
      BY <1>6 DEF vars, Value, Pending
    <1> QED
      BY <1>1, <1>2, <1>3, <1>4, <1>5, <1>6

(* The renames, whatever cuts them off, implement an atomic replacement. *)
THEOREM ReplacementIsAtomic == Spec => ImplementsAtomicReplace
    <1>1. IInv /\ IInv' /\ [Next]_vars => [Abstract!Next]_<<Value, Pending>>
      BY AbstractStep
    <1> QED
      BY <1>1, AbstractInit, InitInv, NextInv, PTL
      DEF Spec, ImplementsAtomicReplace, Abstract!Spec
=============================================================================
