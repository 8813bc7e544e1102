------------------------- MODULE ResultDeliveryProofs -------------------------
(* Each result is delivered once and reported only when it is there, for any   *)
(* number of Runs, calls, failures and restarts.                               *)
EXTENDS ResultDelivery, TLAPS

(* What is in the transcript, and what may still be told of it. *)
Results ==
    \A r \in Runs : /\ copies[r] <= 1
                    /\ reported[r] => copies[r] = 1
                    /\ attempt[r] = "recording" => copies[r] = 1 /\ file

(* The native session: its messages have their owners, and a session that is *)
(* not open has neither.                                                     *)
Owned ==
    /\ session => file
    /\ starter # None => turn = "streaming"
    /\ ~session => turn = "idle" /\ starter = None
    /\ \A r \in Runs : /\ op[r] = "sending" => starter = r
                       /\ op[r] # "none" => session

(* The sequence: a queued call is there once, and holds the Run it is for. *)
Lined ==
    /\ phase # "idle" => sequence # <<>>
    /\ \A i \in 1..Len(sequence) : sequence[i] \in Calls =>
          /\ call[sequence[i]] \in [run : Runs, at : {"queued"}]
          /\ \A j \in 1..Len(sequence) : sequence[j] = sequence[i] => j = i

(* What the head may rely on while it waits. *)
Held ==
    /\ phase = "opening" => file
    /\ phase \in {"opened", "prompting", "aborting", "draining"} => session
    /\ phase \in {"stopping", "unlinking", "purging"} => fenced
    /\ phase \in {"unlinking", "purging"} => \A r \in Runs : attempt[r] = "none"

IInv == /\ TypeOK /\ Results /\ Owned /\ Lined /\ Held
        /\ OwnershipLasts /\ NoDeadDelivery /\ HeadIsAlone

-----------------------------------------------------------------------------
(* What the end of calls leaves of calls and attempts. *)
Told(entries) ==
    /\ call' \in [Calls -> {Free} \cup [run : Runs, at : {"queued", "waiting"}]]
    /\ attempt' \in [Runs -> Calls \cup Marks]
    /\ \A r \in Runs : attempt'[r] = "recording" => attempt[r] = "recording" \/ entries[r] > 0
    /\ \A r \in Runs : attempt[r] = "none" => attempt'[r] = "none"

LEMMA CallsEndTells ==
    ASSUME TypeOK, NEW entries, NEW ended \in SUBSET Calls, NEW there \in SUBSET Runs,
           \A r \in there : entries[r] > 0,
           CallsEnd(ended, there)
    PROVE  /\ Told(entries)
           /\ \A c \in Calls \ ended : call'[c] = call[c]
    <1>1. /\ \A r \in Runs : attempt'[r] = IF attempt[r] \notin ended THEN attempt[r]
                                            ELSE IF r \in there THEN "recording" ELSE "none"
          /\ \A c \in Calls : call'[c] = IF c \in ended THEN Free ELSE call[c]
      BY DEF CallsEnd
    <1>2. call' \in [Calls -> {Free} \cup [run : Runs, at : {"queued", "waiting"}]]
      BY DEF CallsEnd, TypeOK
    <1>3. attempt' \in [Runs -> Calls \cup Marks]
      BY DEF CallsEnd, TypeOK, Marks
    <1>4. \A r \in Runs : attempt[r] = "none" => attempt[r] \notin ended
      BY CallsAssumption DEF Marks
    <1> QED
      BY <1>1, <1>2, <1>3, <1>4 DEF Told

LEMMA ReconcileTells ==
    ASSUME TypeOK, NEW ops \in [Runs -> {"none", "sending", "sent"}],
           NEW entries \in [Runs -> Nat], NEW exhausted,
           Reconcile(ops, entries, exhausted)
    PROVE  /\ Told(entries)
           /\ \A c \in Calls : call[c].at = "queued" => call'[c] = call[c]
           /\ op' \in [Runs -> {"none", "sending", "sent"}]
           /\ \A r \in Runs : op'[r] = IF \/ ops[r] # "none" /\ entries[r] > 0
                                          \/ ops[r] = "sent" /\ exhausted
                                       THEN "none" ELSE ops[r]
    <1> DEFINE over == {r \in Runs : \/ ops[r] # "none" /\ entries[r] > 0
                                     \/ ops[r] = "sent" /\ exhausted}
               there == {r \in Runs : entries[r] > 0}
    <1>1. /\ op' = [r \in Runs |-> IF r \in over THEN "none" ELSE ops[r]]
          /\ CallsEnd(WaitingFor(over), there)
      BY DEF Reconcile
    <1>2. WaitingFor(over) \in SUBSET Calls /\ there \in SUBSET Runs
          /\ \A r \in there : entries[r] > 0
      BY DEF WaitingFor
    <1>3. Told(entries) /\ \A c \in Calls \ WaitingFor(over) : call'[c] = call[c]
      <2> HIDE DEF over, there
      <2> QED BY <1>1, <1>2, CallsEndTells
    <1>4. \A c \in Calls : call[c].at = "queued" => c \notin WaitingFor(over)
      BY DEF WaitingFor
    <1> QED
      BY <1>1, <1>3, <1>4

-----------------------------------------------------------------------------
(* How the sequence moves *)

LEMMA TailKeeps ==
    ASSUME TypeOK, Lined, sequence # <<>>, TaskEnds,
           \A c \in Calls : call[c].at = "queued" /\ c # Head(sequence) => call'[c] = call[c]
    PROVE  Lined' /\ sequence' \in Seq(Tasks) /\ phase' = "idle"
    <1>1. sequence \in Seq(Tasks) /\ sequence' = Tail(sequence) /\ phase' = "idle"
      BY DEF TypeOK, TaskEnds
    <1>2. /\ sequence' \in Seq(Tasks) /\ Len(sequence') = Len(sequence) - 1
          /\ Len(sequence) \in Nat /\ Len(sequence) > 0
          /\ Head(sequence) = sequence[1]
          /\ \A i \in 1..Len(sequence') : sequence'[i] = sequence[i + 1]
      BY <1>1
    <1>3. \A i \in 1..Len(sequence') : sequence'[i] \in Calls =>
             /\ sequence'[i] # Head(sequence)
             /\ call[sequence'[i]] \in [run : Runs, at : {"queued"}]
             /\ \A j \in 1..Len(sequence') : sequence'[j] = sequence'[i] => j = i
      <2> SUFFICES ASSUME NEW i \in 1..Len(sequence'), sequence'[i] \in Calls
                   PROVE  /\ sequence'[i] # Head(sequence)
                          /\ call[sequence'[i]] \in [run : Runs, at : {"queued"}]
                          /\ \A j \in 1..Len(sequence') : sequence'[j] = sequence'[i] => j = i
        OBVIOUS
      <2>1. i + 1 \in 1..Len(sequence) /\ sequence'[i] = sequence[i + 1] /\ 1 \in 1..Len(sequence)
        BY <1>2
      <2>2. /\ call[sequence[i + 1]] \in [run : Runs, at : {"queued"}]
            /\ \A j \in 1..Len(sequence) : sequence[j] = sequence[i + 1] => j = i + 1
        BY <2>1 DEF Lined
      <2>3. sequence'[i] # Head(sequence)
        BY <1>2, <2>1, <2>2
      <2>4. ASSUME NEW j \in 1..Len(sequence'), sequence'[j] = sequence'[i]
            PROVE  j = i
        <3>1. j + 1 \in 1..Len(sequence) /\ sequence[j + 1] = sequence[i + 1]
          BY <1>2, <2>1, <2>4
        <3> QED
          BY <2>2, <3>1
      <2> QED
        BY <2>1, <2>2, <2>3, <2>4
    <1>4. \A i \in 1..Len(sequence') : sequence'[i] \in Calls => call'[sequence'[i]] = call[sequence'[i]]
      BY <1>3
    <1> QED
      BY <1>1, <1>2, <1>3, <1>4 DEF Lined

LEMMA StayKeeps ==
    ASSUME TypeOK, Lined, UNCHANGED sequence, phase' # "idle" => sequence # <<>>,
           \A c \in Calls : call[c].at = "queued" => call'[c] = call[c]
    PROVE  Lined'
    BY DEF Lined

LEMMA AppendKeeps ==
    ASSUME TypeOK, Lined, NEW task \in {"send", "close", "delete"},
           sequence' = Append(sequence, task), UNCHANGED <<call, phase>>
    PROVE  Lined' /\ sequence' \in Seq(Tasks)
    <1>1. task \in Tasks /\ task \notin Calls
      BY CallsAssumption DEF Tasks
    <1>2. sequence \in Seq(Tasks) /\ Len(sequence) \in Nat
      BY DEF TypeOK
    <1>3. /\ sequence' \in Seq(Tasks) /\ Len(sequence') = Len(sequence) + 1
          /\ sequence' # <<>>
          /\ \A i \in 1..Len(sequence) : sequence'[i] = sequence[i]
          /\ sequence'[Len(sequence) + 1] = task
      BY <1>1, <1>2
    <1>4. \A i \in 1..Len(sequence') : sequence'[i] \in Calls => i \in 1..Len(sequence)
      BY <1>1, <1>2, <1>3
    <1> QED
      BY <1>2, <1>3, <1>4 DEF Lined


LEMMA FailsCounted ==
    ASSUME TypeOK, Fails PROVE failures' \in 0..MaxFailures /\ restarts' = restarts
    BY BoundsAssumption DEF TypeOK, Fails


LEMMA AttemptTimesOutInv ==
    ASSUME NEW r \in Runs, IInv, AttemptTimesOut(r) PROVE IInv'
    <1>1. TypeOK'
      BY DEF IInv, TypeOK, Phases, Marks, Tasks, Free, AttemptTimesOut, disk, native,
          deliveries, fences, bounds
    <1>2. Results'
      BY DEF IInv, Results, AttemptTimesOut, disk, native, deliveries, fences, bounds
    <1>3. Owned'
      BY DEF IInv, Owned, AttemptTimesOut, disk, native, deliveries, fences, bounds
    <1>4. Lined'
      <2>1. /\ UNCHANGED <<sequence, call>>
            /\ phase' # "idle" => sequence # <<>>
        BY DEF IInv, Lined, AttemptTimesOut, deliveries
      <2> QED
        BY <2>1, StayKeeps DEF IInv
    <1>5. Held'
      BY DEF IInv, Held, AttemptTimesOut, disk, native, deliveries, fences, bounds
    <1>6. OwnershipLasts'
      BY DEF IInv, OwnershipLasts, AttemptTimesOut, disk, native, deliveries, fences, bounds
    <1>7. NoDeadDelivery'
      BY DEF IInv, NoDeadDelivery, Exhausted, AttemptTimesOut, disk, native, deliveries, fences,
          bounds
    <1>8. HeadIsAlone'
      BY DEF IInv, HeadIsAlone, AttemptTimesOut, disk, native, deliveries, fences, bounds
    <1> QED
      BY <1>1, <1>2, <1>3, <1>4, <1>5, <1>6, <1>7, <1>8 DEF IInv

LEMMA RecordInv ==
    ASSUME NEW r \in Runs, IInv, Record(r) PROVE IInv'
    <1>1. TypeOK'
      BY DEF IInv, TypeOK, Phases, Marks, Tasks, Free, Record, disk, native, deliveries, fences,
          bounds
    <1>2. Results'
      BY DEF IInv, Results, Record, disk, native, deliveries, fences, bounds
    <1>3. Owned'
      BY DEF IInv, Owned, Record, disk, native, deliveries, fences, bounds
    <1>4. Lined'
      <2>1. /\ UNCHANGED <<sequence, call>>
            /\ phase' # "idle" => sequence # <<>>
        BY DEF IInv, Lined, Record, deliveries
      <2> QED
        BY <2>1, StayKeeps DEF IInv
    <1>5. Held'
      BY DEF IInv, Held, Record, disk, native, deliveries, fences, bounds
    <1>6. OwnershipLasts'
      BY DEF IInv, OwnershipLasts, Record, disk, native, deliveries, fences, bounds
    <1>7. NoDeadDelivery'
      BY DEF IInv, NoDeadDelivery, Exhausted, Record, disk, native, deliveries, fences, bounds
    <1>8. HeadIsAlone'
      BY DEF IInv, HeadIsAlone, Record, disk, native, deliveries, fences, bounds
    <1> QED
      BY <1>1, <1>2, <1>3, <1>4, <1>5, <1>6, <1>7, <1>8 DEF IInv

LEMMA OpensInv ==
    ASSUME IInv, Opens PROVE IInv'
    <1>1. TypeOK'
      BY DEF IInv, TypeOK, Phases, Marks, Tasks, Free, Opens, TaskWaits, disk, native,
          deliveries, fences, bounds
    <1>2. Results'
      BY DEF IInv, Results, Opens, TaskWaits, disk, native, deliveries, fences, bounds
    <1>3. Owned'
      BY DEF IInv, Owned, Opens, TaskWaits, disk, native, deliveries, fences, bounds
    <1>4. Lined'
      <2>1. /\ UNCHANGED <<sequence, call>>
            /\ phase' # "idle" => sequence # <<>>
        BY DEF IInv, Lined, Opens, TaskWaits, deliveries
      <2> QED
        BY <2>1, StayKeeps DEF IInv
    <1>5. Held'
      BY DEF IInv, Held, Opens, TaskWaits, disk, native, deliveries, fences, bounds
    <1>6. OwnershipLasts'
      BY DEF IInv, OwnershipLasts, Opens, TaskWaits, disk, native, deliveries, fences, bounds
    <1>7. NoDeadDelivery'
      BY DEF IInv, NoDeadDelivery, Exhausted, Opens, TaskWaits, disk, native, deliveries,
          fences, bounds
    <1>8. HeadIsAlone'
      BY DEF IInv, HeadIsAlone, Opens, TaskWaits, disk, native, deliveries, fences, bounds
    <1> QED
      BY <1>1, <1>2, <1>3, <1>4, <1>5, <1>6, <1>7, <1>8 DEF IInv

LEMMA OpenEndsInv ==
    ASSUME IInv, OpenEnds PROVE IInv'
    <1>1. TypeOK'
      BY DEF IInv, TypeOK, Phases, Marks, Tasks, Free, OpenEnds, TaskWaits, disk, native,
          deliveries, fences, bounds
    <1>2. Results'
      BY DEF IInv, Results, OpenEnds, TaskWaits, disk, native, deliveries, fences, bounds
    <1>3. Owned'
      BY DEF IInv, Owned, Held, OpenEnds, disk, deliveries
    <1>4. Lined'
      <2>1. /\ UNCHANGED <<sequence, call>>
            /\ phase' # "idle" => sequence # <<>>
        BY DEF IInv, Lined, OpenEnds, TaskWaits, deliveries
      <2> QED
        BY <2>1, StayKeeps DEF IInv
    <1>5. Held'
      BY DEF IInv, Held, OpenEnds, TaskWaits, disk, native, deliveries, fences, bounds
    <1>6. OwnershipLasts'
      BY DEF IInv, OwnershipLasts, OpenEnds, TaskWaits, disk, native, deliveries, fences, bounds
    <1>7. NoDeadDelivery'
      BY DEF IInv, NoDeadDelivery, Exhausted, OpenEnds, TaskWaits, disk, native, deliveries,
          fences, bounds
    <1>8. HeadIsAlone'
      BY DEF IInv, HeadIsAlone, OpenEnds, TaskWaits, disk, native, deliveries, fences, bounds
    <1> QED
      BY <1>1, <1>2, <1>3, <1>4, <1>5, <1>6, <1>7, <1>8 DEF IInv

LEMMA SendInv ==
    ASSUME IInv, Send PROVE IInv'
    <1>1. TypeOK'
      BY AppendKeeps DEF IInv, TypeOK, Send, disk, native, deliveries, fences, bounds
    <1>2. Results'
      BY DEF IInv, Results, Send, disk, native, deliveries, fences, bounds
    <1>3. Owned'
      BY DEF IInv, Owned, Send, disk, native, deliveries, fences, bounds
    <1>4. Lined'
      BY AppendKeeps DEF IInv, Send, disk, native, deliveries, fences, bounds
    <1>5. Held'
      BY DEF IInv, Held, Send, disk, native, deliveries, fences, bounds
    <1>6. OwnershipLasts'
      BY DEF IInv, OwnershipLasts, Send, disk, native, deliveries, fences, bounds
    <1>7. NoDeadDelivery'
      BY DEF IInv, NoDeadDelivery, Exhausted, Send, disk, native, deliveries, fences, bounds
    <1>8. HeadIsAlone'
      BY DEF IInv, HeadIsAlone, Send, disk, native, deliveries, fences, bounds
    <1> QED
      BY <1>1, <1>2, <1>3, <1>4, <1>5, <1>6, <1>7, <1>8 DEF IInv

LEMMA CloseInv ==
    ASSUME IInv, Close PROVE IInv'
    <1>1. TypeOK'
      BY AppendKeeps DEF IInv, TypeOK, Close, disk, native, deliveries, fences, bounds
    <1>2. Results'
      BY DEF IInv, Results, Close, disk, native, deliveries, fences, bounds
    <1>3. Owned'
      BY DEF IInv, Owned, Close, disk, native, deliveries, fences, bounds
    <1>4. Lined'
      BY AppendKeeps DEF IInv, Close, disk, native, deliveries, fences, bounds
    <1>5. Held'
      BY DEF IInv, Held, Close, disk, native, deliveries, fences, bounds
    <1>6. OwnershipLasts'
      BY DEF IInv, OwnershipLasts, Close, disk, native, deliveries, fences, bounds
    <1>7. NoDeadDelivery'
      BY DEF IInv, NoDeadDelivery, Exhausted, Close, disk, native, deliveries, fences, bounds
    <1>8. HeadIsAlone'
      BY DEF IInv, HeadIsAlone, Close, disk, native, deliveries, fences, bounds
    <1> QED
      BY <1>1, <1>2, <1>3, <1>4, <1>5, <1>6, <1>7, <1>8 DEF IInv

LEMMA DeleteInv ==
    ASSUME IInv, Delete PROVE IInv'
    <1>1. TypeOK'
      BY AppendKeeps DEF IInv, TypeOK, Delete, disk, native, deliveries, fences, bounds
    <1>2. Results'
      BY DEF IInv, Results, Delete, disk, native, deliveries, fences, bounds
    <1>3. Owned'
      BY DEF IInv, Owned, Delete, disk, native, deliveries, fences, bounds
    <1>4. Lined'
      BY AppendKeeps DEF IInv, Delete, disk, native, deliveries, fences, bounds
    <1>5. Held'
      BY DEF IInv, Held, Delete, disk, native, deliveries, fences, bounds
    <1>6. OwnershipLasts'
      BY DEF IInv, OwnershipLasts, Delete, disk, native, deliveries, fences, bounds
    <1>7. NoDeadDelivery'
      BY DEF IInv, NoDeadDelivery, Exhausted, Delete, disk, native, deliveries, fences, bounds
    <1>8. HeadIsAlone'
      BY DEF IInv, HeadIsAlone, Delete, disk, native, deliveries, fences, bounds
    <1> QED
      BY <1>1, <1>2, <1>3, <1>4, <1>5, <1>6, <1>7, <1>8 DEF IInv

LEMMA SendRefusedInv ==
    ASSUME IInv, SendRefused PROVE IInv'
    <1>a. /\ sequence # <<>> /\ TaskEnds
          /\ \A c \in Calls : call'[c] = call[c]
      BY DEF IInv, Lined, At, SendRefused, disk, native, deliveries, fences, bounds
    <1>b. Lined' /\ sequence' \in Seq(Tasks) /\ phase' = "idle"
      BY <1>a, TailKeeps DEF IInv
    <1>1. TypeOK'
      BY <1>b DEF IInv, TypeOK, Phases, Marks, Tasks, Free, SendRefused, disk, native,
          deliveries, fences, bounds
    <1>2. Results'
      BY <1>b DEF IInv, Results, SendRefused, disk, native, deliveries, fences, bounds
    <1>3. Owned'
      BY <1>b DEF IInv, Owned, SendRefused, disk, native, deliveries, fences, bounds
    <1>4. Lined'
      BY <1>b
    <1>5. Held'
      BY <1>b DEF IInv, Held, SendRefused, disk, native, deliveries, fences, bounds
    <1>6. OwnershipLasts'
      BY <1>b DEF IInv, OwnershipLasts, SendRefused, disk, native, deliveries, fences, bounds
    <1>7. NoDeadDelivery'
      BY <1>b DEF IInv, NoDeadDelivery, Exhausted, SendRefused, disk, native, deliveries,
          fences, bounds
    <1>8. HeadIsAlone'
      BY <1>b DEF IInv, HeadIsAlone, SendRefused, disk, native, deliveries, fences, bounds
    <1> QED
      BY <1>1, <1>2, <1>3, <1>4, <1>5, <1>6, <1>7, <1>8 DEF IInv

LEMMA SendPromptsInv ==
    ASSUME IInv, SendPrompts PROVE IInv'
    <1>1. TypeOK'
      BY DEF IInv, TypeOK, Phases, Marks, Tasks, Free, SendPrompts, TaskWaits, At, HasSession,
          disk, native, deliveries, fences, bounds
    <1>2. Results'
      BY DEF IInv, Results, SendPrompts, TaskWaits, At, HasSession, disk, native, deliveries,
          fences, bounds
    <1>3. Owned'
      BY DEF IInv, Owned, SendPrompts, TaskWaits, At, HasSession, disk, native, deliveries,
          fences, bounds
    <1>4. Lined'
      <2>1. /\ UNCHANGED <<sequence, call>>
            /\ phase' # "idle" => sequence # <<>>
        BY DEF IInv, Lined, SendPrompts, TaskWaits, At, HasSession, deliveries
      <2> QED
        BY <2>1, StayKeeps DEF IInv
    <1>5. Held'
      BY DEF IInv, Held, SendPrompts, TaskWaits, At, HasSession, disk, native, deliveries,
          fences, bounds
    <1>6. OwnershipLasts'
      BY DEF IInv, OwnershipLasts, SendPrompts, TaskWaits, At, HasSession, disk, native,
          deliveries, fences, bounds
    <1>7. NoDeadDelivery'
      BY DEF IInv, NoDeadDelivery, Exhausted, SendPrompts, TaskWaits, At, HasSession, disk,
          native, deliveries, fences, bounds
    <1>8. HeadIsAlone'
      BY DEF IInv, HeadIsAlone, SendPrompts, TaskWaits, At, HasSession, disk, native,
          deliveries, fences, bounds
    <1> QED
      BY <1>1, <1>2, <1>3, <1>4, <1>5, <1>6, <1>7, <1>8 DEF IInv

LEMMA PromptAcceptedInv ==
    ASSUME IInv, PromptAccepted PROVE IInv'
    <1>a. /\ sequence # <<>> /\ TaskEnds
          /\ \A c \in Calls : call'[c] = call[c]
      BY DEF IInv, Lined, At, PromptAccepted, disk, native, deliveries, fences, bounds
    <1>b. Lined' /\ sequence' \in Seq(Tasks) /\ phase' = "idle"
      BY <1>a, TailKeeps DEF IInv
    <1>1. TypeOK'
      BY <1>b DEF IInv, TypeOK, Phases, Marks, Tasks, Free, PromptAccepted, disk, native,
          deliveries, fences, bounds
    <1>2. Results'
      BY <1>b DEF IInv, Results, PromptAccepted, disk, native, deliveries, fences, bounds
    <1>3. Owned'
      BY <1>b DEF IInv, Owned, Held, PromptAccepted, disk, deliveries
    <1>4. Lined'
      BY <1>b
    <1>5. Held'
      BY <1>b DEF IInv, Held, PromptAccepted, disk, native, deliveries, fences, bounds
    <1>6. OwnershipLasts'
      BY <1>b DEF IInv, OwnershipLasts, PromptAccepted, disk, native, deliveries, fences, bounds
    <1>7. NoDeadDelivery'
      BY <1>b DEF IInv, NoDeadDelivery, Exhausted, PromptAccepted, disk, native, deliveries,
          fences, bounds
    <1>8. HeadIsAlone'
      BY <1>b DEF IInv, HeadIsAlone, PromptAccepted, disk, native, deliveries, fences, bounds
    <1> QED
      BY <1>1, <1>2, <1>3, <1>4, <1>5, <1>6, <1>7, <1>8 DEF IInv

LEMMA PromptRejectedInv ==
    ASSUME IInv, PromptRejected PROVE IInv'
    <1>a. /\ sequence # <<>> /\ TaskEnds
          /\ \A c \in Calls : call'[c] = call[c]
      BY DEF IInv, Lined, At, PromptRejected, disk, native, deliveries, fences, bounds
    <1>b. Lined' /\ sequence' \in Seq(Tasks) /\ phase' = "idle"
      BY <1>a, TailKeeps DEF IInv
    <1>1. TypeOK'
      BY <1>b DEF IInv, TypeOK, Phases, Marks, Tasks, Free, PromptRejected, disk, native,
          deliveries, fences, bounds
    <1>2. Results'
      BY <1>b DEF IInv, Results, PromptRejected, disk, native, deliveries, fences, bounds
    <1>3. Owned'
      BY <1>b DEF IInv, Owned, PromptRejected, disk, native, deliveries, fences, bounds
    <1>4. Lined'
      BY <1>b
    <1>5. Held'
      BY <1>b DEF IInv, Held, PromptRejected, disk, native, deliveries, fences, bounds
    <1>6. OwnershipLasts'
      BY <1>b DEF IInv, OwnershipLasts, PromptRejected, disk, native, deliveries, fences, bounds
    <1>7. NoDeadDelivery'
      BY <1>b DEF IInv, NoDeadDelivery, Exhausted, PromptRejected, disk, native, deliveries,
          fences, bounds
    <1>8. HeadIsAlone'
      BY <1>b DEF IInv, HeadIsAlone, PromptRejected, disk, native, deliveries, fences, bounds
    <1> QED
      BY <1>1, <1>2, <1>3, <1>4, <1>5, <1>6, <1>7, <1>8 DEF IInv

LEMMA CloseNowInv ==
    ASSUME IInv, CloseNow PROVE IInv'
    <1>1. TypeOK'
      BY DEF IInv, TypeOK, Phases, Marks, Tasks, Free, CloseNow, TaskWaits, At, disk, native,
          deliveries, fences, bounds
    <1>2. Results'
      BY DEF IInv, Results, CloseNow, TaskWaits, At, disk, native, deliveries, fences, bounds
    <1>3. Owned'
      BY DEF IInv, Owned, CloseNow, TaskWaits, At, disk, native, deliveries, fences, bounds
    <1>4. Lined'
      <2>1. /\ UNCHANGED <<sequence, call>>
            /\ phase' # "idle" => sequence # <<>>
        BY DEF IInv, Lined, CloseNow, TaskWaits, At, deliveries
      <2> QED
        BY <2>1, StayKeeps DEF IInv
    <1>5. Held'
      BY DEF IInv, Held, CloseNow, TaskWaits, At, disk, native, deliveries, fences, bounds
    <1>6. OwnershipLasts'
      BY DEF IInv, OwnershipLasts, CloseNow, TaskWaits, At, disk, native, deliveries, fences,
          bounds
    <1>7. NoDeadDelivery'
      BY DEF IInv, NoDeadDelivery, Exhausted, CloseNow, TaskWaits, At, disk, native, deliveries,
          fences, bounds
    <1>8. HeadIsAlone'
      BY DEF IInv, HeadIsAlone, CloseNow, TaskWaits, At, disk, native, deliveries, fences, bounds
    <1> QED
      BY <1>1, <1>2, <1>3, <1>4, <1>5, <1>6, <1>7, <1>8 DEF IInv

LEMMA CloseFailsInv ==
    ASSUME IInv, CloseFails PROVE IInv'
    <1>a. /\ sequence # <<>> /\ TaskEnds
          /\ \A c \in Calls : call'[c] = call[c]
      BY DEF IInv, Lined, At, CloseFails, disk, native, deliveries, fences, bounds
    <1>b. Lined' /\ sequence' \in Seq(Tasks) /\ phase' = "idle"
      BY <1>a, TailKeeps DEF IInv
    <1>1. TypeOK'
      BY <1>b, FailsCounted DEF IInv, TypeOK, CloseFails, disk, native, deliveries, Phases
    <1>2. Results'
      BY <1>b DEF IInv, Results, CloseFails, disk, native, deliveries, fences, bounds
    <1>3. Owned'
      BY <1>b DEF IInv, Owned, CloseFails, disk, native, deliveries, fences, bounds
    <1>4. Lined'
      BY <1>b
    <1>5. Held'
      BY <1>b DEF IInv, Held, CloseFails, disk, native, deliveries, fences, bounds
    <1>6. OwnershipLasts'
      BY <1>b DEF IInv, OwnershipLasts, CloseFails, disk, native, deliveries, fences, bounds
    <1>7. NoDeadDelivery'
      BY <1>b DEF IInv, NoDeadDelivery, Exhausted, CloseFails, disk, native, deliveries, fences,
          bounds
    <1>8. HeadIsAlone'
      BY <1>b DEF IInv, HeadIsAlone, CloseFails, disk, native, deliveries, fences, bounds
    <1> QED
      BY <1>1, <1>2, <1>3, <1>4, <1>5, <1>6, <1>7, <1>8 DEF IInv

LEMMA DeletePreparesInv ==
    ASSUME IInv, DeletePrepares PROVE IInv'
    <1>1. TypeOK'
      BY DEF IInv, TypeOK, Phases, Marks, Tasks, Free, DeletePrepares, TaskWaits, disk, native,
          deliveries, fences, bounds
    <1>2. Results'
      BY DEF IInv, Results, DeletePrepares, TaskWaits, disk, native, deliveries, fences, bounds
    <1>3. Owned'
      BY DEF IInv, Owned, DeletePrepares, TaskWaits, disk, native, deliveries, fences, bounds
    <1>4. Lined'
      <2>1. /\ UNCHANGED <<sequence, call>>
            /\ phase' # "idle" => sequence # <<>>
        BY DEF IInv, Lined, DeletePrepares, TaskWaits, deliveries
      <2> QED
        BY <2>1, StayKeeps DEF IInv
    <1>5. Held'
      BY DEF IInv, Held, DeletePrepares, TaskWaits, disk, native, deliveries, fences, bounds
    <1>6. OwnershipLasts'
      BY DEF IInv, OwnershipLasts, DeletePrepares, TaskWaits, disk, native, deliveries, fences,
          bounds
    <1>7. NoDeadDelivery'
      BY DEF IInv, NoDeadDelivery, Exhausted, DeletePrepares, TaskWaits, disk, native,
          deliveries, fences, bounds
    <1>8. HeadIsAlone'
      BY DEF IInv, HeadIsAlone, DeletePrepares, TaskWaits, disk, native, deliveries, fences,
          bounds
    <1> QED
      BY <1>1, <1>2, <1>3, <1>4, <1>5, <1>6, <1>7, <1>8 DEF IInv

LEMMA DeleteRefusedInv ==
    ASSUME IInv, DeleteRefused PROVE IInv'
    <1>a. /\ sequence # <<>> /\ TaskEnds
          /\ \A c \in Calls : call'[c] = call[c]
      BY DEF IInv, Lined, At, DeleteRefused, DeletionThrows, disk, native, deliveries, fences,
          bounds
    <1>b. Lined' /\ sequence' \in Seq(Tasks) /\ phase' = "idle"
      BY <1>a, TailKeeps DEF IInv
    <1>1. TypeOK'
      BY <1>b, FailsCounted DEF IInv, TypeOK, DeleteRefused, DeletionThrows, disk, native,
          deliveries, Phases
    <1>2. Results'
      BY <1>b DEF IInv, Results, DeleteRefused, DeletionThrows, disk, native, deliveries,
          fences, bounds
    <1>3. Owned'
      BY <1>b DEF IInv, Owned, DeleteRefused, DeletionThrows, disk, native, deliveries, fences,
          bounds
    <1>4. Lined'
      BY <1>b
    <1>5. Held'
      BY <1>b DEF IInv, Held, DeleteRefused, DeletionThrows, disk, native, deliveries, fences,
          bounds
    <1>6. OwnershipLasts'
      BY <1>b DEF IInv, OwnershipLasts, DeleteRefused, DeletionThrows, disk, native, deliveries,
          fences, bounds
    <1>7. NoDeadDelivery'
      BY <1>b DEF IInv, NoDeadDelivery, Exhausted, DeleteRefused, DeletionThrows, disk, native,
          deliveries, fences, bounds
    <1>8. HeadIsAlone'
      BY <1>b DEF IInv, HeadIsAlone, DeleteRefused, DeletionThrows, disk, native, deliveries,
          fences, bounds
    <1> QED
      BY <1>1, <1>2, <1>3, <1>4, <1>5, <1>6, <1>7, <1>8 DEF IInv

LEMMA DeleteStoppedInv ==
    ASSUME IInv, DeleteStopped PROVE IInv'
    <1>1. TypeOK'
      BY DEF IInv, TypeOK, Phases, Marks, Tasks, Free, DeleteStopped, TaskWaits, disk, native,
          deliveries, fences, bounds
    <1>2. Results'
      BY DEF IInv, Results, DeleteStopped, TaskWaits, disk, native, deliveries, fences, bounds
    <1>3. Owned'
      BY DEF IInv, Owned, DeleteStopped, TaskWaits, disk, native, deliveries, fences, bounds
    <1>4. Lined'
      <2>1. /\ UNCHANGED <<sequence, call>>
            /\ phase' # "idle" => sequence # <<>>
        BY DEF IInv, Lined, DeleteStopped, TaskWaits, deliveries
      <2> QED
        BY <2>1, StayKeeps DEF IInv
    <1>5. Held'
      BY DEF IInv, Held, DeleteStopped, TaskWaits, disk, native, deliveries, fences, bounds
    <1>6. OwnershipLasts'
      BY DEF IInv, OwnershipLasts, DeleteStopped, TaskWaits, disk, native, deliveries, fences,
          bounds
    <1>7. NoDeadDelivery'
      BY DEF IInv, NoDeadDelivery, Exhausted, DeleteStopped, TaskWaits, disk, native,
          deliveries, fences, bounds
    <1>8. HeadIsAlone'
      BY DEF IInv, HeadIsAlone, DeleteStopped, TaskWaits, disk, native, deliveries, fences, bounds
    <1> QED
      BY <1>1, <1>2, <1>3, <1>4, <1>5, <1>6, <1>7, <1>8 DEF IInv

LEMMA DeleteUnlinksInv ==
    ASSUME IInv, DeleteUnlinks PROVE IInv'
    <1>1. TypeOK'
      BY DEF IInv, TypeOK, Phases, Marks, Tasks, Free, DeleteUnlinks, TaskWaits, disk, native,
          deliveries, fences, bounds
    <1>2. Results'
      BY DEF IInv, Results, Held, DeleteUnlinks, deliveries
    <1>3. Owned'
      BY DEF IInv, Owned, HeadIsAlone, DeleteUnlinks, native, deliveries
    <1>4. Lined'
      <2>1. /\ UNCHANGED <<sequence, call>>
            /\ phase' # "idle" => sequence # <<>>
        BY DEF IInv, Lined, DeleteUnlinks, TaskWaits, deliveries
      <2> QED
        BY <2>1, StayKeeps DEF IInv
    <1>5. Held'
      BY DEF IInv, Held, DeleteUnlinks, TaskWaits, disk, native, deliveries, fences, bounds
    <1>6. OwnershipLasts'
      BY DEF IInv, OwnershipLasts, DeleteUnlinks, TaskWaits, disk, native, deliveries, fences,
          bounds
    <1>7. NoDeadDelivery'
      BY DEF IInv, NoDeadDelivery, Exhausted, DeleteUnlinks, TaskWaits, disk, native,
          deliveries, fences, bounds
    <1>8. HeadIsAlone'
      BY DEF IInv, HeadIsAlone, DeleteUnlinks, TaskWaits, disk, native, deliveries, fences, bounds
    <1> QED
      BY <1>1, <1>2, <1>3, <1>4, <1>5, <1>6, <1>7, <1>8 DEF IInv

LEMMA DeleteFailsInv ==
    ASSUME IInv, DeleteFails PROVE IInv'
    <1>a. /\ sequence # <<>> /\ TaskEnds
          /\ \A c \in Calls : call'[c] = call[c]
      BY DEF IInv, Lined, At, DeleteFails, DeletionThrows, disk, native, deliveries, fences,
          bounds
    <1>b. Lined' /\ sequence' \in Seq(Tasks) /\ phase' = "idle"
      BY <1>a, TailKeeps DEF IInv
    <1>1. TypeOK'
      BY <1>b, FailsCounted DEF IInv, TypeOK, DeleteFails, DeletionThrows, disk, native,
          deliveries, Phases
    <1>2. Results'
      BY <1>b DEF IInv, Results, DeleteFails, DeletionThrows, disk, native, deliveries, fences,
          bounds
    <1>3. Owned'
      BY <1>b DEF IInv, Owned, DeleteFails, DeletionThrows, disk, native, deliveries, fences,
          bounds
    <1>4. Lined'
      BY <1>b
    <1>5. Held'
      BY <1>b DEF IInv, Held, DeleteFails, DeletionThrows, disk, native, deliveries, fences,
          bounds
    <1>6. OwnershipLasts'
      BY <1>b DEF IInv, OwnershipLasts, DeleteFails, DeletionThrows, disk, native, deliveries,
          fences, bounds
    <1>7. NoDeadDelivery'
      BY <1>b DEF IInv, NoDeadDelivery, Exhausted, DeleteFails, DeletionThrows, disk, native,
          deliveries, fences, bounds
    <1>8. HeadIsAlone'
      BY <1>b DEF IInv, HeadIsAlone, DeleteFails, DeletionThrows, disk, native, deliveries,
          fences, bounds
    <1> QED
      BY <1>1, <1>2, <1>3, <1>4, <1>5, <1>6, <1>7, <1>8 DEF IInv

LEMMA DeletePurgesInv ==
    ASSUME IInv, DeletePurges PROVE IInv'
    <1>a. /\ sequence # <<>> /\ TaskEnds
          /\ \A c \in Calls : call'[c] = call[c]
      BY DEF IInv, Lined, At, DeletePurges, disk, native, deliveries, fences, bounds
    <1>b. Lined' /\ sequence' \in Seq(Tasks) /\ phase' = "idle"
      BY <1>a, TailKeeps DEF IInv
    <1>1. TypeOK'
      BY <1>b DEF IInv, TypeOK, Phases, Marks, Tasks, Free, DeletePurges, disk, native,
          deliveries, fences, bounds
    <1>2. Results'
      BY <1>b DEF IInv, Results, DeletePurges, disk, native, deliveries, fences, bounds
    <1>3. Owned'
      BY <1>b DEF IInv, Owned, DeletePurges, disk, native, deliveries, fences, bounds
    <1>4. Lined'
      BY <1>b
    <1>5. Held'
      BY <1>b DEF IInv, Held, DeletePurges, disk, native, deliveries, fences, bounds
    <1>6. OwnershipLasts'
      BY <1>b DEF IInv, OwnershipLasts, DeletePurges, disk, native, deliveries, fences, bounds
    <1>7. NoDeadDelivery'
      BY <1>b DEF IInv, NoDeadDelivery, Exhausted, DeletePurges, disk, native, deliveries,
          fences, bounds
    <1>8. HeadIsAlone'
      BY <1>b DEF IInv, HeadIsAlone, DeletePurges, disk, native, deliveries, fences, bounds
    <1> QED
      BY <1>1, <1>2, <1>3, <1>4, <1>5, <1>6, <1>7, <1>8 DEF IInv

LEMMA RestartInv ==
    ASSUME IInv, Restart PROVE IInv'
    <1>1. TypeOK'
      <2>1. /\ sequence' \in Seq(Tasks) /\ phase' \in Phases
            /\ restarts' \in 0..MaxRestarts /\ failures' \in 0..MaxFailures
        BY BoundsAssumption DEF IInv, TypeOK, Phases, Restart
      <2>2. /\ op' \in [Runs -> {"none", "sending", "sent"}]
            /\ call' \in [Calls -> {Free} \cup [run : Runs, at : {"queued", "waiting"}]]
            /\ attempt' \in [Runs -> Calls \cup Marks]
            /\ followUps' \in [Runs -> Nat]
        BY DEF Restart, Marks
      <2> QED
        BY <2>1, <2>2 DEF IInv, TypeOK, Restart, disk
    <1>2. Results'
      BY DEF IInv, Results, Restart, disk, native, deliveries, fences, bounds
    <1>3. Owned'
      BY DEF IInv, Owned, Restart, disk, native, deliveries, fences, bounds
    <1>4. Lined'
      BY DEF Lined, Restart
    <1>5. Held'
      BY DEF IInv, Held, Restart, disk, native, deliveries, fences, bounds
    <1>6. OwnershipLasts'
      BY CallsAssumption DEF IInv, OwnershipLasts, TypeOK, Restart
    <1>7. NoDeadDelivery'
      BY DEF IInv, NoDeadDelivery, Exhausted, Restart, disk, native, deliveries, fences, bounds
    <1>8. HeadIsAlone'
      BY DEF IInv, HeadIsAlone, Restart, disk, native, deliveries, fences, bounds
    <1> QED
      BY <1>1, <1>2, <1>3, <1>4, <1>5, <1>6, <1>7, <1>8 DEF IInv

-----------------------------------------------------------------------------
(* Calls at the head of the sequence *)

LEMMA HeadQueued ==
    ASSUME IInv, HeadDelivers
    PROVE  /\ Head(sequence) \in Calls
           /\ call[Head(sequence)] \in [run : Runs, at : {"queued"}]
           /\ HeadRun \in Runs
    <1>1. sequence \in Seq(Tasks) /\ sequence # <<>>
      BY DEF IInv, TypeOK, HeadDelivers
    <1>2. 1 \in 1..Len(sequence) /\ Head(sequence) = sequence[1]
      BY <1>1
    <1> QED
      BY <1>1, <1>2 DEF IInv, Lined, HeadDelivers, HeadRun

LEMMA AttemptInv ==
    ASSUME NEW r \in Runs, IInv, Attempt(r) PROVE IInv'
    <1>a. PICK c \in Calls :
             /\ call[c] = Free
             /\ call' = [call EXCEPT ![c] = [run |-> r, at |-> "queued"]]
             /\ attempt' = [attempt EXCEPT ![r] = c]
             /\ sequence' = Append(sequence, c)
      BY DEF Attempt
    <1>b. sequence \in Seq(Tasks) /\ Len(sequence) \in Nat /\ c \in Tasks
      BY DEF IInv, TypeOK, Tasks
    <1>c. /\ sequence' \in Seq(Tasks) /\ Len(sequence') = Len(sequence) + 1
          /\ sequence' # <<>>
          /\ \A i \in 1..Len(sequence) : sequence'[i] = sequence[i]
          /\ sequence'[Len(sequence) + 1] = c
      BY <1>a, <1>b
    <1>d. /\ ~fenced /\ member /\ ~reported[r] /\ attempt[r] = "none"
          /\ UNCHANGED <<file, member, copies, reported, session, turn, starter, followUps, op,
                         phase, closing, deleting, fenced, failures, restarts>>
      BY DEF Attempt, disk, native, fences, bounds
    <1>e. call' \in [Calls -> {Free} \cup [run : Runs, at : {"queued", "waiting"}]]
      BY <1>a DEF IInv, TypeOK
    <1>f. /\ attempt' \in [Runs -> Calls \cup Marks] /\ c \notin Marks
          /\ \A q \in Runs : attempt'[q] = IF q = r THEN c ELSE attempt[q]
      BY <1>a, CallsAssumption DEF IInv, TypeOK
    <1>1. TypeOK'
      BY <1>c, <1>d, <1>e, <1>f DEF IInv, TypeOK
    <1>2. Results'
      BY <1>d, <1>f DEF IInv, Results, Marks
    <1>3. Owned'
      BY <1>d DEF IInv, Owned
    <1>4. Lined'
      <2>1. \A i \in 1..Len(sequence) : sequence[i] \in Calls => sequence[i] # c
        BY <1>a DEF IInv, Lined, Free
      <2>2. \A b \in Calls : call'[b] = IF b = c THEN [run |-> r, at |-> "queued"] ELSE call[b]
        BY <1>a DEF IInv, TypeOK
      <2>3. \A i \in 1..Len(sequence') : i \in 1..Len(sequence) \/ i = Len(sequence) + 1
        BY <1>b, <1>c
      <2>4. \A i \in 1..Len(sequence') : sequence'[i] \in Calls =>
               /\ call'[sequence'[i]] \in [run : Runs, at : {"queued"}]
               /\ \A j \in 1..Len(sequence') : sequence'[j] = sequence'[i] => j = i
        BY <1>b, <1>c, <2>1, <2>2, <2>3 DEF IInv, Lined
      <2> QED
        BY <1>c, <2>4 DEF Lined
    <1>5. Held'
      BY <1>d DEF IInv, Held
    <1>6. OwnershipLasts'
      BY <1>d DEF IInv, OwnershipLasts
    <1>7. NoDeadDelivery'
      BY <1>d DEF IInv, NoDeadDelivery, Exhausted
    <1>8. HeadIsAlone'
      BY <1>d DEF IInv, HeadIsAlone
    <1> QED
      BY <1>1, <1>2, <1>3, <1>4, <1>5, <1>6, <1>7, <1>8 DEF IInv

LEMMA DeliverJoinsInv ==
    ASSUME IInv, DeliverJoins PROVE IInv'
    <1>a. /\ sequence # <<>> /\ TaskEnds
          /\ Head(sequence) \in Calls /\ HeadRun \in Runs
          /\ call[Head(sequence)] \in [run : Runs, at : {"queued"}]
          /\ call' = [call EXCEPT ![Head(sequence)].at = "waiting"]
          /\ UNCHANGED attempt
      BY HeadQueued DEF HeadDelivers, CallWaits, DeliverJoins
    <1>b. \A c \in Calls : c # Head(sequence) => call'[c] = call[c]
      BY <1>a DEF IInv, TypeOK
    <1>c. Lined' /\ sequence' \in Seq(Tasks) /\ phase' = "idle"
      BY <1>a, <1>b, TailKeeps DEF IInv
    <1>d. call' \in [Calls -> {Free} \cup [run : Runs, at : {"queued", "waiting"}]]
      BY <1>a DEF IInv, TypeOK
    <1>1. TypeOK'
      BY <1>a, <1>c, <1>d DEF IInv, TypeOK, DeliverJoins, Phases, disk, native, fences, bounds
    <1>2. Results'
      BY <1>a, <1>c DEF IInv, Results, DeliverJoins, disk, native, fences, bounds
    <1>3. Owned'
      BY <1>a, <1>c DEF IInv, Owned, DeliverJoins, disk, native, fences, bounds
    <1>4. Lined'
      BY <1>c
    <1>5. Held'
      BY <1>a, <1>c DEF IInv, Held, DeliverJoins, disk, native, fences, bounds
    <1>6. OwnershipLasts'
      BY <1>a, <1>c DEF IInv, OwnershipLasts, DeliverJoins, disk, native, fences, bounds
    <1>7. NoDeadDelivery'
      BY <1>a, <1>c DEF IInv, NoDeadDelivery, Exhausted, DeliverJoins, disk, native, fences,
          bounds
    <1>8. HeadIsAlone'
      BY <1>a, <1>c DEF IInv, HeadIsAlone, DeliverJoins, disk, native, fences, bounds
    <1> QED
      BY <1>1, <1>2, <1>3, <1>4, <1>5, <1>6, <1>7, <1>8 DEF IInv

LEMMA DeliverSendsInv ==
    ASSUME IInv, DeliverSends PROVE IInv'
    <1>a. /\ sequence # <<>> /\ TaskEnds
          /\ Head(sequence) \in Calls /\ HeadRun \in Runs
          /\ call[Head(sequence)] \in [run : Runs, at : {"queued"}]
          /\ call' = [call EXCEPT ![Head(sequence)].at = "waiting"]
          /\ UNCHANGED attempt
      BY HeadQueued DEF HeadDelivers, CallWaits, DeliverSends, Sends
    <1>b. \A c \in Calls : c # Head(sequence) => call'[c] = call[c]
      BY <1>a DEF IInv, TypeOK
    <1>c. Lined' /\ sequence' \in Seq(Tasks) /\ phase' = "idle"
      BY <1>a, <1>b, TailKeeps DEF IInv
    <1>d. call' \in [Calls -> {Free} \cup [run : Runs, at : {"queued", "waiting"}]]
      BY <1>a DEF IInv, TypeOK
    <1>e. /\ session /\ copies[HeadRun] = 0 /\ op[HeadRun] = "none"
          /\ starter # HeadRun /\ followUps[HeadRun] = 0
          /\ UNCHANGED <<file, member, copies, reported, session, closing, deleting, fenced,
                         failures, restarts>>
      BY <1>a DEF IInv, OwnershipLasts, TypeOK, DeliverSends, Sends, HasSession, disk, fences,
          bounds
    <1>f. \/ /\ turn = "idle" /\ turn' = "streaming" /\ starter' = HeadRun
             /\ op' = [op EXCEPT ![HeadRun] = "sending"] /\ followUps' = followUps
          \/ /\ turn = "streaming" /\ UNCHANGED <<turn, starter>>
             /\ op' = [op EXCEPT ![HeadRun] = "sent"]
             /\ followUps' = [followUps EXCEPT ![HeadRun] = @ + 1]
      BY DEF DeliverSends, Sends, IInv, TypeOK
    <1>g. PICK h \in Runs : h = HeadRun
      BY <1>a
    <1>h. /\ op' \in [Runs -> {"none", "sending", "sent"}] /\ followUps' \in [Runs -> Nat]
          /\ op'[h] # "none" /\ \A r \in Runs : r # h => op'[r] = op[r] /\ followUps'[r] = followUps[r]
          /\ turn' = "streaming" /\ starter' \in Runs \cup {None}
      <2>1. CASE op' = [op EXCEPT ![h] = "sending"] /\ followUps' = followUps
        <3>1. turn' = "streaming" /\ starter' \in Runs \cup {None}
          BY <1>f, <1>g DEF IInv, TypeOK
        <3> QED
          BY <2>1, <3>1 DEF IInv, TypeOK
      <2>2. CASE op' = [op EXCEPT ![h] = "sent"] /\ followUps' = [followUps EXCEPT ![h] = @ + 1]
        <3>1. turn' = "streaming" /\ starter' \in Runs \cup {None}
          BY <1>f, <1>g DEF IInv, TypeOK
        <3> QED
          BY <2>2, <3>1 DEF IInv, TypeOK
      <2> QED
        BY <1>f, <1>g, <2>1, <2>2
    <1>1. TypeOK'
      BY <1>a, <1>c, <1>d, <1>e, <1>h DEF IInv, TypeOK, Phases
    <1>2. Results'
      BY <1>a, <1>e DEF IInv, Results
    <1>3. Owned'
      <2>1. CASE turn = "idle"
        <3>1. starter = None /\ starter' = h /\ \A r \in Runs : op'[r] = IF r = h THEN "sending" ELSE op[r]
          BY <2>1, <1>f, <1>g DEF IInv, Owned, TypeOK
        <3>2. \A r \in Runs : op[r] # "sending"
          BY <3>1, CallsAssumption DEF IInv, Owned
        <3> QED
          BY <3>1, <3>2, <1>e, <1>h DEF IInv, Owned
      <2>2. CASE turn = "streaming"
        <3>1. starter' = starter /\ \A r \in Runs : op'[r] = IF r = h THEN "sent" ELSE op[r]
          BY <2>2, <1>f, <1>g DEF IInv, TypeOK
        <3> QED
          BY <3>1, <1>e, <1>h DEF IInv, Owned
      <2> QED
        BY <2>1, <2>2 DEF IInv, TypeOK
    <1>4. Lined'
      BY <1>c
    <1>5. Held'
      BY <1>c DEF Held
    <1>6. OwnershipLasts'
      <2>1. CASE turn = "idle"
        <3>1. starter = None /\ starter' = h /\ followUps' = followUps
          BY <2>1, <1>f, <1>g DEF IInv, Owned, TypeOK
        <3> QED
          BY <3>1, <1>e, <1>g, <1>h DEF IInv, OwnershipLasts
      <2>2. CASE turn = "streaming"
        <3>1. starter' = starter /\ followUps'[h] = 1
          BY <2>2, <1>e, <1>f, <1>g DEF IInv, TypeOK
        <3> QED
          BY <3>1, <1>e, <1>g, <1>h DEF IInv, OwnershipLasts
      <2> QED
        BY <2>1, <2>2 DEF IInv, TypeOK
    <1>7. NoDeadDelivery'
      BY <1>h DEF NoDeadDelivery
    <1>8. HeadIsAlone'
      BY <1>c DEF HeadIsAlone
    <1> QED
      BY <1>1, <1>2, <1>3, <1>4, <1>5, <1>6, <1>7, <1>8 DEF IInv

-----------------------------------------------------------------------------
(* Ends of calls and deliveries *)

LEMMA DeliverRefusedInv ==
    ASSUME IInv, DeliverRefused PROVE IInv'
    <1>a. /\ sequence # <<>> /\ TaskEnds
          /\ UNCHANGED <<file, member, copies, reported, session, turn, starter, followUps, op,
              closing, deleting, fenced>>
          /\ UNCHANGED <<failures, restarts>>
      BY DEF DeliverRefused, disk, native, fences, bounds, HeadDelivers
    <1>b. /\ \A r \in Runs : attempt'[r] = "recording" => attempt[r] = "recording"
          /\ Told(copies)
          /\ \A c \in Calls : c # Head(sequence) => call'[c] = call[c]
      <2>1. {Head(sequence)} \in SUBSET Calls /\ CallsEnd({Head(sequence)}, {})
        BY DEF DeliverRefused, HeadDelivers
      <2>2. \A r \in Runs : attempt'[r] = "recording" => attempt[r] = "recording"
        BY <2>1 DEF CallsEnd
      <2> QED
        BY <2>1, <2>2, CallsEndTells DEF IInv
    <1>c. Lined' /\ sequence' \in Seq(Tasks) /\ phase' = "idle"
      BY <1>a, <1>b, TailKeeps DEF IInv
    <1>1. TypeOK'
      BY <1>a, <1>b, <1>c DEF IInv, TypeOK, Told, Phases
    <1>2. Results'
      BY <1>a, <1>b, <1>c DEF IInv, Results, Told, Owned, TypeOK
    <1>3. Owned'
      BY <1>a, <1>b, <1>c DEF IInv, Owned
    <1>4. Lined'
      BY <1>c
    <1>5. Held'
      BY <1>a, <1>b, <1>c DEF IInv, Held, Told
    <1>6. OwnershipLasts'
      BY <1>a, <1>b, <1>c DEF IInv, OwnershipLasts
    <1>7. NoDeadDelivery'
      BY <1>a, <1>b, <1>c DEF IInv, NoDeadDelivery, Exhausted
    <1>8. HeadIsAlone'
      BY <1>a, <1>b, <1>c DEF IInv, HeadIsAlone
    <1> QED
      BY <1>1, <1>2, <1>3, <1>4, <1>5, <1>6, <1>7, <1>8 DEF IInv

LEMMA OpenFailsInv ==
    ASSUME IInv, OpenFails PROVE IInv'
    <1>a. /\ sequence # <<>> /\ TaskEnds
          /\ UNCHANGED <<file, member, copies, reported, session, turn, starter, followUps, op,
              closing, deleting, fenced>>
          /\ Fails
      BY DEF OpenFails, disk, native, fences, bounds, HeadDelivers, IInv, Lined
    <1>b. /\ \A r \in Runs : attempt'[r] = "recording" => attempt[r] = "recording"
          /\ Told(copies)
          /\ \A c \in Calls : c # Head(sequence) => call'[c] = call[c]
      <2>1. CASE Head(sequence) \in Calls
        <3>1. {Head(sequence)} \in SUBSET Calls /\ CallsEnd({Head(sequence)}, {})
          BY <2>1 DEF OpenFails
        <3>2. \A r \in Runs : attempt'[r] = "recording" => attempt[r] = "recording"
          BY <3>1 DEF CallsEnd
        <3> QED
          BY <3>1, <3>2, CallsEndTells DEF IInv
      <2>2. CASE Head(sequence) \notin Calls
        BY <2>2 DEF OpenFails, Told, IInv, TypeOK
      <2> QED
        BY <2>1, <2>2
    <1>c. Lined' /\ sequence' \in Seq(Tasks) /\ phase' = "idle"
      BY <1>a, <1>b, TailKeeps DEF IInv
    <1>1. TypeOK'
      BY <1>a, <1>b, <1>c, FailsCounted DEF IInv, TypeOK, Told, Phases
    <1>2. Results'
      BY <1>a, <1>b, <1>c DEF IInv, Results, Told, Owned, TypeOK
    <1>3. Owned'
      BY <1>a, <1>b, <1>c DEF IInv, Owned
    <1>4. Lined'
      BY <1>c
    <1>5. Held'
      BY <1>a, <1>b, <1>c DEF IInv, Held, Told
    <1>6. OwnershipLasts'
      BY <1>a, <1>b, <1>c DEF IInv, OwnershipLasts
    <1>7. NoDeadDelivery'
      BY <1>a, <1>b, <1>c DEF IInv, NoDeadDelivery, Exhausted
    <1>8. HeadIsAlone'
      BY <1>a, <1>b, <1>c DEF IInv, HeadIsAlone
    <1> QED
      BY <1>1, <1>2, <1>3, <1>4, <1>5, <1>6, <1>7, <1>8 DEF IInv

LEMMA DeliverFoundInv ==
    ASSUME IInv, DeliverFound PROVE IInv'
    <1>a. /\ sequence # <<>> /\ TaskEnds
          /\ UNCHANGED <<file, member, copies, reported, session, turn, starter, followUps, op,
              closing, deleting, fenced>>
          /\ UNCHANGED <<failures, restarts>>
      BY DEF DeliverFound, disk, native, fences, bounds, HeadDelivers
    <1>b. /\ \A r \in Runs : attempt'[r] = "recording" => attempt[r] = "recording" \/ (copies[r] > 0 /\ session)
          /\ Told(copies)
          /\ \A c \in Calls : c # Head(sequence) => call'[c] = call[c]
      <2>1. /\ {Head(sequence)} \in SUBSET Calls /\ {HeadRun} \in SUBSET Runs
            /\ CallsEnd({Head(sequence)}, {HeadRun})
            /\ \A r \in {HeadRun} : copies[r] > 0
            /\ session
        BY HeadQueued DEF DeliverFound, HeadDelivers, HasSession
      <2>2. Told(copies) /\ \A c \in Calls \ {Head(sequence)} : call'[c] = call[c]
        BY <2>1, CallsEndTells DEF IInv
      <2> QED
        BY <2>1, <2>2 DEF Told
    <1>c. Lined' /\ sequence' \in Seq(Tasks) /\ phase' = "idle"
      BY <1>a, <1>b, TailKeeps DEF IInv
    <1>1. TypeOK'
      BY <1>a, <1>b, <1>c DEF IInv, TypeOK, Told, Phases
    <1>2. Results'
      BY <1>a, <1>b, <1>c DEF IInv, Results, Told, Owned, TypeOK
    <1>3. Owned'
      BY <1>a, <1>b, <1>c DEF IInv, Owned
    <1>4. Lined'
      BY <1>c
    <1>5. Held'
      BY <1>a, <1>b, <1>c DEF IInv, Held, Told
    <1>6. OwnershipLasts'
      BY <1>a, <1>b, <1>c DEF IInv, OwnershipLasts
    <1>7. NoDeadDelivery'
      BY <1>a, <1>b, <1>c DEF IInv, NoDeadDelivery, Exhausted
    <1>8. HeadIsAlone'
      BY <1>a, <1>b, <1>c DEF IInv, HeadIsAlone
    <1> QED
      BY <1>1, <1>2, <1>3, <1>4, <1>5, <1>6, <1>7, <1>8 DEF IInv

LEMMA CallTimesOutInv ==
    ASSUME NEW c \in Calls, IInv, CallTimesOut(c) PROVE IInv'
    <1>a. /\ UNCHANGED <<file, member, copies, reported, session, turn, starter, followUps, op,
                       closing, deleting, fenced>>
          /\ UNCHANGED <<failures, restarts>>
      BY DEF CallTimesOut, disk, native, fences, bounds, HeadDelivers
    <1>b. /\ \A r \in Runs : attempt'[r] = "recording" => attempt[r] = "recording"
          /\ Told(copies)
          /\ \A b \in Calls : call[b].at = "queued" => call'[b] = call[b]
      <2>1. {c} \in SUBSET Calls /\ CallsEnd({c}, {}) /\ call[c].at = "waiting"
        BY DEF CallTimesOut
      <2>2. \A r \in Runs : attempt'[r] = "recording" => attempt[r] = "recording"
        BY <2>1 DEF CallsEnd
      <2> QED
        BY <2>1, <2>2, CallsEndTells DEF IInv
    <1>c. UNCHANGED <<sequence, phase>>
      BY DEF CallTimesOut
    <1>d. Lined'
      BY <1>b, <1>c, StayKeeps DEF IInv, Lined
    <1>1. TypeOK'
      BY <1>a, <1>b, <1>c DEF IInv, TypeOK, Told, Phases
    <1>2. Results'
      BY <1>a, <1>b, <1>c DEF IInv, Results, Told, Owned, TypeOK
    <1>3. Owned'
      BY <1>a, <1>b, <1>c DEF IInv, Owned
    <1>4. Lined'
      BY <1>d
    <1>5. Held'
      BY <1>a, <1>b, <1>c DEF IInv, Held, Told
    <1>6. OwnershipLasts'
      BY <1>a, <1>b, <1>c DEF IInv, OwnershipLasts
    <1>7. NoDeadDelivery'
      BY <1>a, <1>b, <1>c DEF IInv, NoDeadDelivery, Exhausted
    <1>8. HeadIsAlone'
      BY <1>a, <1>b, <1>c DEF IInv, HeadIsAlone
    <1> QED
      BY <1>1, <1>2, <1>3, <1>4, <1>5, <1>6, <1>7, <1>8 DEF IInv

-----------------------------------------------------------------------------
(* The native session *)

(* A message of one Run enters the transcript. *)
LEMMA AppendsOnce ==
    ASSUME IInv, NEW h \in Runs, starter = h \/ followUps[h] > 0,
           copies' = [copies EXCEPT ![h] = @ + 1],
           starter' \in Runs \cup {None}, followUps' \in [Runs -> Nat],
           \A r \in Runs : r # h => followUps'[r] = followUps[r] /\ (starter' = r <=> starter = r),
           starter' # h, followUps'[h] = 0, turn = "streaming",
           Reconcile(op, copies', FALSE),
           UNCHANGED <<file, member, reported, session, turn, sequence, phase,
                       closing, deleting, fenced, failures, restarts>>
    PROVE  IInv'
    <1>a. session /\ file /\ copies[h] = 0 /\ ~reported[h]
      BY DEF IInv, OwnershipLasts, Owned, Results
    <1>b. /\ copies' \in [Runs -> Nat] /\ copies'[h] = 1
          /\ \A r \in Runs : r # h => copies'[r] = copies[r]
      BY <1>a DEF IInv, TypeOK
    <1>c. /\ Told(copies')
          /\ \A c \in Calls : call[c].at = "queued" => call'[c] = call[c]
          /\ op' \in [Runs -> {"none", "sending", "sent"}]
          /\ \A r \in Runs : op'[r] = IF op[r] # "none" /\ copies'[r] > 0 THEN "none" ELSE op[r]
      <2>1. op \in [Runs -> {"none", "sending", "sent"}] /\ FALSE \in BOOLEAN /\ TypeOK
        BY DEF IInv, TypeOK
      <2>2. PICK entries \in [Runs -> Nat], no \in BOOLEAN : entries = copies' /\ no = FALSE
        BY <1>b
      <2>3. Reconcile(op, entries, no)
        BY <2>2
      <2>4. /\ Told(entries)
            /\ \A c \in Calls : call[c].at = "queued" => call'[c] = call[c]
            /\ op' \in [Runs -> {"none", "sending", "sent"}]
            /\ \A r \in Runs : op'[r] = IF \/ op[r] # "none" /\ entries[r] > 0
                                           \/ op[r] = "sent" /\ no
                                        THEN "none" ELSE op[r]
        BY <2>1, <2>3, ReconcileTells
      <2> QED
        BY <2>2, <2>4 DEF Told
    <1>1. TypeOK'
      BY <1>b, <1>c DEF IInv, TypeOK, Told
    <1>2. Results'
      BY <1>a, <1>b, <1>c DEF IInv, Results, Told, TypeOK
    <1>3. Owned'
      BY <1>a, <1>b, <1>c DEF IInv, Owned
    <1>4. Lined'
      BY <1>c, StayKeeps DEF IInv, Lined
    <1>5. Held'
      BY <1>a, <1>c DEF IInv, Held, Told
    <1>6. OwnershipLasts'
      <2>1. \A r \in Runs : starter' = r \/ followUps'[r] > 0 =>
               /\ r # h /\ op[r] # "none" /\ copies[r] = 0 /\ session
               /\ starter = r => followUps[r] = 0
               /\ followUps[r] <= 1
        BY DEF IInv, OwnershipLasts
      <2> QED
        BY <1>b, <1>c, <2>1 DEF OwnershipLasts
    <1>7. NoDeadDelivery'
      BY DEF NoDeadDelivery
    <1>8. HeadIsAlone'
      BY DEF IInv, HeadIsAlone
    <1> QED
      BY <1>1, <1>2, <1>3, <1>4, <1>5, <1>6, <1>7, <1>8 DEF IInv

LEMMA TurnBeginsInv ==
    ASSUME IInv, TurnBegins PROVE IInv'
    <1>1. PICK h \in Runs : h = starter
      BY DEF TurnBegins, IInv, TypeOK
    <1>2. /\ starter' = None /\ None \notin Runs
          /\ followUps' = followUps /\ followUps[h] = 0 /\ followUps \in [Runs -> Nat]
          /\ turn = "streaming"
      BY <1>1, CallsAssumption DEF TurnBegins, IInv, TypeOK, Owned, OwnershipLasts
    <1>3. /\ copies' = [copies EXCEPT ![h] = @ + 1]
          /\ Reconcile(op, copies', FALSE)
          /\ UNCHANGED <<file, member, reported, session, turn, sequence, phase,
                         closing, deleting, fenced, failures, restarts>>
      BY <1>1 DEF TurnBegins, Appends, fences, bounds
    <1> QED
      BY <1>1, <1>2, <1>3, AppendsOnce

LEMMA TurnTakesInv ==
    ASSUME IInv, TurnTakes PROVE IInv'
    <1>1. PICK h \in Runs : /\ followUps[h] > 0
                            /\ copies' = [copies EXCEPT ![h] = @ + 1]
                            /\ followUps' = [followUps EXCEPT ![h] = @ - 1]
      BY DEF TurnTakes, Appends
    <1>2. followUps[h] = 1
      BY <1>1 DEF IInv, TypeOK, OwnershipLasts
    <1>3. /\ followUps' \in [Runs -> Nat] /\ followUps'[h] = 0
          /\ \A r \in Runs : r # h => followUps'[r] = followUps[r]
      BY <1>1, <1>2 DEF IInv, TypeOK
    <1>4. /\ turn = "streaming" /\ starter = None /\ starter' = None /\ None \notin Runs
          /\ Reconcile(op, copies', FALSE)
          /\ UNCHANGED <<file, member, reported, session, turn, sequence, phase,
                         closing, deleting, fenced, failures, restarts>>
      BY CallsAssumption DEF TurnTakes, fences, bounds
    <1> QED
      BY <1>1, <1>3, <1>4, AppendsOnce

(* A turn ends, and with it the deliveries whose message was lost. *)
LEMMA Ends ==
    ASSUME IInv, starter' = None, turn' = "idle",
           NEW queue \in [Runs -> Nat], followUps' = queue,
           \A r \in Runs : queue[r] <= followUps[r],
           NEW ops \in [Runs -> {"none", "sent"}],
           \A r \in Runs : queue[r] > 0 => ops[r] # "none",
           session,
           Reconcile(ops, copies, Exhausted(queue)),
           UNCHANGED <<file, member, copies, reported, session>>
    PROVE  /\ Results' /\ Owned' /\ OwnershipLasts' /\ NoDeadDelivery'
           /\ call' \in [Calls -> {Free} \cup [run : Runs, at : {"queued", "waiting"}]]
           /\ attempt' \in [Runs -> Calls \cup Marks]
           /\ op' \in [Runs -> {"none", "sending", "sent"}]
           /\ \A c \in Calls : call[c].at = "queued" => call'[c] = call[c]
           /\ \A r \in Runs : attempt[r] = "none" => attempt'[r] = "none"
    <1>1. /\ Told(copies)
          /\ \A c \in Calls : call[c].at = "queued" => call'[c] = call[c]
          /\ op' \in [Runs -> {"none", "sending", "sent"}]
          /\ \A r \in Runs : op'[r] = IF \/ ops[r] # "none" /\ copies[r] > 0
                                         \/ ops[r] = "sent" /\ Exhausted(queue)
                                      THEN "none" ELSE ops[r]
      <2>1. /\ ops \in [Runs -> {"none", "sending", "sent"}] /\ Exhausted(queue) \in BOOLEAN
            /\ TypeOK /\ copies \in [Runs -> Nat]
        BY DEF IInv, TypeOK, Exhausted
      <2> QED
        BY <2>1, ReconcileTells
    <1>2. \A r \in Runs : /\ queue[r] > 0 => followUps[r] > 0
                          /\ starter' # r
      BY CallsAssumption DEF IInv, TypeOK
    <1>3. OwnershipLasts'
      <2>1. \A r \in Runs : queue[r] > 0 => /\ session /\ copies[r] = 0 /\ followUps[r] <= 1
                                            /\ queue[r] <= 1 /\ ~Exhausted(queue)
        BY <1>2 DEF IInv, TypeOK, OwnershipLasts, Exhausted
      <2> QED
        BY <1>1, <1>2, <2>1 DEF OwnershipLasts
    <1>4. Results'
      <2>1. file /\ \A r \in Runs : copies[r] > 0 => copies[r] = 1
        BY DEF IInv, Results, Owned, TypeOK
      <2> QED
        BY <1>1, <2>1 DEF IInv, Results, Told
    <1>5. Owned'
      BY <1>1, <1>2 DEF IInv, Owned
    <1>6. NoDeadDelivery'
      BY <1>1, <1>2 DEF NoDeadDelivery, Exhausted
    <1> QED
      BY <1>1, <1>3, <1>4, <1>5, <1>6 DEF Told

(* The rest of the invariant, for a turn that ends while the head waits on. *)
LEMMA EndsWhole ==
    ASSUME IInv, Results', Owned', OwnershipLasts', NoDeadDelivery',
           call' \in [Calls -> {Free} \cup [run : Runs, at : {"queued", "waiting"}]],
           attempt' \in [Runs -> Calls \cup Marks],
           op' \in [Runs -> {"none", "sending", "sent"}],
           \A c \in Calls : call[c].at = "queued" => call'[c] = call[c],
           \A r \in Runs : attempt[r] = "none" => attempt'[r] = "none",
           turn' = "idle", starter' = None, followUps' \in [Runs -> Nat],
           failures' \in 0..MaxFailures,
           UNCHANGED <<file, member, copies, reported, session, sequence,
                       closing, deleting, fenced, restarts>>,
           phase' = phase \/ (phase = "aborting" /\ phase' = "draining")
    PROVE  IInv'
    <1>1. TypeOK'
      BY DEF IInv, TypeOK, Phases
    <1>2. Lined'
      BY StayKeeps DEF IInv, Lined
    <1>3. Held'
      BY DEF IInv, Held
    <1>4. HeadIsAlone'
      BY DEF IInv, HeadIsAlone
    <1> QED
      BY <1>1, <1>2, <1>3, <1>4 DEF IInv

(* agent_settled *)
LEMMA SettlesTells ==
    ASSUME IInv, turn = "streaming", NEW queue \in [Runs -> Nat],
           \A r \in Runs : queue[r] <= followUps[r],
           Settles(queue),
           UNCHANGED <<file, member, copies, reported, session>>
    PROVE  /\ Results' /\ Owned' /\ OwnershipLasts' /\ NoDeadDelivery'
           /\ call' \in [Calls -> {Free} \cup [run : Runs, at : {"queued", "waiting"}]]
           /\ attempt' \in [Runs -> Calls \cup Marks]
           /\ op' \in [Runs -> {"none", "sending", "sent"}]
           /\ \A c \in Calls : call[c].at = "queued" => call'[c] = call[c]
           /\ \A r \in Runs : attempt[r] = "none" => attempt'[r] = "none"
           /\ turn' = "idle" /\ starter' = None /\ followUps' \in [Runs -> Nat]
    <1> DEFINE sent == [r \in Runs |-> IF op[r] = "sending" THEN "sent" ELSE op[r]]
    <1>1. /\ starter' = None /\ turn' = "idle" /\ followUps' = queue
          /\ Reconcile(sent, copies, Exhausted(queue))
      BY DEF Settles
    <1>2. session
      BY DEF IInv, Owned
    <1>3. sent \in [Runs -> {"none",
        "sent"}] /\ \A r \in Runs : op[r] # "none" => sent[r] # "none"
      BY DEF IInv, TypeOK
    <1>4. \A r \in Runs : queue[r] > 0 => sent[r] # "none"
      BY <1>3 DEF IInv, OwnershipLasts, TypeOK
    <1> HIDE DEF sent
    <1> QED
      BY <1>1, <1>2, <1>3, <1>4, Ends

LEMMA TurnEndsInv ==
    ASSUME IInv, TurnEnds PROVE IInv'
    <1>1. /\ turn = "streaming" /\ followUps \in [Runs -> Nat] /\ Settles(followUps)
          /\ \A r \in Runs : followUps[r] <= followUps[r]
          /\ UNCHANGED <<file, member, copies, reported, session, sequence, phase,
                         closing, deleting, fenced, restarts>>
          /\ failures' \in 0..MaxFailures
      BY DEF TurnEnds, IInv, TypeOK, disk, fences, bounds
    <1> QED
      BY <1>1, SettlesTells, EndsWhole

LEMMA TurnStopsInv ==
    ASSUME IInv, TurnStops PROVE IInv'
    <1>1. PICK queue \in {followUps, [r \in Runs |-> 0]} : Settles(queue)
      BY DEF TurnStops
    <1>2. queue \in [Runs -> Nat] /\ \A r \in Runs : queue[r] <= followUps[r]
      BY DEF IInv, TypeOK
    <1>3. /\ turn = "streaming"
          /\ UNCHANGED <<file, member, copies, reported, session, sequence, phase,
                         closing, deleting, fenced, restarts>>
          /\ failures' \in 0..MaxFailures
      BY DEF TurnStops, IInv, TypeOK, disk, fences, bounds
    <1> QED
      BY <1>1, <1>2, <1>3, SettlesTells, EndsWhole

LEMMA CloseAbortsInv ==
    ASSUME IInv, CloseAborts PROVE IInv'
    <1>1. /\ phase = "aborting" /\ phase' = "draining"
          /\ UNCHANGED <<file, member, copies, reported, session, sequence,
                         closing, deleting, fenced, restarts>>
          /\ failures' \in 0..MaxFailures
      BY DEF CloseAborts, TaskWaits, IInv, TypeOK, disk, fences, bounds
    <1>2. CASE turn = "streaming"
      <2>1. /\ followUps \in [Runs -> Nat] /\ Settles(followUps)
            /\ \A r \in Runs : followUps[r] <= followUps[r]
        BY <1>2 DEF CloseAborts, IInv, TypeOK
      <2> QED
        BY <1>1, <1>2, <2>1, SettlesTells, EndsWhole
    <1>3. CASE turn # "streaming"
      <2>1. /\ UNCHANGED <<turn, starter, followUps, op, call, attempt>>
            /\ turn = "idle" /\ starter = None
        BY <1>3 DEF CloseAborts, deliveries, IInv, TypeOK, Owned
      <2>2. Results' /\ Owned' /\ OwnershipLasts' /\ NoDeadDelivery'
        BY <1>1, <2>1 DEF IInv, Results, Owned, OwnershipLasts, NoDeadDelivery, Exhausted
      <2>3. /\ call' \in [Calls -> {Free} \cup [run : Runs, at : {"queued", "waiting"}]]
            /\ attempt' \in [Runs -> Calls \cup Marks]
            /\ op' \in [Runs -> {"none", "sending", "sent"}]
            /\ followUps' \in [Runs -> Nat]
        BY <2>1 DEF IInv, TypeOK
      <2> QED
        BY <1>1, <2>1, <2>2, <2>3, EndsWhole
    <1> QED
      BY <1>2, <1>3

LEMMA TurnFailsInv ==
    ASSUME IInv, TurnFails PROVE IInv'
    <1> DEFINE ops == [op EXCEPT ![starter] = "none"]
    <1>1. PICK h \in Runs : h = starter
      BY DEF TurnFails, IInv, TypeOK
    <1>2. /\ turn' = "idle" /\ starter' = None /\ turn = "streaming" /\ session
          /\ UNCHANGED <<file, member, copies, reported, session, followUps, sequence, phase,
                         closing, deleting, fenced, restarts>>
          /\ Reconcile(ops, copies, Exhausted(followUps))
      BY <1>1, CallsAssumption DEF TurnFails, IInv, TypeOK, Owned, Fails, disk, fences
    <1>3. failures' \in 0..MaxFailures
      BY FailsCounted DEF TurnFails, IInv
    <1>4. /\ followUps \in [Runs -> Nat] /\ \A r \in Runs : followUps[r] <= followUps[r]
          /\ followUps' = followUps
      BY <1>2 DEF IInv, TypeOK
    <1>5. ops \in [Runs -> {"none", "sent"}]
      BY <1>1 DEF IInv, TypeOK, Owned
    <1>6. \A r \in Runs : followUps[r] > 0 => ops[r] # "none"
      BY <1>1 DEF IInv, TypeOK, OwnershipLasts
    <1> HIDE DEF ops
    <1>7. /\ Results' /\ Owned' /\ OwnershipLasts' /\ NoDeadDelivery'
          /\ call' \in [Calls -> {Free} \cup [run : Runs, at : {"queued", "waiting"}]]
          /\ attempt' \in [Runs -> Calls \cup Marks]
          /\ op' \in [Runs -> {"none", "sending", "sent"}]
          /\ \A c \in Calls : call[c].at = "queued" => call'[c] = call[c]
          /\ \A r \in Runs : attempt[r] = "none" => attempt'[r] = "none"
      BY <1>2, <1>4, <1>5, <1>6, Ends
    <1> QED
      BY <1>2, <1>3, <1>4, <1>7, EndsWhole

(* dispose *)
LEMMA DisposesTells ==
    ASSUME IInv, Disposes, phase = "draining", UNCHANGED <<file, member, copies, reported>>
    PROVE  /\ Results' /\ Owned' /\ OwnershipLasts' /\ NoDeadDelivery'
           /\ call' \in [Calls -> {Free} \cup [run : Runs, at : {"queued", "waiting"}]]
           /\ attempt' \in [Runs -> Calls \cup Marks]
           /\ op' \in [Runs -> {"none", "sending", "sent"}]
           /\ \A c \in Calls : call[c].at = "queued" => call'[c] = call[c]
           /\ turn' = "idle" /\ session' = FALSE
           /\ starter' = None /\ followUps' \in [Runs -> Nat]
    <1>1. file /\ turn = "idle"
      BY DEF IInv, Held, Owned, HeadIsAlone
    <1>2. Told(copies) /\ \A c \in Calls : call[c].at = "queued" => call'[c] = call[c]
      <2>a. WaitingFor({r \in Runs : op[r] # "none"}) \subseteq {c \in Calls : call[c].at = "waiting"}
        BY DEF WaitingFor
      <2>1. PICK ended \in SUBSET Calls : /\ ended = WaitingFor({r \in Runs : op[r] # "none"})
                                         /\ \A c \in ended : call[c].at = "waiting"
        BY <2>a
      <2>2. PICK there \in SUBSET Runs : there = {r \in Runs : copies[r] > 0}
        OBVIOUS
      <2>3. CallsEnd(ended, there) /\ \A r \in there : copies[r] > 0
        BY <2>1, <2>2 DEF Disposes
      <2>4. Told(copies) /\ \A c \in Calls \ ended : call'[c] = call[c]
        BY <2>3, CallsEndTells DEF IInv
      <2> QED
        BY <2>1, <2>4
    <1>3. Results'
      <2>1. \A r \in Runs : copies[r] > 0 => copies[r] = 1
        BY DEF IInv, Results, TypeOK
      <2> QED
        BY <1>1, <1>2, <2>1 DEF IInv, Results, Told
    <1>4. /\ op' = [r \in Runs |-> "none"] /\ followUps' = [r \in Runs |-> 0]
          /\ starter' = None /\ session' = FALSE /\ turn' = turn
      BY DEF Disposes
    <1>5. Owned'
      BY <1>1, <1>4 DEF Owned
    <1>6. OwnershipLasts'
      BY <1>4, CallsAssumption DEF OwnershipLasts
    <1>7. NoDeadDelivery'
      BY <1>4 DEF NoDeadDelivery
    <1> QED
      BY <1>1, <1>2, <1>3, <1>4, <1>5, <1>6, <1>7 DEF Told

LEMMA CloseEndsInv ==
    ASSUME IInv, CloseEnds PROVE IInv'
    <1>1. /\ sequence # <<>> /\ closing' = "no"
          /\ UNCHANGED <<file, member, copies, reported, deleting, fenced, failures, restarts>>
          /\ phase = "idle" \/ phase = "draining"
      BY DEF CloseEnds, At, disk, bounds
    <1>2. /\ Results' /\ Owned' /\ OwnershipLasts' /\ NoDeadDelivery'
          /\ call' \in [Calls -> {Free} \cup [run : Runs, at : {"queued", "waiting"}]]
          /\ attempt' \in [Runs -> Calls \cup Marks]
          /\ op' \in [Runs -> {"none", "sending", "sent"}]
          /\ \A c \in Calls : call[c].at = "queued" => call'[c] = call[c]
          /\ turn' = "idle" /\ session' = FALSE
          /\ starter' = None /\ followUps' \in [Runs -> Nat]
      <2>1. CASE phase = "draining" /\ Disposes
        BY <1>1, <2>1, DisposesTells
      <2>2. CASE phase = "idle" /\ ~session /\ UNCHANGED <<native, deliveries>>
        BY <1>1, <2>2 DEF IInv, TypeOK, Results, Owned, OwnershipLasts, NoDeadDelivery, Exhausted,
                          native, deliveries
      <2> QED
        BY <2>1, <2>2 DEF CloseEnds
    <1>3. Lined' /\ sequence' \in Seq(Tasks) /\ phase' = "idle"
      BY <1>1, <1>2, TailKeeps DEF IInv, CloseEnds
    <1>4. TypeOK'
      BY <1>1, <1>2, <1>3 DEF IInv, TypeOK, Phases
    <1>5. Held'
      BY <1>3 DEF Held
    <1>6. HeadIsAlone'
      BY <1>2, <1>3 DEF HeadIsAlone
    <1> QED
      BY <1>2, <1>3, <1>4, <1>5, <1>6 DEF IInv

LEMMA DeleteClosesInv ==
    ASSUME IInv, DeleteCloses PROVE IInv'
    <1>1. /\ sequence # <<>> /\ closing' = "no"
          /\ UNCHANGED <<file, member, copies, reported, deleting, fenced, failures, restarts>>
          /\ phase = "idle" \/ phase = "draining"
      BY DEF DeleteCloses, At, disk, bounds
    <1>2. /\ Results' /\ Owned' /\ OwnershipLasts' /\ NoDeadDelivery'
          /\ call' \in [Calls -> {Free} \cup [run : Runs, at : {"queued", "waiting"}]]
          /\ attempt' \in [Runs -> Calls \cup Marks]
          /\ op' \in [Runs -> {"none", "sending", "sent"}]
          /\ \A c \in Calls : call[c].at = "queued" => call'[c] = call[c]
          /\ turn' = "idle" /\ session' = FALSE
          /\ starter' = None /\ followUps' \in [Runs -> Nat]
      <2>1. CASE phase = "draining" /\ Disposes
        BY <1>1, <2>1, DisposesTells
      <2>2. CASE phase = "idle" /\ ~session /\ UNCHANGED <<native, deliveries>>
        BY <1>1, <2>2 DEF IInv, TypeOK, Results, Owned, OwnershipLasts, NoDeadDelivery, Exhausted,
                          native, deliveries
      <2> QED
        BY <2>1, <2>2 DEF DeleteCloses
    <1>3. Lined' /\ sequence' \in Seq(Tasks) /\ phase' = "preparing"
      BY <1>1, <1>2, StayKeeps DEF IInv, TypeOK, DeleteCloses, TaskWaits
    <1>4. TypeOK'
      BY <1>1, <1>2, <1>3 DEF IInv, TypeOK, Phases
    <1>5. Held'
      BY <1>3 DEF Held
    <1>6. HeadIsAlone'
      BY <1>2, <1>3 DEF HeadIsAlone
    <1> QED
      BY <1>2, <1>3, <1>4, <1>5, <1>6 DEF IInv

-----------------------------------------------------------------------------
LEMMA InitInv == Init => IInv
    <1> SUFFICES ASSUME Init PROVE IInv
      OBVIOUS
    <1> USE CallsAssumption, BoundsAssumption DEF Init
    <1>1. TypeOK
      <2>1. /\ sequence \in Seq(Tasks) /\ phase \in Phases
            /\ restarts \in 0..MaxRestarts /\ failures \in 0..MaxFailures
        BY DEF Phases
      <2>2. /\ op \in [Runs -> {"none", "sending", "sent"}]
            /\ call \in [Calls -> {Free} \cup [run : Runs, at : {"queued", "waiting"}]]
            /\ attempt \in [Runs -> Calls \cup Marks]
            /\ followUps \in [Runs -> Nat] /\ copies \in [Runs -> Nat]
            /\ reported \in [Runs -> BOOLEAN]
        BY DEF Marks
      <2> QED
        BY <2>1, <2>2 DEF TypeOK
    <1>2. Results /\ Owned /\ Lined /\ Held /\ OwnershipLasts /\ NoDeadDelivery /\ HeadIsAlone
      BY DEF Results, Owned, Lined, Held, OwnershipLasts, NoDeadDelivery, HeadIsAlone
    <1> QED
      BY <1>1, <1>2 DEF IInv

LEMMA StutterInv == IInv /\ UNCHANGED vars => IInv'
    <1> SUFFICES ASSUME IInv, UNCHANGED vars PROVE IInv'
      OBVIOUS
    <1>1. Lined'
      BY StayKeeps DEF IInv, Lined, vars, deliveries
    <1>2. TypeOK' /\ Results' /\ Owned' /\ Held'
      BY DEF IInv, TypeOK, Results, Owned, Held, vars, disk, native, deliveries, fences, bounds
    <1>3. OwnershipLasts' /\ NoDeadDelivery' /\ HeadIsAlone'
      BY DEF IInv, OwnershipLasts, NoDeadDelivery, HeadIsAlone, Exhausted, vars, disk, native,
          deliveries
    <1> QED
      BY <1>1, <1>2, <1>3 DEF IInv

LEMMA NextInv == IInv /\ [Next]_vars => IInv'
    BY AttemptInv, AttemptTimesOutInv, RecordInv, CallTimesOutInv, DeliverRefusedInv,
        DeliverFoundInv, DeliverJoinsInv, DeliverSendsInv, OpensInv, OpenEndsInv,
            SendRefusedInv, SendPromptsInv,
       PromptAcceptedInv, PromptRejectedInv, CloseNowInv, CloseAbortsInv, CloseEndsInv,
           DeleteClosesInv, DeletePreparesInv, DeleteStoppedInv, DeleteUnlinksInv,
               DeletePurgesInv, OpenFailsInv, CloseFailsInv,
       DeleteRefusedInv, DeleteFailsInv, TurnBeginsInv, TurnFailsInv, TurnTakesInv, TurnEndsInv,
           TurnStopsInv, SendInv, CloseInv, DeleteInv, RestartInv, StutterInv
    DEF Next, AttemptStep, DeliverStep, SendStep, CloseStep, DeleteStep, Failure, HeadStep,
        TurnStep

LEMMA Invariance == Spec => []IInv
    BY InitInv, NextInv, PTL DEF Spec

-----------------------------------------------------------------------------
(* Every variable keeps its type, for any sets of Runs and calls (the state of *)
(* PiRuntime, the Run service and the native session).                         *)
THEOREM TypeCorrect == Spec => []TypeOK
    <1>1. IInv => TypeOK
      BY DEF IInv
    <1> QED
      BY <1>1, Invariance, PTL

(* A message that may still enter the transcript has one delivery that owns it *)
(* (externalDeliveries), whatever timed out, failed or was retried.            *)
THEOREM DeliveriesOwned == Spec => []OwnershipLasts
    <1>1. IInv => OwnershipLasts
      BY DEF IInv
    <1> QED
      BY <1>1, Invariance, PTL

(* A delivery whose message was lost ends with the native queue (reconcile).  *)
THEOREM LostDeliveriesEnd == Spec => []NoDeadDelivery
    <1>1. IInv => NoDeadDelivery
      BY DEF IInv
    <1> QED
      BY <1>1, Invariance, PTL

(* The head of the session sequence has the session for itself (closeNow,     *)
(* send, delete).                                                              *)
THEOREM SequenceExcludes == Spec => []HeadIsAlone
    <1>1. IInv => HeadIsAlone
      BY DEF IInv
    <1> QED
      BY <1>1, Invariance, PTL

-----------------------------------------------------------------------------
(* The steps that the abstract delivery sees; all others leave the file, the   *)
(* entries and the reports alone.                                              *)
LEMMA Silent ==
    ASSUME UNCHANGED <<file, copies, reported>>
    PROVE  UNCHANGED <<file, Entry>>
    BY DEF Entry

LEMMA AppendDelivers ==
    ASSUME IInv, NEW h \in Runs, starter = h \/ followUps[h] > 0,
           copies' = [copies EXCEPT ![h] = @ + 1], UNCHANGED <<file, reported>>
    PROVE  Once!Deliver(h)
    <1>1. file /\ copies[h] = 0 /\ ~reported[h]
      BY DEF IInv, OwnershipLasts, Owned, Results
    <1>2. /\ copies'[h] = 1 /\ reported'[h] = FALSE
          /\ \A r \in Runs : r # h => copies'[r] = copies[r]
          /\ reported' = reported /\ copies \in [Runs -> Nat]
      BY <1>1 DEF IInv, TypeOK
    <1>3. Entry[h] = "missing" /\ Entry'[h] = "delivered"
      BY <1>1, <1>2 DEF Entry
    <1>4. Entry' = [Entry EXCEPT ![h] = "delivered"]
      BY <1>2, <1>3 DEF Entry
    <1> QED
      BY <1>1, <1>3, <1>4 DEF Once!Deliver

LEMMA RecordReports ==
    ASSUME IInv, NEW h \in Runs, Record(h)
    PROVE  Once!Report(h) \/ UNCHANGED <<file, Entry>>
    <1>1. /\ file /\ copies[h] = 1 /\ UNCHANGED <<file, copies>>
          /\ reported' = [reported EXCEPT ![h] = TRUE] /\ reported \in [Runs -> BOOLEAN]
      BY DEF IInv, Results, TypeOK, Record
    <1>2. CASE reported[h]
      <2>1. reported' = reported
        BY <1>1, <1>2
      <2> QED
        BY <1>1, <2>1, Silent
    <1>3. CASE ~reported[h]
      <2>1. Entry[h] = "delivered" /\ Entry'[h] = "reported"
        BY <1>1, <1>3 DEF Entry
      <2>2. Entry' = [Entry EXCEPT ![h] = "reported"]
        BY <1>1, <2>1 DEF Entry
      <2> QED
        BY <1>1, <2>1, <2>2 DEF Once!Report
    <1> QED
      BY <1>2, <1>3

LEMMA UnlinkDeletes ==
    ASSUME IInv, DeleteUnlinks
    PROVE  Once!Delete \/ UNCHANGED <<file, Entry>>
    <1>1. file' = FALSE /\ UNCHANGED <<copies, reported>> /\ file \in BOOLEAN
      BY DEF DeleteUnlinks, IInv, TypeOK
    <1>2. Entry' = Entry
      BY <1>1 DEF Entry
    <1> QED
      BY <1>1, <1>2 DEF Once!Delete

LEMMA NextOnce ==
    ASSUME IInv, [Next]_vars PROVE [Once!Next]_<<file, Entry>>
    <1>1. CASE TurnBegins
      <2>1. PICK h \in Runs : h = starter
        BY <1>1 DEF TurnBegins, IInv, TypeOK
      <2>2. Once!Deliver(h)
        BY <1>1, <2>1, AppendDelivers DEF TurnBegins, Appends
      <2> QED
        BY <2>2 DEF Once!Next
    <1>2. CASE TurnTakes
      <2>1. PICK h \in Runs : followUps[h] > 0 /\ copies' = [copies EXCEPT ![h] = @ + 1]
        BY <1>2 DEF TurnTakes, Appends
      <2>2. Once!Deliver(h)
        BY <1>2, <2>1, AppendDelivers DEF TurnTakes
      <2> QED
        BY <2>2 DEF Once!Next
    <1>3. ASSUME NEW r \in Runs, Record(r) PROVE [Once!Next]_<<file, Entry>>
      BY <1>3, RecordReports DEF Once!Next
    <1>4. CASE DeleteUnlinks
      BY <1>4, UnlinkDeletes DEF Once!Next
    <1>5. ASSUME UNCHANGED <<file, copies, reported>> PROVE [Once!Next]_<<file, Entry>>
      BY <1>5, Silent
    <1>6. \/ \E r \in Runs : Record(r)
          \/ TurnBegins \/ TurnTakes \/ DeleteUnlinks
          \/ UNCHANGED <<file, copies, reported>>
      <2>1. ASSUME NEW r \in Runs, AttemptStep(r)
            PROVE  Record(r) \/ UNCHANGED <<file, copies, reported>>
        BY <2>1 DEF AttemptStep, Attempt, AttemptTimesOut, disk
      <2>2. ASSUME NEW c \in Calls, CallTimesOut(c) PROVE UNCHANGED <<file, copies, reported>>
        BY <2>2 DEF CallTimesOut, disk
      <2>3. CASE DeliverStep \/ Opens \/ OpenEnds \/ SendStep
        BY <2>3 DEF DeliverStep, DeliverRefused, DeliverFound, DeliverJoins, DeliverSends, Sends,
                    Opens, OpenEnds, SendStep, SendRefused, SendPrompts, PromptAccepted,
                        PromptRejected, disk
      <2>4. CASE CloseStep
        BY <2>4 DEF CloseStep, CloseNow, CloseAborts, CloseEnds, disk
      <2>5. CASE DeleteStep
        BY <2>5 DEF DeleteStep, DeleteCloses, DeletePrepares, DeleteStopped, DeletePurges, disk
      <2>6. CASE Failure
        BY <2>6 DEF Failure, OpenFails, CloseFails, DeleteRefused, DeleteFails, disk
      <2>7. CASE TurnStep
        BY <2>7 DEF TurnStep, TurnFails, TurnEnds, TurnStops, disk
      <2>8. CASE Send \/ Close \/ Delete \/ Restart
        BY <2>8 DEF Send, Close, Delete, Restart, disk
      <2>9. CASE UNCHANGED vars
        BY <2>9 DEF vars, disk
      <2> QED
        BY <2>1, <2>2, <2>3, <2>4, <2>5, <2>6, <2>7, <2>8, <2>9 DEF Next, HeadStep
    <1> QED
      BY <1>1, <1>2, <1>3, <1>4, <1>5, <1>6

LEMMA InitOnce == Init => Once!Init
    BY DEF Init, Entry, Once!Init

(* Each result enters the transcript at most once, is reported only when it is *)
(* there, and nothing follows a deletion (deliverExternalResult, reconcileRun, *)
(* SessionCatalog.delete).                                                     *)
THEOREM DeliveredOnce == Spec => ImplementsDeliverOnce
    <1>1. IInv /\ [Next]_vars => [Once!Next]_<<file, Entry>>
      BY NextOnce
    <1> QED
      BY <1>1, InitOnce, Invariance, PTL DEF Spec, ImplementsDeliverOnce, Once!Spec

=============================================================================
