----------------------------- MODULE DeliverOnce -----------------------------
(* What a conversation is promised for the Runs it started: the result of a    *)
(* Run enters its transcript at most once, it is reported as delivered only    *)
(* when it is there, and a deleted conversation receives and reports nothing.  *)
CONSTANT Runs

VARIABLES open,    \* the conversation has not been deleted
          entry    \* [Runs -> what became of the result]

Init == /\ open = TRUE
        /\ entry = [r \in Runs |-> "missing"]

Deliver(r) == /\ open /\ entry[r] = "missing"
              /\ entry' = [entry EXCEPT ![r] = "delivered"]
              /\ UNCHANGED open

Report(r) == /\ open /\ entry[r] = "delivered"
             /\ entry' = [entry EXCEPT ![r] = "reported"]
             /\ UNCHANGED open

Delete == open /\ open' = FALSE /\ UNCHANGED entry

Next == (\E r \in Runs : Deliver(r) \/ Report(r)) \/ Delete

Spec == Init /\ [][Next]_<<open, entry>>
=============================================================================
