---------------------------- MODULE AtomicReplace ----------------------------
(* What a durable replacement promises to the code that calls it: a value      *)
(* that changes from the old contents to the offered ones at one instant, or   *)
(* not at all, whatever stops the process on the way.                          *)
CONSTANTS Contents, Absent, None

VARIABLES value,     \* what the path holds once no replacement is unfinished
          pending    \* the contents an unfinished replacement offers, or None

Init == /\ value \in Contents \cup {Absent}
        /\ pending = None

(* A replacement has been accepted: from here on both outcomes are possible. *)
Begin(c) == /\ pending = None
            /\ pending' = c
            /\ UNCHANGED value

(* The replacement took place. *)
Commit == /\ pending # None
          /\ value' = pending
          /\ pending' = None

(* The replacement was withdrawn, the old contents stand. *)
Abort == /\ pending # None
         /\ pending' = None
         /\ UNCHANGED value

Next == \/ \E c \in Contents : Begin(c)
        \/ Commit
        \/ Abort

Spec == Init /\ [][Next]_<<value, pending>>
=============================================================================
