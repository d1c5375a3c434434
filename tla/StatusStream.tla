---------------------------- MODULE StatusStream ----------------------------
(***************************************************************************)
(* What the setup-status stream promises to its clients: statuses are      *)
(* published in a log that only grows, and every client reads the log from *)
(* its beginning, in order and without gaps, up to the first "Done".       *)
(***************************************************************************)
EXTENDS Naturals, Sequences

CONSTANTS Clients, MaxStatuses

VARIABLES
    log,     \* the statuses published
    pos      \* pos[c]: how many of them client c has been sent

Init == log = <<>> /\ pos = [c \in Clients |-> 0]

Publish ==
    /\ Len(log) < MaxStatuses
    /\ \E status \in {"Waiting", "Done"} : log' = Append(log, status)
    /\ UNCHANGED pos

\* Some statuses more; none after a Done.
Deliver(c) ==
    /\ \E p \in (pos[c] + 1)..Len(log) :
         /\ \A k \in 1..(p - 1) : log[k] # "Done"
         /\ pos' = [pos EXCEPT ![c] = p]
    /\ UNCHANGED log

Next == Publish \/ \E c \in Clients : Deliver(c)

Spec == Init /\ [][Next]_<<log, pos>>
=============================================================================
