------------------------ MODULE MCLauncherAgentLeave ------------------------
(* LauncherAgent from a state that it reaches without a status: c1 and c2  *)
(* have subscribed, one after the other, and read their channels; c3 is    *)
(* yet to come.                                                            *)
EXTENDS LauncherAgent

CONSTANTS c1, c2, c3

ListeningInit ==
    /\ mem = << <<c1>>, <<c1, c2>> >>
    /\ listeners = [array |-> 2, len |-> 2]
    /\ statusHistory = <<>>
    /\ state = "attached"
    /\ emitter = [at |-> "scan", view |-> EmptySlice, next |-> 1]
    /\ client = [c \in Clients |->
                   [at |-> IF c = c3 THEN "idle" ELSE "stream",
                    base |-> EmptySlice, found |-> 0, copied |-> 0]]
    /\ chan = [c \in Clients |-> <<>>]
    /\ written = [c \in Clients |-> <<>>]
    /\ raced = FALSE
    /\ skipped = {}
    /\ doubled = {}

ListeningSpec == ListeningInit /\ [][Next]_vars /\ Fairness
=============================================================================
