----------------------------- MODULE AtLeastOnce -----------------------------
(***************************************************************************)
(* What a durable task queue promises the code that submits to it: every   *)
(* submission of a message is answered by an outcome of that message.      *)
(* TaskQueue implements it.                                                *)
(***************************************************************************)
CONSTANT Messages

VARIABLES
    accepted,   \* messages submitted at least once
    owed,       \* submitted, and no outcome since
    completed,  \* handled without an error at least once
    dead        \* in the dead letters, where they stay

promised == <<accepted, owed, completed, dead>>

Init == accepted = {} /\ owed = {} /\ completed = {} /\ dead = {}

Accept(m) ==
    /\ accepted' = accepted \cup {m}
    /\ owed' = owed \cup {m}
    /\ UNCHANGED <<completed, dead>>

\* Handling is at least once, so an outcome may come when none is owed.
Complete(m) ==
    /\ m \in accepted
    /\ completed' = completed \cup {m}
    /\ owed' = owed \ {m}
    /\ UNCHANGED <<accepted, dead>>

Bury(m) ==
    /\ m \in accepted
    /\ dead' = dead \cup {m}
    /\ owed' = owed \ {m}
    /\ UNCHANGED <<accepted, completed>>

Next == \E m \in Messages : Accept(m) \/ Complete(m) \/ Bury(m)

Answered == \A m \in Messages : m \in owed ~> m \notin owed

Safety == Init /\ [][Next]_promised
Spec   == Safety /\ Answered

=============================================================================
