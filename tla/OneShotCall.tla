----------------------------- MODULE OneShotCall -----------------------------
(***************************************************************************)
(* What a caller may expect of a remote call that is never repeated on its *)
(* behalf: it runs at most once, and a success that is reported happened.  *)
(* The caller may give up at any time, and the call may still run then.    *)
(***************************************************************************)
CONSTANT Callers
VARIABLES asked,    \* calls made
          outcome,  \* what running the call came to
          reply     \* what its caller was told

Init == /\ asked = {}
        /\ outcome = [c \in Callers |-> "none"]
        /\ reply = [c \in Callers |-> "none"]

Ask(c) == /\ c \notin asked /\ reply[c] = "none"
          /\ asked' = asked \union {c}
          /\ UNCHANGED <<outcome, reply>>

Run(c) == /\ c \in asked /\ outcome[c] = "none"
          /\ \E v \in {"ok", "error"} : outcome' = [outcome EXCEPT ![c] = v]
          /\ UNCHANGED <<asked, reply>>

\* An error may also mean that the call could not be made.
Reply(c, v) == /\ c \in asked \/ v = "error"
               /\ reply[c] = "none"
               /\ v = "ok" => outcome[c] = "ok"
               /\ reply' = [reply EXCEPT ![c] = v]
               /\ UNCHANGED <<asked, outcome>>

Next == \E c \in Callers :
    Ask(c) \/ Run(c) \/ \E v \in {"ok", "error", "timeout"} : Reply(c, v)

Spec == Init /\ [][Next]_<<asked, outcome, reply>>
=============================================================================
