---------------------------- MODULE Conversation ----------------------------
(***************************************************************************)
(* What the user of a connection may rely on, whatever becomes of frames,  *)
(* streams and processes.  The turns of a session are questions, numbered  *)
(* as they are asked, and an answer only follows the question it is for.   *)
(* One question is open at a time.  A tool starts on the user's machine    *)
(* once, and for the open question only; the agent is told once what       *)
(* became of a tool it asked for, and of a result only if that tool ran.   *)
(***************************************************************************)
EXTENDS Naturals, Sequences, FiniteSets

CONSTANT Calls \* the tools the agent may ask for, as <<question, number>>

VARIABLES said,    \* the turns, as <<role, question>>
          open,    \* the question that may still be answered, 0 for none
          started, \* calls whose tool was started
          busy,    \* calls that run on the user's machine
          results, \* calls whose result is on its way to the agent
          told     \* call -> what the agent was told of it

talk == <<said, open, started, busy, results, told>>

Untold == <<"none">>
TimedOut == <<"timeout">>

Init ==
  /\ said = <<>> /\ open = 0
  /\ started = {} /\ busy = {} /\ results = {} /\ told = [r \in Calls |-> Untold]

NextQuestion == 1 + Cardinality({i \in DOMAIN said : said[i][1] = "user"})

\* A question that could not be passed on is not open.
Ask ==
  /\ open = 0
  /\ said' = Append(said, <<"user", NextQuestion>>)
  /\ open' \in {0, NextQuestion}
  /\ UNCHANGED <<started, busy, results, told>>

Answer ==
  /\ open # 0
  /\ said' = Append(said, <<"assistant", open>>)
  /\ open' = 0
  /\ UNCHANGED <<started, busy, results, told>>

\* The question was cancelled, or the connection is gone.
Withdraw ==
  /\ open # 0 /\ open' = 0
  /\ UNCHANGED <<said, started, busy, results, told>>

\* Nothing runs if the client has just gone.
StartTool(r) ==
  /\ r[1] = open /\ r \notin started
  /\ started' = started \cup {r}
  /\ busy' \in {busy, busy \cup {r}}
  /\ UNCHANGED <<said, open, results, told>>

ToolEnds(r) ==
  /\ r \in busy
  /\ busy' = busy \ {r} /\ results' = results \cup {r}
  /\ UNCHANGED <<said, open, started, told>>

\* The client is gone, with the tools it runs.
StopTools ==
  /\ busy' = {}
  /\ UNCHANGED <<said, open, started, results, told>>

\* A result is taken off its way: the agent is told, unless it no longer waits for it.
ResultComes(r) ==
  /\ r \in results
  /\ results' = results \ {r}
  /\ \/ UNCHANGED told
     \/ told[r] = Untold /\ told' = [told EXCEPT ![r] = r]
  /\ UNCHANGED <<said, open, started, busy>>

TimeRunsOut(r) ==
  /\ told[r] = Untold
  /\ told' = [told EXCEPT ![r] = TimedOut]
  /\ UNCHANGED <<said, open, started, busy, results>>

Next ==
  \/ Ask \/ Answer \/ Withdraw \/ StopTools
  \/ \E r \in Calls : StartTool(r) \/ ToolEnds(r) \/ ResultComes(r) \/ TimeRunsOut(r)

Spec == Init /\ [][Next]_talk
=============================================================================
