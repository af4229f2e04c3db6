------------------------------ MODULE McpBridge ------------------------------
(***************************************************************************)
(* mcp-bridge/mcp_client_manager.py: one task owns the session with an MCP *)
(* server and serves the calls of an inbox one at a time; a session that   *)
(* raises is opened again after a back-off; too many failures within a     *)
(* window open the circuit, which fails the queued calls and then waits    *)
(* for a whole window.  Times are abstracted to which failures are still   *)
(* within the window; a call's own timeout runs only while it is served.   *)
(***************************************************************************)
EXTENDS Naturals, Sequences, SequencesExt

CONSTANTS McpCalls,    \* calls of call_tool
          NoMcpCall,
          MaxFailures, \* failures within the window that open the circuit
          MaxBreaks    \* bound: sessions that fail

ASSUME McpAssumption ==
    /\ NoMcpCall \notin McpCalls
    /\ MaxFailures \in Nat \ {0} /\ MaxBreaks \in Nat

VARIABLES
    lifecycle, \* where _run is
    sessionUp, \* _ready is set
    mcpInbox,  \* _inbox
    served,    \* the request _serve is at
    answer,    \* the future of each call
    failures,  \* _failures: those within the window
    breaks     \* failed sessions so far

mcpVars == <<lifecycle, sessionUp, mcpInbox, served, answer, failures, breaks>>

McpTypeOK ==
    /\ lifecycle \in {"opening", "serving", "calling", "backoff", "open circuit", "ended"}
    /\ sessionUp \in BOOLEAN
    /\ mcpInbox \in Seq(McpCalls)
    /\ served \in McpCalls \union {NoMcpCall}
    /\ answer \in [McpCalls -> {"none", "pending", "result", "error", "dropped"}]
    /\ failures \in 0..MaxBreaks /\ breaks \in 0..MaxBreaks

\* The manager has been started: _run opens its first session.
McpInit ==
    /\ lifecycle = "opening" /\ sessionUp = FALSE /\ mcpInbox = <<>>
    /\ served = NoMcpCall /\ answer = [c \in McpCalls |-> "none"]
    /\ failures = 0 /\ breaks = 0

\* Any number of coroutines call at any time; nothing bounds the wait in the inbox.
SubmitCall(c) ==
    /\ answer[c] = "none"
    /\ answer' = [answer EXCEPT ![c] = "pending"] /\ mcpInbox' = Append(mcpInbox, c)
    /\ UNCHANGED <<lifecycle, sessionUp, served, failures, breaks>>

-----------------------------------------------------------------------------
(* The owning task.                                                        *)

\* Mutant: the inbox is emptied and the futures are left as they are.
DrainSilently == answer

\* _drain_with sets the exception on every queued request.
DrainWith == [c \in McpCalls |-> IF Contains(mcpInbox, c) THEN "error" ELSE answer[c]]

\* The top of the loop, after which the failures n are within the window.
LoopTop(n) ==
    /\ failures' = n
    /\ IF n >= MaxFailures
       THEN lifecycle' = "open circuit" /\ answer' = DrainWith /\ mcpInbox' = <<>>
       ELSE lifecycle' = "opening" /\ UNCHANGED <<answer, mcpInbox>>

SessionInitialized ==
    /\ lifecycle = "opening"
    /\ lifecycle' = "serving" /\ sessionUp' = TRUE
    /\ UNCHANGED <<mcpInbox, served, answer, failures, breaks>>

ServeNext ==
    /\ lifecycle = "serving" /\ mcpInbox # <<>>
    /\ served' = Head(mcpInbox) /\ mcpInbox' = Tail(mcpInbox) /\ lifecycle' = "calling"
    /\ UNCHANGED <<sessionUp, answer, failures, breaks>>

\* The call returns, or its time is up: the session goes on.
CallSettles ==
    /\ lifecycle = "calling"
    /\ \E a \in {"result", "error"} : answer' = [answer EXCEPT ![served] = a]
    /\ lifecycle' = "serving" /\ served' = NoMcpCall
    /\ UNCHANGED <<sessionUp, mcpInbox, failures, breaks>>

\* Mutant: the call the session broke in is put back for the next one.
BreaksAndQueues ==
    /\ lifecycle \in {"opening", "serving", "calling"}
    /\ breaks < MaxBreaks /\ breaks' = breaks + 1 /\ failures' = failures + 1
    /\ IF lifecycle = "calling"
       THEN answer' = [answer EXCEPT ![served] = "error"] /\ mcpInbox' = Append(mcpInbox, served)
       ELSE UNCHANGED <<answer, mcpInbox>>
    /\ lifecycle' = "backoff" /\ sessionUp' = FALSE /\ served' = NoMcpCall

\* The session raises: while it opens, or in a call.  An exception of the call is
\* passed to the caller; a cancellation from the library's task group is not, and
\* the call it interrupts is dropped.
SessionBreaks ==
    /\ lifecycle \in {"opening", "serving", "calling"}
    /\ breaks < MaxBreaks /\ breaks' = breaks + 1 /\ failures' = failures + 1
    /\ IF lifecycle = "calling"
       THEN \E a \in {"error", "dropped"} : answer' = [answer EXCEPT ![served] = a]
       ELSE UNCHANGED answer
    /\ lifecycle' = "backoff" /\ sessionUp' = FALSE /\ served' = NoMcpCall
    /\ UNCHANGED mcpInbox

\* The back-off is over; older failures may have left the window meanwhile.
BackedOff ==
    /\ lifecycle = "backoff"
    /\ \E n \in 0..failures : LoopTop(n)
    /\ UNCHANGED <<sessionUp, served, breaks>>

\* The circuit has been open for a window: all failures are forgotten.
CircuitCloses ==
    /\ lifecycle = "open circuit"
    /\ LoopTop(0)
    /\ UNCHANGED <<sessionUp, served, breaks>>

\* shutdown cancels the task wherever it is; what is queued stays queued.
ShutdownBridge ==
    /\ lifecycle # "ended"
    /\ lifecycle' = "ended" /\ served' = NoMcpCall
    /\ answer' = IF lifecycle = "calling" THEN [answer EXCEPT ![served] = "dropped"] ELSE answer
    /\ UNCHANGED <<sessionUp, mcpInbox, failures, breaks>>

OwnerStep ==
    SessionInitialized \/ ServeNext \/ CallSettles \/ BackedOff \/ CircuitCloses

McpNext ==
    \/ \E c \in McpCalls : SubmitCall(c)
    \/ OwnerStep \/ SessionBreaks \/ ShutdownBridge

McpSpec == McpInit /\ [][McpNext]_mcpVars

\* A session opens or fails, a call returns or times out, sleeps end.
McpFairness == WF_mcpVars(OwnerStep)

\* Through failed sessions, back-offs and an open circuit, no call is lost while the
\* manager runs: each is answered, by a result or by an error, unless the library
\* cancelled the session in the middle of it.
McpCallsEnd ==
    \A c \in McpCalls : answer[c] = "pending" ~> (answer[c] # "pending" \/ lifecycle = "ended")

\* "if not req.future.done()": a future is set once, whatever breaks, drains or is shut down
\* around it (_serve, _drain_with): a call that was answered is answered by nobody else.
McpCallsOnce ==
    [][\A c \in McpCalls : answer[c] \notin {"none", "pending"} => answer'[c] = answer[c]]_mcpVars
=============================================================================
