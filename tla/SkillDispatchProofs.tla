------------------------- MODULE SkillDispatchProofs -------------------------
(***************************************************************************)
(* A skill call runs at most once and is reported truly, for any calls,    *)
(* batch size, concurrency and number of faults and reloads.               *)
(*                                                                         *)
(* The invariant follows a call along its way.  WayInv says where it can   *)
(* be: in the stream once and untouched, then with a handler, and asked    *)
(* for wherever it is.  RanInv says that what is written was run, AckInv   *)
(* that what is acknowledged was written, CountInv that callers are        *)
(* counted, QueueInv that a request in the inbox or the session's hands is *)
(* there once and its caller waits, and ReloadInv that a reload which found its session open waits *)
(* for a later subprocess.                                                 *)
(***************************************************************************)
EXTENDS SkillDispatch, FiniteSetTheorems, SequenceTheorems, TLAPS

Asked(c) == router[c] \notin {"idle", "failed"}

Types ==
    /\ router \in [Calls -> {"idle", "polling", "failed", "ok", "error", "timeout"}]
    /\ stream \in Seq(Calls)
    /\ pel \in [Calls -> {"none", "mine", "dead", "acked"}]
    /\ handler \in [Calls -> Holding \union {"none", "queued", "acked", "lost"}]
    /\ result \in [Calls -> {"none", "ok", "error"}]
    /\ ran \in [Calls -> {"none", "ok", "error"}]
    /\ fut \in [Calls -> {"none", "refused", "pending", "ok", "error"}]

WayInv ==
    /\ \A i \in DOMAIN stream : handler[stream[i]] = "none" /\ Asked(stream[i])
    /\ \A i, j \in DOMAIN stream : stream[i] = stream[j] => i = j
    /\ \A c \in Calls : handler[c] # "none" => Asked(c)

RanInv ==
    \A c \in Calls :
        /\ handler[c] \in {"none", "queued", "dispatching", "calling"} => ran[c] = "none"
        /\ handler[c] = "ok" => ran[c] = "ok"
        /\ result[c] = "ok" => ran[c] = "ok"

AckInv ==
    \A c \in Calls :
        handler[c] = "ack" \/ pel[c] = "acked" => result[c] # "none" \/ c \in excused

CountInv ==
    /\ waiting \subseteq Calls /\ IsFiniteSet(waiting)
    /\ inflight = Cardinality(waiting)
    /\ \A c \in waiting : fut[c] # "none"

\* A request that a session can still serve.
QueueInv ==
    /\ inbox \in Seq(Calls \union {RESTART})
    /\ cur \in Calls \union {NoCall}
    /\ cur # NoCall => fut[cur] = "pending" /\ cur \in waiting
    /\ \A i \in DOMAIN inbox : inbox[i] \in Calls =>
           /\ fut[inbox[i]] = "pending" /\ inbox[i] \in waiting /\ inbox[i] # cur
           /\ \A j \in DOMAIN inbox : inbox[i] = inbox[j] => i = j

ReloadInv ==
    /\ proc \in Nat /\ reload \in [at : {"idle", "draining", "awaiting"}, old : Nat, open : BOOLEAN]
    /\ reload.at # "idle" => reload.old <= proc
    /\ reload.at = "awaiting" /\ reload.open =>
           proc > reload.old \/ (~ready /\ owner # "opening")

IInv == Types /\ WayInv /\ RanInv /\ AckInv /\ CountInv /\ QueueInv /\ ReloadInv

-----------------------------------------------------------------------------
(* The initial state, and one lemma per action, one step per conjunct.     *)

\* Nobody has asked for anything.
LEMMA InitIInv == Init => IInv
<1> SUFFICES ASSUME Init PROVE IInv
  OBVIOUS
<1>1. Types /\ WayInv /\ RanInv /\ AckInv
  BY DEF Init, RegistryInit, Types, Holding, WayInv, RanInv, AckInv
<1>2. CountInv /\ ReloadInv
  BY FS_EmptySet DEF Init, RegistryInit, NoReload, CountInv, ReloadInv
<1>3. QueueInv
  BY EmptySeq DEF Init, RegistryInit, QueueInv
<1> QED BY <1>1, <1>2, <1>3 DEF IInv

\* What the registry does leaves the way of a call alone.
LEMMA DispatchUntouched ==
    ASSUME IInv, UNCHANGED dispatchVars,
           fut' \in [Calls -> {"none", "refused", "pending", "ok", "error"}]
    PROVE  Types' /\ WayInv' /\ RanInv' /\ AckInv'
BY DEF IInv, dispatchVars, Types, Holding, WayInv, Asked, RanInv, AckInv

\* What the router and the handlers do leaves the registry alone.
LEMMA RegistryUntouched ==
    ASSUME IInv, UNCHANGED registryVars PROVE CountInv' /\ QueueInv' /\ ReloadInv'
BY DEF IInv, registryVars, ownerVars, callVars, reloadVars, CountInv, QueueInv, ReloadInv

\* The requests of an inbox that gets another element, or loses its first.
LEMMA InboxGrows ==
    ASSUME QueueInv, NEW e \in Calls \union {RESTART}
    PROVE  /\ Append(inbox, e) \in Seq(Calls \union {RESTART})
           /\ DOMAIN Append(inbox, e) = 1..(Len(inbox) + 1) /\ DOMAIN inbox = 1..Len(inbox)
           /\ Len(inbox) \in Nat /\ Append(inbox, e)[Len(inbox) + 1] = e
           /\ \A i \in 1..Len(inbox) : Append(inbox, e)[i] = inbox[i]
BY DEF QueueInv

LEMMA InboxShrinks ==
    ASSUME QueueInv, inbox # <<>>
    PROVE  /\ Tail(inbox) \in Seq(Calls \union {RESTART})
           /\ DOMAIN Tail(inbox) = 1..(Len(inbox) - 1) /\ DOMAIN inbox = 1..Len(inbox)
           /\ Len(inbox) \in Nat \ {0} /\ Head(inbox) = inbox[1]
           /\ Head(inbox) \in Calls \union {RESTART}
           /\ \A i \in 1..(Len(inbox) - 1) : Tail(inbox)[i] = inbox[i + 1]
<1>1. inbox \in Seq(Calls \union {RESTART})
  BY DEF QueueInv
<1>2. Len(inbox) \in Nat \ {0}
  BY <1>1, EmptySeq
<1> QED BY <1>1, <1>2

\* A sentinel is no request.
LEMMA SentinelQueued ==
    ASSUME QueueInv, inbox' = Append(inbox, RESTART), UNCHANGED <<cur, fut, waiting>>
    PROVE  QueueInv'
BY InboxGrows, RegistryAssumption DEF QueueInv

\* What is left in the inbox when its first element is taken.
LEMMA Taken ==
    ASSUME QueueInv, inbox # <<>>, inbox' = Tail(inbox), UNCHANGED <<fut, waiting>>
    PROVE  /\ inbox' \in Seq(Calls \union {RESTART})
           /\ \A i \in DOMAIN inbox' : inbox'[i] \in Calls =>
                  /\ fut'[inbox'[i]] = "pending" /\ inbox'[i] \in waiting'
                  /\ inbox'[i] # cur /\ inbox'[i] # Head(inbox)
                  /\ \A j \in DOMAIN inbox' : inbox'[i] = inbox'[j] => i = j
<1> SUFFICES ASSUME NEW i \in DOMAIN inbox', inbox'[i] \in Calls
             PROVE  /\ fut'[inbox'[i]] = "pending" /\ inbox'[i] \in waiting'
                    /\ inbox'[i] # cur /\ inbox'[i] # Head(inbox)
                    /\ \A j \in DOMAIN inbox' : inbox'[i] = inbox'[j] => i = j
  BY InboxShrinks
<1>1. i \in 1..(Len(inbox) - 1) /\ inbox'[i] = inbox[i + 1] /\ i + 1 \in DOMAIN inbox
  BY InboxShrinks
<1>2. /\ fut[inbox[i + 1]] = "pending" /\ inbox[i + 1] \in waiting /\ inbox[i + 1] # cur
      /\ \A j \in DOMAIN inbox : inbox[i + 1] = inbox[j] => i + 1 = j
  BY <1>1 DEF QueueInv
<1>3. inbox[i + 1] # Head(inbox)
  <2>1. 1 \in DOMAIN inbox /\ Head(inbox) = inbox[1] /\ i + 1 # 1
    BY <1>1, InboxShrinks
  <2> QED BY <1>2, <2>1
<1>4. ASSUME NEW j \in DOMAIN inbox', inbox'[i] = inbox'[j] PROVE i = j
  <2>1. j \in 1..(Len(inbox) - 1) /\ inbox'[j] = inbox[j + 1] /\ j + 1 \in DOMAIN inbox
    BY InboxShrinks
  <2> QED BY <1>1, <1>2, <1>4, <2>1
<1> QED BY <1>1, <1>2, <1>3, <1>4

\* A session that opens belongs to the subprocess started last.
LEMMA OpenKeeps ==
    ASSUME IInv, OpenSession, UNCHANGED dispatchVars PROVE IInv'
<1>1. fut' \in [Calls -> {"none", "refused", "pending", "ok", "error"}]
  BY DEF IInv, OpenSession, registryVars, ownerVars, callVars, reloadVars, Types
<1>2. Types' /\ WayInv' /\ RanInv' /\ AckInv'
  BY <1>1, DispatchUntouched
<1>3. CountInv'
  BY DEF IInv, OpenSession, registryVars, ownerVars, callVars, reloadVars, Types, CountInv
<1>4. ReloadInv'
  BY DEF IInv, OpenSession, registryVars, ownerVars, callVars, reloadVars, ReloadInv
<1>5. QueueInv'
  BY DEF IInv, OpenSession, registryVars, ownerVars, callVars, reloadVars, QueueInv
<1> QED BY <1>2, <1>3, <1>4, <1>5 DEF IInv

\* A lost session fails the requests in the inbox.
LEMMA SessionCrashKeeps ==
    ASSUME IInv, SessionCrash, UNCHANGED dispatchVars PROVE IInv'
<1>1. fut' \in [Calls -> {"none", "refused", "pending", "ok", "error"}]
  BY DEF IInv, SessionCrash, Drained, registryVars, ownerVars, callVars, reloadVars, Types
<1>2. Types' /\ WayInv' /\ RanInv' /\ AckInv'
  BY <1>1, DispatchUntouched
<1>3. CountInv'
  BY DEF IInv, SessionCrash, Drained, registryVars, ownerVars, callVars, reloadVars, Types,
     CountInv
<1>4. ReloadInv'
  BY DEF IInv, SessionCrash, Drained, registryVars, ownerVars, callVars, reloadVars,
     ReloadInv
<1>5. QueueInv'
  BY EmptySeq, RegistryAssumption DEF IInv, SessionCrash, QueueInv
<1> QED BY <1>2, <1>3, <1>4, <1>5 DEF IInv

\* A dead subprocess is not noticed.
LEMMA DiesKeeps ==
    ASSUME IInv, ProcessDies, UNCHANGED dispatchVars PROVE IInv'
<1>1. fut' \in [Calls -> {"none", "refused", "pending", "ok", "error"}]
  BY DEF IInv, ProcessDies, registryVars, ownerVars, callVars, reloadVars, Types
<1>2. Types' /\ WayInv' /\ RanInv' /\ AckInv'
  BY <1>1, DispatchUntouched
<1>3. CountInv'
  BY DEF IInv, ProcessDies, registryVars, ownerVars, callVars, reloadVars, Types, CountInv
<1>4. ReloadInv'
  BY DEF IInv, ProcessDies, registryVars, ownerVars, callVars, reloadVars, ReloadInv
<1>5. QueueInv'
  BY DEF IInv, ProcessDies, registryVars, ownerVars, callVars, reloadVars, QueueInv
<1> QED BY <1>2, <1>3, <1>4, <1>5 DEF IInv

\* The sentinel closes the session.
LEMMA SentinelKeeps ==
    ASSUME IInv, TakeSentinel, UNCHANGED dispatchVars PROVE IInv'
<1>1. fut' \in [Calls -> {"none", "refused", "pending", "ok", "error"}]
  BY DEF IInv, TakeSentinel, registryVars, ownerVars, callVars, reloadVars, Types
<1>2. Types' /\ WayInv' /\ RanInv' /\ AckInv'
  BY <1>1, DispatchUntouched
<1>3. CountInv'
  BY DEF IInv, TakeSentinel, registryVars, ownerVars, callVars, reloadVars, Types, CountInv
<1>4. ReloadInv'
  BY DEF IInv, TakeSentinel, registryVars, ownerVars, callVars, reloadVars, ReloadInv
<1>5. QueueInv'
  <2>1. inbox # <<>> /\ inbox' = Tail(inbox) /\ UNCHANGED <<cur, fut, waiting>>
    BY DEF TakeSentinel, callVars
  <2> QED BY <2>1, Taken DEF IInv, QueueInv
<1> QED BY <1>2, <1>3, <1>4, <1>5 DEF IInv

\* The owner takes a request.
LEMMA TakeKeeps ==
    ASSUME IInv, TakeRequest, UNCHANGED dispatchVars PROVE IInv'
<1>1. fut' \in [Calls -> {"none", "refused", "pending", "ok", "error"}]
  BY DEF IInv, TakeRequest, registryVars, ownerVars, callVars, reloadVars, Types
<1>2. Types' /\ WayInv' /\ RanInv' /\ AckInv'
  BY <1>1, DispatchUntouched
<1>3. CountInv'
  BY DEF IInv, TakeRequest, registryVars, ownerVars, callVars, reloadVars, Types, CountInv
<1>4. ReloadInv'
  BY DEF IInv, TakeRequest, registryVars, ownerVars, callVars, reloadVars, ReloadInv
<1>5. QueueInv'
  <2>1. /\ inbox # <<>> /\ inbox' = Tail(inbox) /\ cur' = Head(inbox) /\ Head(inbox) # RESTART
        /\ UNCHANGED <<fut, waiting>>
    BY DEF TakeRequest, callVars
  <2>2. /\ Head(inbox) = inbox[1] /\ 1 \in DOMAIN inbox
        /\ Head(inbox) \in Calls \union {RESTART}
    BY <2>1, InboxShrinks DEF IInv
  <2>3. Head(inbox) \in Calls /\ fut[Head(inbox)] = "pending" /\ Head(inbox) \in waiting
    BY <2>1, <2>2 DEF IInv, QueueInv
  <2> QED BY <2>1, <2>3, Taken DEF IInv, QueueInv
<1> QED BY <1>2, <1>3, <1>4, <1>5 DEF IInv

\* The call of the tool ends.
LEMMA CallEndsKeeps ==
    ASSUME IInv, CallEnds, UNCHANGED dispatchVars PROVE IInv'
<1>1. fut' \in [Calls -> {"none", "refused", "pending", "ok", "error"}]
  BY DEF IInv, CallEnds, registryVars, ownerVars, callVars, reloadVars, Types
<1>2. Types' /\ WayInv' /\ RanInv' /\ AckInv'
  BY <1>1, DispatchUntouched
<1>3. CountInv'
  BY DEF IInv, CallEnds, registryVars, ownerVars, callVars, reloadVars, Types, CountInv
<1>4. ReloadInv'
  BY DEF IInv, CallEnds, registryVars, ownerVars, callVars, reloadVars, ReloadInv
<1>5. QueueInv'
  <2>1. PICK v \in {"ok", "error"} : fut' = [fut EXCEPT ![cur] = v]
    BY DEF CallEnds
  <2>2. \A c \in Calls : c # cur => fut'[c] = fut[c]
    BY <2>1 DEF IInv, Types
  <2>3. cur' = NoCall /\ UNCHANGED <<inbox, waiting>>
    BY DEF CallEnds
  <2> QED BY <2>2, <2>3, RegistryAssumption DEF IInv, QueueInv
<1> QED BY <1>2, <1>3, <1>4, <1>5 DEF IInv

\* A new subprocess has a higher number.
LEMMA BackoffKeeps ==
    ASSUME IInv, BackoffEnds, UNCHANGED dispatchVars PROVE IInv'
<1>1. fut' \in [Calls -> {"none", "refused", "pending", "ok", "error"}]
  BY DEF IInv, BackoffEnds, registryVars, ownerVars, callVars, reloadVars, Types
<1>2. Types' /\ WayInv' /\ RanInv' /\ AckInv'
  BY <1>1, DispatchUntouched
<1>3. CountInv'
  BY DEF IInv, BackoffEnds, registryVars, ownerVars, callVars, reloadVars, Types, CountInv
<1>4. ReloadInv'
  BY DEF IInv, BackoffEnds, registryVars, ownerVars, callVars, reloadVars, ReloadInv
<1>5. QueueInv'
  BY DEF IInv, BackoffEnds, registryVars, ownerVars, callVars, reloadVars, QueueInv
<1> QED BY <1>2, <1>3, <1>4, <1>5 DEF IInv

\* The registration comes to its end.
LEMMA RegisterKeeps ==
    ASSUME IInv, Register, UNCHANGED dispatchVars PROVE IInv'
<1>1. fut' \in [Calls -> {"none", "refused", "pending", "ok", "error"}]
  BY DEF IInv, Register, registryVars, ownerVars, callVars, reloadVars, Types
<1>2. Types' /\ WayInv' /\ RanInv' /\ AckInv'
  BY <1>1, DispatchUntouched
<1>3. CountInv'
  BY DEF IInv, Register, registryVars, ownerVars, callVars, reloadVars, Types, CountInv
<1>4. ReloadInv'
  BY DEF IInv, Register, registryVars, ownerVars, callVars, reloadVars, ReloadInv
<1>5. QueueInv'
  BY DEF IInv, Register, registryVars, ownerVars, callVars, reloadVars, QueueInv
<1> QED BY <1>2, <1>3, <1>4, <1>5 DEF IInv

\* The registration fails.
LEMMA RegTimeoutKeeps ==
    ASSUME IInv, RegisterTimesOut, UNCHANGED dispatchVars PROVE IInv'
<1>1. fut' \in [Calls -> {"none", "refused", "pending", "ok", "error"}]
  BY DEF IInv, RegisterTimesOut, registryVars, ownerVars, callVars, reloadVars, Types
<1>2. Types' /\ WayInv' /\ RanInv' /\ AckInv'
  BY <1>1, DispatchUntouched
<1>3. CountInv'
  BY DEF IInv, RegisterTimesOut, registryVars, ownerVars, callVars, reloadVars, Types,
     CountInv
<1>4. ReloadInv'
  BY DEF IInv, RegisterTimesOut, registryVars, ownerVars, callVars, reloadVars, ReloadInv
<1>5. QueueInv'
  BY RegistryAssumption DEF IInv, RegisterTimesOut, callVars, QueueInv
<1> QED BY <1>2, <1>3, <1>4, <1>5 DEF IInv

\* A reload notes the subprocess it is to replace.
LEMMA ReloadStartsKeeps ==
    ASSUME IInv, ReloadStarts, UNCHANGED dispatchVars PROVE IInv'
<1>1. fut' \in [Calls -> {"none", "refused", "pending", "ok", "error"}]
  BY DEF IInv, ReloadStarts, registryVars, ownerVars, callVars, reloadVars, Types
<1>2. Types' /\ WayInv' /\ RanInv' /\ AckInv'
  BY <1>1, DispatchUntouched
<1>3. CountInv'
  BY DEF IInv, ReloadStarts, registryVars, ownerVars, callVars, reloadVars, Types, CountInv
<1>4. ReloadInv'
  BY DEF IInv, ReloadStarts, registryVars, ownerVars, callVars, reloadVars, ReloadInv
<1>5. QueueInv'
  BY DEF IInv, ReloadStarts, registryVars, ownerVars, callVars, reloadVars, QueueInv
<1> QED BY <1>2, <1>3, <1>4, <1>5 DEF IInv

\* The event is cleared before the sentinel is sent.
LEMMA ReloadRestartsKeeps ==
    ASSUME IInv, ReloadRestarts, UNCHANGED dispatchVars PROVE IInv'
<1>1. fut' \in [Calls -> {"none", "refused", "pending", "ok", "error"}]
  BY DEF IInv, ReloadRestarts, registryVars, ownerVars, callVars, reloadVars, Types
<1>2. Types' /\ WayInv' /\ RanInv' /\ AckInv'
  BY <1>1, DispatchUntouched
<1>3. CountInv'
  BY DEF IInv, ReloadRestarts, registryVars, ownerVars, callVars, reloadVars, Types,
     CountInv
<1>4. ReloadInv'
  <2>1. reload' = [at |-> "awaiting", old |-> reload.old, open |-> owner \in {"serving", "calling"}]
    BY DEF IInv, ReloadRestarts, ReloadInv
  <2>2. reload.old \in Nat /\ reload.old <= proc
    BY DEF IInv, ReloadRestarts, ReloadInv
  <2>3. reload' \in [at : {"idle", "draining", "awaiting"}, old : Nat, open : BOOLEAN]
    <3>1. \A b \in BOOLEAN : [at |-> "awaiting", old |-> reload.old, open |-> b] \in
                                [at : {"idle", "draining", "awaiting"}, old : Nat, open : BOOLEAN]
      BY <2>2
    <3>2. (owner \in {"serving", "calling"}) \in BOOLEAN
      OBVIOUS
    <3> QED BY <2>1, <3>1, <3>2, Zenon
  <2>4. reload'.open => owner # "opening"
    BY <2>1
  <2> QED BY <2>1, <2>2, <2>3, <2>4 DEF IInv, ReloadRestarts, ReloadInv, ownerVars
<1>5. QueueInv'
  BY SentinelQueued DEF IInv, ReloadRestarts, ownerVars, callVars
<1> QED BY <1>2, <1>3, <1>4, <1>5 DEF IInv

\* The event is set again.
LEMMA ReloadReturnsKeeps ==
    ASSUME IInv, ReloadReturns, UNCHANGED dispatchVars PROVE IInv'
<1>1. fut' \in [Calls -> {"none", "refused", "pending", "ok", "error"}]
  BY DEF IInv, ReloadReturns, NoReload, registryVars, ownerVars, callVars, reloadVars, Types
<1>2. Types' /\ WayInv' /\ RanInv' /\ AckInv'
  BY <1>1, DispatchUntouched
<1>3. CountInv'
  BY DEF IInv, ReloadReturns, NoReload, registryVars, ownerVars, callVars, reloadVars,
     Types, CountInv
<1>4. ReloadInv'
  BY DEF IInv, ReloadReturns, NoReload, registryVars, ownerVars, callVars, reloadVars,
     ReloadInv
<1>5. QueueInv'
  BY DEF IInv, ReloadReturns, registryVars, ownerVars, callVars, reloadVars, QueueInv
<1> QED BY <1>2, <1>3, <1>4, <1>5 DEF IInv

\* A failed caller asks for a restart.
LEMMA RestartKeeps ==
    ASSUME IInv, NEW c \in Calls, MaybeRestart(c), UNCHANGED dispatchVars PROVE IInv'
<1>1. fut' \in [Calls -> {"none", "refused", "pending", "ok", "error"}]
  BY DEF IInv, MaybeRestart, registryVars, ownerVars, callVars, reloadVars, Types
<1>2. Types' /\ WayInv' /\ RanInv' /\ AckInv'
  BY <1>1, DispatchUntouched
<1>3. CountInv'
  BY DEF IInv, MaybeRestart, registryVars, ownerVars, callVars, reloadVars, Types, CountInv
<1>4. ReloadInv'
  BY DEF IInv, MaybeRestart, registryVars, ownerVars, callVars, reloadVars, ReloadInv
<1>5. QueueInv'
  <2>1. UNCHANGED <<cur, fut, waiting>> /\ (inbox' = inbox \/ inbox' = Append(inbox, RESTART))
    BY DEF MaybeRestart, ownerVars, callVars
  <2> QED BY <2>1, SentinelQueued DEF IInv, QueueInv
<1> QED BY <1>2, <1>3, <1>4, <1>5 DEF IInv

\* execute asks, or fails to.
LEMMA ExecuteKeeps ==
    ASSUME IInv, NEW c \in Calls, Execute(c) PROVE IInv'
<1>1. Types'
  <2>1. Append(stream, c) \in Seq(Calls)
    BY DEF IInv, Types
  <2> QED BY <2>1 DEF IInv, Execute, registryVars, callVars, Types, Holding
<1>2. WayInv'
  <2>1. CASE stream' = Append(stream, c) /\ router' = [router EXCEPT ![c] = "polling"]
    <3>1. stream \in Seq(Calls) /\ stream' \in Seq(Calls)
      BY <2>1 DEF IInv, Types
    <3>2. /\ DOMAIN stream' = 1..(Len(stream) + 1) /\ DOMAIN stream = 1..Len(stream)
          /\ stream'[Len(stream) + 1] = c
          /\ \A i \in 1..Len(stream) : stream'[i] = stream[i] /\ stream[i] \in Calls
      BY <2>1, <3>1
    <3>3. handler[c] = "none" /\ ~Asked(c)
      BY DEF IInv, Execute, Types, WayInv, Asked
    <3>4. \A i \in 1..Len(stream) : stream[i] # c
      BY <3>2, <3>3 DEF IInv, WayInv
    <3>5. \A d \in Calls : d = c \/ Asked(d) => router'[d] \notin {"idle", "failed"}
      BY <2>1 DEF IInv, Types, Asked
    <3>6. handler' = handler
      BY DEF Execute
    <3>7. Len(stream) \in Nat
      BY <3>1
    <3>8. \A i \in 1..Len(stream) : handler[stream[i]] = "none" /\ Asked(stream[i])
      BY <3>2 DEF IInv, WayInv
    <3>9. \A i, j \in 1..Len(stream) : stream[i] = stream[j] => i = j
      BY <3>2 DEF IInv, WayInv
    <3>10. \A i \in DOMAIN stream' :
               handler[stream'[i]] = "none" /\ router'[stream'[i]] \notin {"idle", "failed"}
      BY <3>2, <3>3, <3>5, <3>7, <3>8
    <3>11. \A i, j \in DOMAIN stream' : stream'[i] = stream'[j] => i = j
      BY <3>2, <3>4, <3>7, <3>9
    <3>12. \A d \in Calls : handler[d] # "none" => router'[d] \notin {"idle", "failed"}
      BY <3>5 DEF IInv, WayInv
    <3> QED BY <3>6, <3>10, <3>11, <3>12 DEF WayInv, Asked
  <2>2. CASE UNCHANGED stream /\ router' = [router EXCEPT ![c] = "failed"]
    BY <2>2 DEF IInv, Execute, Types, WayInv, Asked
  <2> QED BY <2>1, <2>2 DEF Execute
<1>3. RanInv'
  BY DEF IInv, Execute, Fault, Types, WayInv, RanInv, Holding
<1>4. AckInv'
  BY DEF IInv, Execute, Fault, Types, AckInv, Holding
<1>5. CountInv' /\ QueueInv' /\ ReloadInv'
  BY RegistryUntouched DEF Execute
<1> QED BY <1>1, <1>2, <1>3, <1>4, <1>5 DEF IInv

\* The router finds the result that was written.
LEMMA PollFindsKeeps ==
    ASSUME IInv, NEW c \in Calls, PollFinds(c) PROVE IInv'
<1>1. Types'
  BY DEF IInv, PollFinds, Types, Holding, registryVars, callVars
<1>2. WayInv'
  BY DEF IInv, PollFinds, Types, WayInv, Asked, Holding
<1>3. RanInv'
  BY DEF IInv, PollFinds, Types, WayInv, RanInv, Holding
<1>4. AckInv'
  BY DEF IInv, PollFinds, Types, AckInv, Holding
<1>5. CountInv' /\ QueueInv' /\ ReloadInv'
  BY RegistryUntouched DEF PollFinds
<1> QED BY <1>1, <1>2, <1>3, <1>4, <1>5 DEF IInv

\* The router gives up.
LEMMA PollTimesOutKeeps ==
    ASSUME IInv, NEW c \in Calls, PollTimesOut(c) PROVE IInv'
<1>1. Types'
  BY DEF IInv, PollTimesOut, Types, Holding, registryVars, callVars
<1>2. WayInv'
  BY DEF IInv, PollTimesOut, Types, WayInv, Asked, Holding
<1>3. RanInv'
  BY DEF IInv, PollTimesOut, Types, WayInv, RanInv, Holding
<1>4. AckInv'
  BY DEF IInv, PollTimesOut, Types, AckInv, Holding
<1>5. CountInv' /\ QueueInv' /\ ReloadInv'
  BY RegistryUntouched DEF PollTimesOut
<1> QED BY <1>1, <1>2, <1>3, <1>4, <1>5 DEF IInv

\* The router meets an error.
LEMMA PollFailsKeeps ==
    ASSUME IInv, NEW c \in Calls, PollFails(c) PROVE IInv'
<1>1. Types'
  BY DEF IInv, PollFails, Fault, Types, Holding, registryVars, callVars
<1>2. WayInv'
  BY DEF IInv, PollFails, Types, WayInv, Asked, Holding
<1>3. RanInv'
  BY DEF IInv, PollFails, Types, WayInv, RanInv, Holding
<1>4. AckInv'
  BY DEF IInv, PollFails, Types, AckInv, Holding
<1>5. CountInv' /\ QueueInv' /\ ReloadInv'
  BY RegistryUntouched DEF PollFails
<1> QED BY <1>1, <1>2, <1>3, <1>4, <1>5 DEF IInv

\* The entries read from the stream had no handler, and none is left twice.
LEMMA ReadKeeps ==
    ASSUME IInv, ReadBatch PROVE IInv'
<1> DEFINE n == IF Len(stream) < Batch THEN Len(stream) ELSE Batch
           read == {stream[i] : i \in 1..n}
           rest == SubSeq(stream, n + 1, Len(stream))
<1>1. stream \in Seq(Calls) /\ DOMAIN stream = 1..Len(stream) /\ n \in 1..Len(stream)
  BY DispatchAssumption, EmptySeq DEF IInv, ReadBatch, Types
<1>2. read \subseteq Calls /\ \A c \in read : handler[c] = "none" /\ Asked(c)
  BY <1>1 DEF IInv, WayInv
<1>3. /\ rest \in Seq(Calls) /\ DOMAIN rest = 1..(Len(stream) - n)
      /\ \A i \in 1..(Len(stream) - n) : rest[i] = stream[n + i] /\ n + i \in DOMAIN stream
  BY <1>1
<1>4. \A i \in DOMAIN rest : rest[i] \notin read
  <2> SUFFICES ASSUME NEW i \in DOMAIN rest, NEW j \in 1..n, rest[i] = stream[j] PROVE FALSE
    BY DEF read
  <2> HIDE DEF n, rest
  <2>1. n + i \in DOMAIN stream /\ rest[i] = stream[n + i] /\ i >= 1
    BY <1>1, <1>3
  <2>2. Len(stream) \in Nat /\ n \in Nat /\ i \in Nat /\ j \in Nat
    BY <1>1, <1>3
  <2>3. j \in DOMAIN stream /\ n + i # j
    BY <1>1, <2>1, <2>2
  <2> QED BY <2>1, <2>3 DEF IInv, WayInv
<1>5. /\ stream' = rest
      /\ pel' = [c \in Calls |-> IF c \in read THEN "mine" ELSE pel[c]]
      /\ handler' = [c \in Calls |-> IF c \in read THEN "queued" ELSE handler[c]]
      /\ UNCHANGED <<router, result, ran, excused, fut>>
  BY DEF ReadBatch, registryVars, callVars
<1> HIDE DEF n, read, rest
<1>6. Types'
  BY <1>3, <1>5 DEF IInv, Types
<1>7. WayInv'
  <2>1. \A i \in DOMAIN rest :
            handler'[rest[i]] = "none" /\ router[rest[i]] \notin {"idle", "failed"}
    BY <1>3, <1>4, <1>5 DEF IInv, Types, WayInv, Asked
  <2>2. \A i, j \in DOMAIN rest : rest[i] = rest[j] => i = j
    BY <1>1, <1>3 DEF IInv, WayInv
  <2>3. \A c \in Calls : handler'[c] # "none" => router[c] \notin {"idle", "failed"}
    BY <1>2, <1>5 DEF IInv, WayInv, Asked
  <2> QED BY <1>5, <2>1, <2>2, <2>3 DEF WayInv, Asked
<1>8. RanInv'
  BY <1>2, <1>5 DEF IInv, Types, RanInv
<1>9. AckInv'
  BY <1>5 DEF IInv, Types, AckInv
<1>10. CountInv' /\ QueueInv' /\ ReloadInv'
  BY RegistryUntouched DEF ReadBatch
<1> QED BY <1>6, <1>7, <1>8, <1>9, <1>10 DEF IInv

\* A handler enters the semaphore.
LEMMA SlotKeeps ==
    ASSUME IInv, NEW c \in Calls, TakeSlot(c) PROVE IInv'
<1>1. Types'
  BY DEF IInv, TakeSlot, Types, Holding, registryVars, callVars
<1>2. WayInv'
  BY DEF IInv, TakeSlot, Types, WayInv, Asked, Holding
<1>3. RanInv'
  BY DEF IInv, TakeSlot, Types, WayInv, RanInv, Holding
<1>4. AckInv'
  BY DEF IInv, TakeSlot, Types, AckInv, Holding
<1>5. CountInv' /\ QueueInv' /\ ReloadInv'
  BY RegistryUntouched DEF TakeSlot
<1> QED BY <1>1, <1>2, <1>3, <1>4, <1>5 DEF IInv

\* The registry takes the request or refuses it.
LEMMA DispatchKeeps ==
    ASSUME IInv, NEW c \in Calls, NEW valid \in BOOLEAN, Dispatch(c, valid) PROVE IInv'
<1>1. Types'
  BY DEF IInv, Dispatch, CallTool, ownerVars, reloadVars, Types, Holding
<1>2. WayInv'
  BY DEF IInv, Dispatch, CallTool, ownerVars, reloadVars, Types, WayInv, Asked, Holding
<1>3. RanInv'
  BY DEF IInv, Dispatch, CallTool, ownerVars, reloadVars, Types, WayInv, RanInv, Holding
<1>4. AckInv'
  BY DEF IInv, Dispatch, CallTool, ownerVars, reloadVars, Types, AckInv, Holding
<1>5. CountInv'
  <2>1. c \notin waiting
    BY DEF IInv, Dispatch, CallTool, CountInv
  <2>2. IsFiniteSet(waiting \union {c}) /\ Cardinality(waiting \union {c}) = Cardinality(waiting) + 1
    BY <2>1, FS_AddElement DEF IInv, CountInv
  <2>3. CASE registered = "yes" /\ state = "READY" /\ valid
    <3>1. inflight' = inflight + 1 /\ waiting' = waiting \union {c}
      BY <2>3 DEF Dispatch, CallTool
    <3>2. fut' = [fut EXCEPT ![c] = "pending"]
      BY <2>3 DEF Dispatch, CallTool
    <3> QED BY <2>2, <3>1, <3>2 DEF IInv, Types, CountInv
  <2>4. CASE ~(registered = "yes" /\ state = "READY" /\ valid)
    <3>1. inflight \in Int
      BY FS_CardinalityType DEF IInv, CountInv
    <3>2. inflight' = inflight /\ waiting' = waiting /\ fut' = [fut EXCEPT ![c] = "refused"]
      BY <2>4, <3>1 DEF Dispatch, CallTool, CountedOut
    <3> QED BY <2>1, <3>2 DEF IInv, Types, CountInv
  <2> QED BY <2>3, <2>4
<1>6. ReloadInv'
  BY DEF IInv, Dispatch, CallTool, ownerVars, reloadVars, ReloadInv
<1>7. QueueInv'
  <2>1. /\ cur' = cur /\ \A d \in Calls : d # c => fut'[d] = fut[d]
        /\ waiting \subseteq waiting' /\ fut[c] = "none"
    BY DEF IInv, Dispatch, CallTool, ownerVars, Types
  <2>2. c # cur /\ \A i \in DOMAIN inbox : inbox[i] # c
    BY <2>1, RegistryAssumption DEF IInv, QueueInv
  <2>3. CASE inbox' = inbox
    BY <2>1, <2>2, <2>3 DEF IInv, QueueInv
  <2>4. CASE inbox' # inbox
    <3>1. inbox' = Append(inbox, c) /\ fut'[c] = "pending" /\ c \in waiting'
      BY <2>4 DEF IInv, Dispatch, CallTool, Types
    <3>2. /\ inbox' \in Seq(Calls \union {RESTART})
          /\ DOMAIN inbox' = 1..(Len(inbox) + 1) /\ DOMAIN inbox = 1..Len(inbox)
          /\ Len(inbox) \in Nat /\ inbox'[Len(inbox) + 1] = c
          /\ \A i \in 1..Len(inbox) : inbox'[i] = inbox[i]
      BY <3>1, InboxGrows DEF IInv
    <3>3. cur' \in Calls \union {NoCall} /\ (cur' # NoCall => fut'[cur'] = "pending" /\ cur' \in waiting')
      BY <2>1, <2>2 DEF IInv, QueueInv
    <3>4. ASSUME NEW i \in DOMAIN inbox', inbox'[i] \in Calls
          PROVE  /\ fut'[inbox'[i]] = "pending" /\ inbox'[i] \in waiting' /\ inbox'[i] # cur'
                 /\ \A j \in DOMAIN inbox' : inbox'[i] = inbox'[j] => i = j
      <4>1. CASE i = Len(inbox) + 1
        BY <2>1, <2>2, <3>1, <3>2, <4>1
      <4>2. CASE i # Len(inbox) + 1
        <5>1. i \in DOMAIN inbox /\ inbox'[i] = inbox[i] /\ inbox[i] # c
          BY <2>2, <3>2, <4>2
        <5>2. /\ fut[inbox[i]] = "pending" /\ inbox[i] \in waiting /\ inbox[i] # cur
              /\ \A j \in DOMAIN inbox : inbox[i] = inbox[j] => i = j
          BY <3>4, <5>1 DEF IInv, QueueInv
        <5>3. \A j \in DOMAIN inbox' : inbox'[i] = inbox'[j] => i = j
          BY <3>2, <5>1, <5>2
        <5> QED BY <2>1, <3>4, <5>1, <5>2, <5>3
      <4> QED BY <4>1, <4>2
    <3> QED BY <3>2, <3>3, <3>4 DEF QueueInv
  <2> QED BY <2>3, <2>4
<1> QED BY <1>1, <1>2, <1>3, <1>4, <1>5, <1>6, <1>7 DEF IInv

\* The caller is counted out, and the handler knows what the call came to.
LEMMA ReturnedKeeps ==
    ASSUME IInv, NEW c \in Calls, NEW toolError \in BOOLEAN, Returned(c, toolError) PROVE IInv'
<1>1. Types'
  BY DEF IInv, Returned, CallerResumes, ownerVars, reloadVars, Types, Holding
<1>2. WayInv'
  BY DEF IInv, Returned, CallerResumes, ownerVars, reloadVars, Types, WayInv, Asked, Holding
<1>3. RanInv'
  BY DEF IInv, Returned, CallerResumes, ownerVars, reloadVars, Types, WayInv, RanInv,
     Holding
<1>4. AckInv'
  BY DEF IInv, Returned, CallerResumes, ownerVars, reloadVars, Types, AckInv, Holding
<1>5. CountInv'
  <2>1. IsFiniteSet(waiting \ {c}) /\ Cardinality(waiting \ {c}) = Cardinality(waiting) - 1
    BY FS_RemoveElement DEF IInv, Returned, CallerResumes, CountInv
  <2>2. inflight' = inflight - 1
    BY DEF Returned, CallerResumes, CountedOut
  <2> QED BY <2>1, <2>2 DEF IInv, Returned, CallerResumes, CountInv
<1>6. ReloadInv'
  BY DEF IInv, Returned, CallerResumes, ownerVars, reloadVars, ReloadInv
<1>7. QueueInv'
  <2>1. /\ UNCHANGED <<cur, inbox, fut>> /\ waiting' = waiting \ {c} /\ fut[c] # "pending"
    BY DEF Returned, CallerResumes, ownerVars
  <2> QED BY <2>1 DEF IInv, QueueInv
<1> QED BY <1>1, <1>2, <1>3, <1>4, <1>5, <1>6, <1>7 DEF IInv

\* What is written is what the handler knows.
LEMMA WriteKeeps ==
    ASSUME IInv, NEW c \in Calls, WriteResult(c) PROVE IInv'
<1>1. Types'
  BY DEF IInv, WriteResult, Fault, Types, Holding, registryVars, callVars
<1>2. WayInv'
  BY DEF IInv, WriteResult, Fault, Types, WayInv, Asked, Holding
<1>3. RanInv'
  BY DEF IInv, WriteResult, Fault, Types, WayInv, RanInv, Holding
<1>4. AckInv'
  BY DEF IInv, WriteResult, Fault, Types, AckInv, Holding
<1>5. CountInv' /\ QueueInv' /\ ReloadInv'
  BY RegistryUntouched DEF WriteResult
<1> QED BY <1>1, <1>2, <1>3, <1>4, <1>5 DEF IInv

\* The second write is an error, or fails.
LEMMA FallbackKeeps ==
    ASSUME IInv, NEW c \in Calls, WriteInternalError(c) PROVE IInv'
<1>1. Types'
  BY DEF IInv, WriteInternalError, Types, Holding, registryVars, callVars
<1>2. WayInv'
  BY DEF IInv, WriteInternalError, Types, WayInv, Asked, Holding
<1>3. RanInv'
  BY DEF IInv, WriteInternalError, Types, WayInv, RanInv, Holding
<1>4. AckInv'
  BY DEF IInv, WriteInternalError, Types, AckInv, Holding
<1>5. CountInv' /\ QueueInv' /\ ReloadInv'
  BY RegistryUntouched DEF WriteInternalError
<1> QED BY <1>1, <1>2, <1>3, <1>4, <1>5 DEF IInv

\* The entry is acknowledged after the writes.
LEMMA AckKeeps ==
    ASSUME IInv, NEW c \in Calls, Ack(c) PROVE IInv'
<1>1. Types'
  BY DEF IInv, Ack, Fault, Types, Holding, registryVars, callVars
<1>2. WayInv'
  BY DEF IInv, Ack, Fault, Types, WayInv, Asked, Holding
<1>3. RanInv'
  BY DEF IInv, Ack, Fault, Types, WayInv, RanInv, Holding
<1>4. AckInv'
  BY DEF IInv, Ack, Fault, Types, AckInv, Holding
<1>5. CountInv' /\ QueueInv' /\ ReloadInv'
  BY RegistryUntouched DEF Ack
<1> QED BY <1>1, <1>2, <1>3, <1>4, <1>5 DEF IInv

\* A crash loses handlers and waiting callers.
LEMMA CrashKeeps ==
    ASSUME IInv, Crash PROVE IInv'
<1>1. Types'
  BY DEF IInv, Crash, Fault, RegistryGone, NoReload, Types, Holding
<1>2. WayInv'
  BY DEF IInv, Crash, Fault, RegistryGone, NoReload, Types, WayInv, Asked, Holding
<1>3. RanInv'
  BY DEF IInv, Crash, Fault, RegistryGone, NoReload, Types, WayInv, RanInv, Holding
<1>4. AckInv'
  BY DEF IInv, Crash, Fault, RegistryGone, NoReload, Types, AckInv, Holding
<1>5. CountInv'
  BY FS_EmptySet DEF Crash, RegistryGone, CountInv
<1>6. ReloadInv'
  BY DEF IInv, Crash, Fault, RegistryGone, NoReload, ReloadInv
<1>7. QueueInv'
  BY EmptySeq DEF Crash, RegistryGone, QueueInv
<1> QED BY <1>1, <1>2, <1>3, <1>4, <1>5, <1>6, <1>7 DEF IInv

\* A stop changes nothing else.
LEMMA StopKeeps ==
    ASSUME IInv, Stop PROVE IInv'
<1>1. Types'
  BY DEF IInv, Stop, Fault, Types, Holding, registryVars, callVars
<1>2. WayInv'
  BY DEF IInv, Stop, Fault, Types, WayInv, Asked, Holding
<1>3. RanInv'
  BY DEF IInv, Stop, Fault, Types, WayInv, RanInv, Holding
<1>4. AckInv'
  BY DEF IInv, Stop, Fault, Types, AckInv, Holding
<1>5. CountInv' /\ QueueInv' /\ ReloadInv'
  BY RegistryUntouched DEF Stop
<1> QED BY <1>1, <1>2, <1>3, <1>4, <1>5 DEF IInv

\* The end of a process acknowledges nothing but what it interrupts.
LEMMA CancelledKeeps ==
    ASSUME IInv, NEW acknowledged \in SUBSET Interrupted, Cancelled(acknowledged) PROVE IInv'
<1>0. acknowledged \subseteq Calls /\ \A c \in acknowledged : handler[c] \in Holding
  BY DEF Interrupted
<1>1. Types'
  BY DEF IInv, Cancelled, RegistryGone, Types, Holding
<1>2. WayInv'
  BY <1>0 DEF IInv, Cancelled, Types, WayInv, Asked, Holding
<1>3. RanInv'
  BY <1>0 DEF IInv, Cancelled, Types, RanInv, Holding
<1>4. AckInv'
  BY DEF IInv, Cancelled, Types, AckInv, Holding
<1>5. CountInv'
  BY FS_EmptySet DEF Cancelled, RegistryGone, CountInv
<1>6. ReloadInv'
  BY DEF IInv, Cancelled, RegistryGone, NoReload, ReloadInv
<1>7. QueueInv'
  BY EmptySeq DEF Cancelled, RegistryGone, QueueInv
<1> QED BY <1>1, <1>2, <1>3, <1>4, <1>5, <1>6, <1>7 DEF IInv

LEMMA ExitKeeps ==
    ASSUME IInv, Exit \/ ReadFails PROVE IInv'
<1>1. PICK cut : Cancelled(Interrupted \ cut)
  BY DEF Exit, ReadFails
<1> QED BY <1>1, CancelledKeeps

\* Entries change hands and are not handled.
LEMMA StartKeeps ==
    ASSUME IInv, Start PROVE IInv'
<1>1. Types'
  BY DEF IInv, Start, Types, Holding, registryVars, callVars
<1>2. WayInv'
  BY DEF IInv, Start, Types, WayInv, Asked, Holding
<1>3. RanInv'
  BY DEF IInv, Start, Types, WayInv, RanInv, Holding
<1>4. AckInv'
  BY DEF IInv, Start, Types, AckInv, Holding
<1>5. CountInv' /\ QueueInv' /\ ReloadInv'
  BY RegistryUntouched DEF Start
<1> QED BY <1>1, <1>2, <1>3, <1>4, <1>5 DEF IInv

\* Every step, stuttering among them, keeps the inductive invariant.
LEMMA StepKeeps == IInv /\ [Next]_vars => IInv'
<1> SUFFICES ASSUME IInv, [Next]_vars PROVE IInv'
  OBVIOUS
<1>1. CASE UNCHANGED vars
  BY <1>1 DEF vars, dispatchVars, registryVars, ownerVars, callVars, reloadVars, IInv, Types,
              WayInv, Asked, RanInv, AckInv, CountInv, QueueInv, ReloadInv
<1>2. CASE RegistryMoves
  BY <1>2, OpenKeeps, SessionCrashKeeps, DiesKeeps, SentinelKeeps, TakeKeeps, CallEndsKeeps,
     BackoffKeeps, RegisterKeeps, RegTimeoutKeeps, ReloadStartsKeeps, ReloadRestartsKeeps,
     ReloadReturnsKeeps, RestartKeeps DEF RegistryMoves, RegistrySteps, RegistryFaults
<1>3. CASE \E c \in Calls : 
            Execute(c) \/ PollFinds(c) \/ PollTimesOut(c) \/ PollFails(c) \/ HandlerSteps(c)
  BY <1>3, ExecuteKeeps, PollFindsKeeps, PollTimesOutKeeps, PollFailsKeeps, SlotKeeps,
     DispatchKeeps, ReturnedKeeps, WriteKeeps, FallbackKeeps, AckKeeps DEF HandlerSteps
<1>4. CASE ReadBatch \/ ReadFails \/ Crash \/ Stop \/ Exit \/ Start
  BY <1>4, ReadKeeps, CrashKeeps, StopKeeps, ExitKeeps, StartKeeps
<1> QED BY <1>1, <1>2, <1>3, <1>4 DEF Next

\* The specification never leaves the inductive invariant.
LEMMA DispatchInvariant == Spec => []IInv
BY InitIInv, StepKeeps, PTL DEF Spec

-----------------------------------------------------------------------------
\* No entry is acknowledged without a result (worker._handle), unless Redis refused both
\* writes or the process was stopped under it.
THEOREM AckedAnswered == Spec => []AckedHasResult
<1>1. IInv => AckedHasResult
  BY DEF IInv, AckInv, AckedHasResult
<1> QED BY <1>1, DispatchInvariant, PTL

\* A reload that asks for the restart finds inflight at zero, and then no caller waits: a request
\* in the inbox or the session's hands would be one of a caller that does (skill_registry.reload).
THEOREM ReloadLetsFinish == Spec => ReloadDrains
<1> DEFINE Drains == reload.at = "draining" /\ reload'.at = "awaiting"
           Empty == cur = NoCall /\ \A c \in Calls : ~Contains(inbox, c)
<1>1. ASSUME IInv, [Next]_vars, Drains PROVE Empty
  <2>1. reload' # reload
    BY <1>1
  <2>2. Next
    BY <1>1, <2>1 DEF vars, registryVars, reloadVars
  <2>3. inflight = 0
    <3>1. CASE RegistryMoves
      BY <1>1, <2>1, <3>1
      DEF RegistryMoves, RegistrySteps, RegistryFaults, OpenSession, TakeSentinel, TakeRequest,
          CallEnds, BackoffEnds, Register, ReloadRestarts, ReloadReturns, MaybeRestart,
          SessionCrash, ProcessDies, RegisterTimesOut, ReloadStarts, reloadVars
    <3>2. CASE \E c \in Calls :
                 Execute(c) \/ PollFinds(c) \/ PollTimesOut(c) \/ PollFails(c) \/ HandlerSteps(c)
      BY <2>1, <3>2
      DEF Execute, PollFinds, PollTimesOut, PollFails, HandlerSteps, TakeSlot, Dispatch, CallTool,
          Returned, CallerResumes, WriteResult, WriteInternalError, Ack, registryVars, reloadVars
    <3>3. CASE ReadBatch \/ Stop \/ Start
      BY <2>1, <3>3 DEF ReadBatch, Stop, Start, registryVars, reloadVars
    <3>4. CASE Crash \/ Exit \/ ReadFails
      BY <1>1, <3>4 DEF Crash, Exit, ReadFails, Cancelled, RegistryGone, NoReload
    <3> QED BY <2>2, <3>1, <3>2, <3>3, <3>4 DEF Next
  <2>4. waiting = {}
    BY <1>1, <2>3, FS_EmptySet DEF IInv, CountInv
  <2>5. DOMAIN inbox = 1..Len(inbox)
    BY <1>1 DEF IInv, QueueInv
  <2> QED BY <1>1, <2>4, <2>5 DEF IInv, QueueInv, Contains
<1>2. IInv /\ [Next]_vars => [Drains => Empty]_vars
  BY <1>1
<1> QED BY <1>2, DispatchInvariant, PTL DEF Spec, ReloadDrains

\* A reload of an open session returns to a subprocess started after it
\* (skill_registry.reload).
THEOREM ReloadIsNewer == Spec => ReloadReplaces
<1> DEFINE Returns == reload.at = "awaiting" /\ reload.open /\ reload'.at = "idle" /\ worker' = worker
<1>1. ASSUME IInv, [Next]_vars, Returns PROVE proc > reload.old
  <2>1. reload' # reload
    BY <1>1
  <2>2. Next
    BY <1>1, <2>1 DEF vars, registryVars, reloadVars
  <2>3. ready
    <3>1. CASE RegistryMoves
      BY <1>1, <2>1, <3>1
      DEF RegistryMoves, RegistrySteps, RegistryFaults, OpenSession, TakeSentinel, TakeRequest,
          CallEnds, BackoffEnds, Register, ReloadRestarts, ReloadReturns, MaybeRestart,
          SessionCrash, ProcessDies, RegisterTimesOut, ReloadStarts, reloadVars
    <3>2. CASE \E c \in Calls : 
            Execute(c) \/ PollFinds(c) \/ PollTimesOut(c) \/ PollFails(c) \/ HandlerSteps(c)
      BY <2>1, <3>2
      DEF Execute, PollFinds, PollTimesOut, PollFails, HandlerSteps, TakeSlot, Dispatch, CallTool,
          Returned, CallerResumes, WriteResult, WriteInternalError, Ack, registryVars, reloadVars
    <3>3. CASE ReadBatch \/ Stop \/ Start
      BY <2>1, <3>3 DEF ReadBatch, Stop, Start, registryVars, reloadVars
    <3>4. CASE Crash \/ Exit \/ ReadFails
      BY <1>1, <3>4 DEF Crash, Exit, ReadFails, Cancelled
    <3> QED BY <2>2, <3>1, <3>2, <3>3, <3>4 DEF Next
  <2> QED BY <1>1, <2>3 DEF IInv, ReloadInv
<1>2. IInv /\ [Next]_vars => [Returns => proc > reload.old]_vars
  BY <1>1
<1> QED BY <1>2, DispatchInvariant, PTL DEF Spec, ReloadReplaces

-----------------------------------------------------------------------------
\* The router, the stream and the worker implement the call that runs at most once and
\* whose reported success happened: each step is one of OneShotCall, or none.
THEOREM Refinement == Spec => ImplementsOnce
<1> DEFINE asked == {c \in Calls : router[c] \notin {"idle", "failed"}}
           told == [c \in Calls |-> CASE router[c] \in {"idle", "polling"} -> "none"
                                      [] router[c] = "failed" -> "error"
                                      [] OTHER -> router[c]]
<1>1. Init => Once!Init
  BY DEF Init, Once!Init
<1>2. ASSUME IInv, [Next]_vars PROVE [Once!Next]_<<asked, ran, told>>
  <2>1. ASSUME NEW c \in Calls, Execute(c) PROVE Once!Next
    <3>1. CASE router' = [router EXCEPT ![c] = "polling"]
      BY <1>2, <2>1, <3>1 DEF IInv, Types, Execute, Once!Next, Once!Ask
    <3>2. CASE router' = [router EXCEPT ![c] = "failed"]
      <4>1. Once!Reply(c, "error")
        BY <1>2, <2>1, <3>2 DEF IInv, Types, Execute, Once!Reply
      <4> QED BY <4>1 DEF Once!Next
    <3> QED BY <2>1, <3>1, <3>2 DEF Execute
  <2>2. ASSUME NEW c \in Calls, PollFinds(c) PROVE Once!Next
    <3>1. CASE result[c] = "ok"
      <4>1. Once!Reply(c, "ok")
        BY <1>2, <2>2, <3>1 DEF IInv, Types, RanInv, PollFinds, Once!Reply
      <4> QED BY <4>1 DEF Once!Next
    <3>2. CASE result[c] = "error"
      <4>1. Once!Reply(c, "error")
        BY <1>2, <2>2, <3>2 DEF IInv, Types, PollFinds, Once!Reply
      <4> QED BY <4>1 DEF Once!Next
    <3> QED BY <1>2, <2>2, <3>1, <3>2 DEF IInv, Types, PollFinds
  <2>3. ASSUME NEW c \in Calls, PollTimesOut(c) PROVE Once!Next
    <3>1. Once!Reply(c, "timeout")
      BY <1>2, <2>3 DEF IInv, Types, PollTimesOut, Once!Reply
    <3> QED BY <3>1 DEF Once!Next
  <2>9. ASSUME NEW c \in Calls, PollFails(c) PROVE Once!Next
    <3>1. Once!Reply(c, "error")
      BY <1>2, <2>9 DEF IInv, Types, PollFails, Once!Reply
    <3> QED BY <3>1 DEF Once!Next
  <2>4. ASSUME NEW c \in Calls, NEW toolError \in BOOLEAN, Returned(c, toolError) PROVE Once!Next
    <3>1. c \in asked /\ ran[c] = "none" /\ UNCHANGED router
      BY <1>2, <2>4 DEF IInv, Types, WayInv, Asked, RanInv, Returned
    <3>2. \E v \in {"ok", "error"} : ran' = [ran EXCEPT ![c] = v]
      BY <2>4 DEF Returned
    <3> QED BY <3>1, <3>2 DEF Once!Next, Once!Run
  <2>5. ASSUME UNCHANGED <<router, ran>> PROVE UNCHANGED <<asked, ran, told>>
    BY <2>5
  <2>6. CASE UNCHANGED vars
    BY <2>5, <2>6 DEF vars, dispatchVars
  <2>7. CASE RegistryMoves \/ ReadBatch \/ ReadFails \/ Crash \/ Stop \/ Exit \/ Start
    BY <2>5, <2>7
    DEF RegistryMoves, dispatchVars, ReadBatch, ReadFails, Cancelled, Crash, Stop, Exit, Start
  <2>8. CASE \E c \in Calls : HandlerSteps(c)
    BY <2>4, <2>5, <2>8
    DEF HandlerSteps, TakeSlot, Dispatch, WriteResult, WriteInternalError, Ack
  <2> QED BY <1>2, <2>1, <2>2, <2>3, <2>6, <2>7, <2>8, <2>9 DEF Next
<1> QED BY <1>1, <1>2, DispatchInvariant, PTL DEF Spec, ImplementsOnce, Once!Spec
=============================================================================
