------------------------------ MODULE Accounts ------------------------------
(***************************************************************************)
(* ws_gateway/auth.py and user_store.py: accounts, logins and the lock     *)
(* that follows failed logins, with several requests at once.  Every call  *)
(* of MongoDB is an await.                                                 *)
(*                                                                         *)
(* An account has an email; requests spell it in several ways.  The store  *)
(* knows emails in lower case, the count of failures as they are spelled.  *)
(***************************************************************************)
EXTENDS Naturals, FiniteSets

CONSTANTS Requests,
          Emails, Spellings,
          Lower,            \* the email each spelling stands for
          MaxFailedLogins,  \* MAX_FAILURES
          LockoutTime,      \* LOCKOUT_SECONDS
          MaxTime,          \* bound: time
          MaxCount,         \* bound: failures that are counted
          MaxAccounts,      \* bound: documents of the users collection
          MaxRestarts       \* bound: restarts of the gateway

ASSUME AccountsAssumption ==
    /\ Lower \in [Spellings -> Emails] /\ MaxFailedLogins \in Nat \ {0}
    /\ {LockoutTime, MaxTime, MaxCount, MaxAccounts, MaxRestarts} \subseteq Nat

VARIABLES
    accounts,    \* users collection: number of the insert -> email
    failures,    \* _attempts: count and locked_until of each spelling
    time,
    request,     \* what each request is in
    restarts,
    lastFailure, \* history: when a spelling last failed, since its last success
    together     \* history: emails two creations of which overlapped

accountVars == <<accounts, failures, time, request, restarts, lastFailure, together>>

NoAttempts == [count |-> 0, until |-> 0]
NotAsking == [at |-> "none"]
Looking == [at : {"login", "create"}, as : Spellings]
Inserting == [at : {"insert"}, as : Spellings]

AccountsTypeOK ==
    /\ accounts \subseteq (1..MaxAccounts) \X Emails
    /\ failures \in [Spellings -> [count : 0..MaxCount, until : 0..(MaxTime + LockoutTime)]]
    /\ time \in 1..MaxTime /\ restarts \in 0..MaxRestarts
    /\ request \in [Requests -> {NotAsking} \union Looking \union Inserting]
    /\ lastFailure \in [Spellings -> 0..MaxTime] /\ together \subseteq Emails

AccountsInit ==
    /\ accounts = {} /\ failures = [s \in Spellings |-> NoAttempts] /\ time = 1
    /\ request = [r \in Requests |-> NotAsking] /\ restarts = 0
    /\ lastFailure = [s \in Spellings |-> 0] /\ together = {}

ClockTicks ==
    /\ time < MaxTime /\ time' = time + 1
    /\ UNCHANGED <<accounts, failures, request, restarts, lastFailure, together>>

Locked(s) == failures[s].until > time
Known(s) == \E a \in accounts : a[2] = Lower[s]
RequestReturns(r) == request' = [request EXCEPT ![r] = NotAsking]

\* A locked spelling is refused at once; any other login asks the store.
StartLogin(r, s) ==
    /\ request[r] = NotAsking /\ ~Locked(s)
    /\ request' = [request EXCEPT ![r] = [at |-> "login", as |-> s]]
    /\ UNCHANGED <<accounts, failures, time, restarts, lastFailure, together>>

\* Mutant: the lock is not renewed.
RecordOnce(s) ==
    /\ failures' = [failures EXCEPT
                       ![s].count = @ + 1,
                       ![s].until = IF failures[s].count + 1 = MaxFailedLogins
                                    THEN time + LockoutTime ELSE @]
    /\ lastFailure' = [lastFailure EXCEPT ![s] = time]

\* _record_failure: the count only grows, so that after the first lock every failure locks.
RecordFailure(s) ==
    /\ failures' = [failures EXCEPT
                       ![s].count = @ + 1,
                       ![s].until = IF failures[s].count + 1 >= MaxFailedLogins
                                    THEN time + LockoutTime ELSE @]
    /\ lastFailure' = [lastFailure EXCEPT ![s] = time]

\* The account is not known or the password is wrong: the lock set meanwhile by another
\* request is not looked at again.
FailLogin(r) ==
    /\ request[r].at = "login" /\ RequestReturns(r)
    /\ failures[request[r].as].count < MaxCount
    /\ RecordFailure(request[r].as)
    /\ UNCHANGED <<accounts, time, restarts, together>>

PassLogin(r) ==
    /\ request[r].at = "login" /\ Known(request[r].as) /\ RequestReturns(r)
    /\ failures' = [failures EXCEPT ![request[r].as] = NoAttempts]
    /\ lastFailure' = [lastFailure EXCEPT ![request[r].as] = 0]
    /\ UNCHANGED <<accounts, time, restarts, together>>

-----------------------------------------------------------------------------
(* create_user, for an administrator and, on an empty store, at startup:   *)
(* which counts the accounts first, and the lookup decides all the same    *)

Creating(s) == {r \in Requests : request[r].at \in {"create", "insert"}
                                     /\ Lower[request[r].as] = Lower[s]}

StartCreate(r, s) ==
    /\ request[r] = NotAsking /\ Cardinality(accounts) + Cardinality(Requests) <= MaxAccounts
    /\ request' = [request EXCEPT ![r] = [at |-> "create", as |-> s]]
    /\ together' = IF Creating(s) = {} THEN together ELSE together \union {Lower[s]}
    /\ UNCHANGED <<accounts, failures, time, restarts, lastFailure>>

\* Mutant: the email is looked up as it is spelled, and never found.
LookUpSpelling(r) ==
    /\ request[r].at = "create"
    /\ request' = [request EXCEPT ![r] = [at |-> "insert", as |-> request[r].as]]
    /\ UNCHANGED <<accounts, failures, time, restarts, lastFailure, together>>

\* An email that is taken is refused.
LookUpEmail(r) ==
    /\ request[r].at = "create"
    /\ IF Known(request[r].as) THEN RequestReturns(r)
       ELSE request' = [request EXCEPT ![r] = [at |-> "insert", as |-> request[r].as]]
    /\ UNCHANGED <<accounts, failures, time, restarts, lastFailure, together>>

\* Nothing in the store keeps an email unique.
InsertAccount(r) ==
    /\ request[r].at = "insert" /\ RequestReturns(r)
    /\ accounts' = accounts \union {<<Cardinality(accounts) + 1, Lower[request[r].as]>>}
    /\ UNCHANGED <<failures, time, restarts, lastFailure, together>>

\* A call of MongoDB raises: the request ends, and nothing is counted.
RequestRaises(r) ==
    /\ request[r] # NotAsking /\ RequestReturns(r)
    /\ UNCHANGED <<accounts, failures, time, restarts, lastFailure, together>>

\* Failures are kept in memory only.
GatewayRestarts ==
    /\ restarts < MaxRestarts /\ restarts' = restarts + 1
    /\ request' = [r \in Requests |-> NotAsking]
    /\ failures' = [s \in Spellings |-> NoAttempts] /\ lastFailure' = [s \in Spellings |-> 0]
    /\ UNCHANGED <<accounts, time, together>>

AccountsNext ==
    \/ ClockTicks \/ GatewayRestarts
    \/ \E r \in Requests :
           \/ \E s \in Spellings : StartLogin(r, s) \/ StartCreate(r, s)
           \/ FailLogin(r) \/ PassLogin(r) \/ LookUpEmail(r) \/ InsertAccount(r)
           \/ RequestRaises(r)

AccountsSpec == AccountsInit /\ [][AccountsNext]_accountVars

-----------------------------------------------------------------------------
\* Once a spelling has failed MaxFailedLogins times with no success between, it is locked
\* for the whole time after its last failure, however logins overlap; and an email has two
\* accounts only if two creations of it overlapped.
AccountsKept ==
    /\ \A s \in Spellings : failures[s].count >= MaxFailedLogins
                                => failures[s].until = lastFailure[s] + LockoutTime
    /\ \A a, b \in accounts : a[2] = b[2] /\ a # b => a[2] \in together
=============================================================================
