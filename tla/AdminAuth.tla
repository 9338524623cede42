------------------------------ MODULE AdminAuth ------------------------------
(***************************************************************************)
(* The administrator's sign-in: the one-use challenge of the login page,   *)
(* the throttle of failed attempts, the password check, the session rows   *)
(* and `reset-password`, which a second process runs beside the panel.     *)
(*                                                                         *)
(* POST /login awaits nothing after its form, so the event loop runs one   *)
(* such handler at a time; the pages that only read a session run in       *)
(* threads beside it.  One step is one transaction, or the SELECT that     *)
(* pysqlite executes before it opens one: a row that was read may be out   *)
(* of date when it is written.  Services that start with BEGIN IMMEDIATE   *)
(* (challenge, failure, clear) read and write in one step.                 *)
(***************************************************************************)
EXTENDS Integers, Sequences, FiniteSets, FiniteSetsExt

CONSTANTS Clients,       \* addresses behind the gateway
          Gateway,       \* the address of the gateway itself
          Logins,        \* texts typed into the login field
          Requests,      \* threads that serve pages of a signed-in browser
          Window,        \* _DECAY_WINDOW
          MaxDelay,      \* _MAX_DELAY_SECONDS
          Lifetime,      \* of a challenge
          Idle, Absolute,\* idle_duration, absolute_duration of a session
          Outdated,      \* whether the first password hash may be outdated
          MaxTime, MaxPages, MaxAttempts, MaxSessions, MaxResets  \* bounds

ASSUME AuthConstants ==
    /\ MaxTime \in Nat /\ MaxPages \in Nat /\ MaxAttempts \in Nat
    /\ MaxSessions \in Nat /\ MaxResets \in Nat
    /\ Window \in Nat \ {0} /\ MaxDelay \in Nat \ {0} /\ Outdated \subseteq BOOLEAN
    /\ Gateway \notin Clients /\ Logins \subseteq {"admin", "ADMIN", "other"}

\* The constructors refuse other durations.
ChallengeDuration == Lifetime \in Nat \ {0}
SessionDurations == Idle \in Nat \ {0} /\ Absolute \in Nat \ {0} /\ Idle <= Absolute
ASSUME PositiveDurations == ChallengeDuration /\ SessionDurations

VARIABLES
    now,
    \* the tables: the administrator, the sessions in the order of their
    \* creation, the throttle rows, and per time the challenges stored then
    admin, sessions, throttle, pages,
    \* the handler of POST /login, the page threads, the last command
    login, request, command,
    \* history: challenges issued, attempts that spent one, resets committed,
    \* whether the last reset came between the check and the new hash of a
    \* password, and the times of the failures answered to an identity since it
    \* was cleared
    issued, attempts, resets, overtaken, failures

tables == <<admin, sessions, throttle, pages>>
history == <<issued, attempts, resets, overtaken, failures>>
vars == <<now, tables, login, request, command, history>>

Times == 0..MaxTime

\* NFKC, strip and casefold of the text of a login.
Folded(l) == IF l = "ADMIN" THEN "admin" ELSE l
Name(l) == <<"login", Folded(l)>>
Identities == ({"ip"} \X (Clients \cup {Gateway})) \cup {Name(l) : l \in Logins}

NoAdmin == [password |-> 0, version |-> 0, outdated |-> FALSE]
NoRow == [count |-> 0, last |-> 0, blocked |-> 0]

Lasting == Times \cup (0..(MaxTime + Absolute + MaxDelay))
Session == [created : Times, seen : Times, idle : Lasting, absolute : Lasting,
            version : Nat, revoked : BOOLEAN,
            \* history: its password, the resets its version follows, its last
            \* accepted request
            password : Nat, resets : Nat, used : Times]

Free == [pc |-> "idle"]
NoCommand == [pc |-> "idle", ok |-> TRUE, version |-> 0]
Handler == [pc : {"verify", "failed", "page", "write", "clear", "create", "insert"},
            ids : SUBSET Identities, known : BOOLEAN, at : Times, answer : {0, 401, 429},
            password : Nat, outdated : BOOLEAN, version : Nat, resets : Nat]
Serving == [pc : {"write", "revoke"}, session : Nat, at : Times, accepted : BOOLEAN,
            logout : BOOLEAN]

TypeOK ==
    /\ now \in Times
    /\ admin \in [password : Nat, version : Nat, outdated : BOOLEAN]
    /\ Len(sessions) <= MaxSessions /\ \A s \in DOMAIN sessions : sessions[s] \in Session
    /\ throttle \in [Identities -> [count : Nat, last : Times, blocked : Lasting]]
    /\ pages \in [Times -> Nat]
    /\ login \in Handler \cup {Free}
    /\ request \in [Requests -> Serving \cup {Free}]
    /\ command \in [pc : {"idle", "init", "reset", "write"}, ok : BOOLEAN, version : Nat]
    /\ issued \in Nat /\ attempts \in 0..MaxAttempts /\ resets \in 0..MaxResets
    /\ overtaken \in BOOLEAN
    /\ \A i \in Identities : failures[i] \in Seq(Times)

Init ==
    /\ now = 0
    /\ admin = NoAdmin /\ sessions = <<>>
    /\ throttle = [i \in Identities |-> NoRow] /\ pages = [t \in Times |-> 0]
    /\ login = Free /\ request = [r \in Requests |-> Free] /\ command = NoCommand
    /\ issued = 0 /\ attempts = 0 /\ resets = 0 /\ overtaken = FALSE
    /\ failures = [i \in Identities |-> <<>>]

Tick ==
    /\ now < MaxTime
    /\ now' = now + 1
    /\ UNCHANGED <<tables, login, request, command, history>>

-----------------------------------------------------------------------------
(* Where a request comes from and which rows count it.                     *)

\* The peer is always the gateway; it is trusted when one of the configured
\* names resolves to its address, and not while the lookup fails.
IsTrustedProxy(resolved) == resolved

\* The address it forwards, or its own.
ForwardedClient(client, resolved) == IF IsTrustedProxy(resolved) THEN client ELSE Gateway

IdentitiesOf(client, l) == {<<"ip", client>>, Name(l)}

\* The text names the administrator (a login with control characters, or of a
\* wrong length, names nobody).
NormalizeLogin(l) == Folded(l) = "admin"

-----------------------------------------------------------------------------
(* The challenge of the login page.                                        *)

PurgeAll(t) == t < now
Purged(t) == t < now - Lifetime

Issue ==
    /\ pages' = [t \in Times |-> IF t = now THEN pages[t] + 1
                                 ELSE IF Purged(t) THEN 0 ELSE pages[t]]
    /\ issued' = issued + 1

\* GET /login of a browser that is not signed in.
LoginPage ==
    /\ issued - attempts < MaxPages
    /\ Issue
    /\ UNCHANGED <<now, admin, sessions, throttle, login, request, command, attempts, resets,
                   overtaken, failures>>

\* A nonce that is not stored any more is refused.
AnyNonce(t) == TRUE
Stored(t) == pages[t] > 0

\* The stored challenge is deleted whether it has expired or not.
KeepSpent(t) == UNCHANGED pages
Spend(t) == pages' = [pages EXCEPT ![t] = @ - 1]

-----------------------------------------------------------------------------
(* The throttle.                                                           *)

Doubled(count) == Min({MaxDelay, 2 ^ (count - 1)})

DecaysEarly(row, t) ==
    LET count == IF t - row.last >= Window THEN 1 ELSE row.count + 1
    IN  [count |-> count, last |-> t, blocked |-> t + Doubled(count)]
\* The row of one identity after one more failure at time t.
Failure(row, t) ==
    LET count == (IF t - row.last > Window THEN 0 ELSE row.count) + 1
    IN  [count |-> count, last |-> t, blocked |-> t + Doubled(count)]

\* retry_after.
Blocked(ids, t) == \E i \in ids : throttle[i].blocked > t

\* The challenge has not expired.
Fresh(t) == t + Lifetime > now

\* POST /login with the challenge stored at time t; an expired one is answered
\* 403.  retry_after is part of the step: only this handler writes the rows.
LoginPost(client, l, resolved, t) ==
    /\ login = Free
    /\ Stored(t)
    /\ Spend(t)
    /\ IF Fresh(t)
       THEN LET ids == IdentitiesOf(ForwardedClient(client, resolved), l)
                blocked == Blocked(ids, now)
            IN  /\ attempts < MaxAttempts
                /\ attempts' = attempts + 1
                /\ login' = [pc |-> IF blocked THEN "page" ELSE "verify",
                             answer |-> IF blocked THEN 429 ELSE 0,
                             ids |-> ids, known |-> NormalizeLogin(l), at |-> now,
                             password |-> 0, outdated |-> FALSE, version |-> 0, resets |-> 0]
       ELSE UNCHANGED <<attempts, login>>
    /\ UNCHANGED <<now, admin, sessions, throttle, request, command, issued, resets,
                   overtaken, failures>>

RegisterFailure ==
    /\ login.pc = "failed"
    /\ throttle' = [i \in Identities |-> IF i \in login.ids THEN Failure(throttle[i], login.at)
                                         ELSE throttle[i]]
    /\ login' = [login EXCEPT !.pc = "page", !.answer = 401]
    /\ UNCHANGED <<now, admin, sessions, pages, request, command, history>>

Clear ==
    /\ login.pc = "clear"
    /\ throttle' = [i \in Identities |-> IF i \in login.ids THEN NoRow ELSE throttle[i]]
    /\ failures' = [i \in Identities |-> IF i \in login.ids THEN <<>> ELSE failures[i]]
    /\ login' = [login EXCEPT !.pc = "create"]
    /\ UNCHANGED <<now, admin, sessions, pages, request, command, issued, attempts, resets,
                   overtaken>>

\* 401 or 429, with a new challenge.
AnswerPage ==
    /\ login.pc = "page"
    /\ Issue
    /\ failures' = [i \in Identities |-> IF login.answer = 401 /\ i \in login.ids
                                         THEN Append(failures[i], login.at) ELSE failures[i]]
    /\ login' = Free
    /\ UNCHANGED <<now, admin, sessions, throttle, request, command, attempts, resets, overtaken>>

-----------------------------------------------------------------------------
(* The password and the session.                                           *)

\* verify_credentials up to the check of the hash; a dummy hash is checked for
\* a login that is not the administrator's.
VerifyRead(matches) ==
    /\ login.pc = "verify"
    /\ matches => login.known /\ admin # NoAdmin
    /\ login' = IF matches
                THEN [login EXCEPT !.pc = "write", !.password = admin.password,
                                   !.outdated = admin.outdated]
                ELSE [login EXCEPT !.pc = "failed"]
    /\ UNCHANGED <<now, tables, request, command, history>>

\* The columns that changed are written: the hash if it was outdated when read.
WholeRow == [admin EXCEPT !.password = login.password, !.outdated = FALSE]
Rehashed == IF login.outdated THEN [admin EXCEPT !.password = login.password, !.outdated = FALSE]
            ELSE admin

VerifyWrite ==
    /\ login.pc = "write"
    /\ admin' = Rehashed
    /\ login' = [login EXCEPT !.pc = "clear"]
    /\ UNCHANGED <<now, sessions, throttle, pages, request, command, history>>

CreateRead ==
    /\ login.pc = "create"
    /\ login' = [login EXCEPT !.pc = "insert", !.version = admin.version, !.resets = resets]
    /\ UNCHANGED <<now, tables, request, command, history>>

NewSession ==
    [created |-> login.at, seen |-> login.at, absolute |-> login.at + Absolute,
     idle |-> Min({login.at + Idle, login.at + Absolute}),
     version |-> login.version, revoked |-> FALSE,
     password |-> login.password, resets |-> login.resets, used |-> login.at]

\* The session is answered with 303 and its two cookies.
CreateInsert ==
    /\ login.pc = "insert"
    /\ Len(sessions) < MaxSessions
    /\ sessions' = Append(sessions, NewSession)
    /\ login' = Free
    /\ UNCHANGED <<now, admin, throttle, pages, request, command, history>>

\* The handler raises (a locked database: 500) or dies with the process; what
\* its transactions committed stays.
Abort ==
    /\ login # Free
    /\ login' = Free
    /\ UNCHANGED <<now, tables, request, command, history>>

\* authenticate: the decision.
AcceptsAnyVersion(s) == ~s.revoked /\ s.idle > now /\ s.absolute > now
Accepts(s) ==
    /\ ~s.revoked
    /\ s.idle > now /\ s.absolute > now
    /\ s.version = admin.version

Authenticate(r, s, logout) ==
    /\ request[r] = Free
    /\ request' = [request EXCEPT ![r] = [pc |-> "write", session |-> s, at |-> now,
                                          accepted |-> Accepts(sessions[s]), logout |-> logout]]
    /\ sessions' = IF Accepts(sessions[s]) THEN [sessions EXCEPT ![s].used = now] ELSE sessions
    /\ UNCHANGED <<now, admin, throttle, pages, login, command, history>>

\* authenticate: the columns it changes, written when the transaction commits.
ExtendIdle(s, t) == [s EXCEPT !.seen = t, !.idle = t + Idle, !.absolute = t + Absolute]
Extended(s, t) == [s EXCEPT !.seen = t, !.idle = Min({t + Idle, s.absolute})]

AuthenticateWrite(r) ==
    /\ request[r].pc = "write"
    /\ LET q == request[r]
       IN  /\ sessions' = [sessions EXCEPT ![q.session] =
                              IF q.accepted THEN Extended(@, q.at) ELSE [@ EXCEPT !.revoked = TRUE]]
           /\ request' = [request EXCEPT ![r] =
                              IF q.accepted /\ q.logout THEN [q EXCEPT !.pc = "revoke"] ELSE Free]
    /\ UNCHANGED <<now, admin, throttle, pages, login, command, history>>

Revoked(s) == [s EXCEPT !.revoked = TRUE]

\* POST /logout of an accepted session, after its form was awaited.
Revoke(r) ==
    /\ request[r].pc = "revoke"
    /\ sessions' = [sessions EXCEPT ![request[r].session] = Revoked(@)]
    /\ request' = [request EXCEPT ![r] = Free]
    /\ UNCHANGED <<now, admin, throttle, pages, login, command, history>>

-----------------------------------------------------------------------------
(* The commands, one at a time under the operation lock.                   *)

\* A new password may be refused: its length, control characters, the login.
RefusesPassword == {TRUE, FALSE}

\* The exit status is 0, or one that tells the kind of the failure.
Exit(ok) == command' = [NoCommand EXCEPT !.ok = ok]

\* main up to the service: the settings, the migration and the line on standard
\* input may each end the command.
Main(name) ==
    /\ command.pc = "idle"
    /\ name = "reset" => resets < MaxResets
    /\ \/ command' = [NoCommand EXCEPT !.pc = name]
       \/ Exit(FALSE)
    /\ UNCHANGED <<now, tables, login, request, history>>

\* The table holds at most one administrator.
InitAdmin(refused, outdated) ==
    /\ command.pc = "init"
    /\ IF refused \/ admin # NoAdmin
       THEN Exit(FALSE) /\ UNCHANGED admin
       ELSE Exit(TRUE) /\ admin' = [password |-> 1, version |-> 1, outdated |-> outdated]
    /\ UNCHANGED <<now, sessions, throttle, pages, login, request, history>>

ResetRead(refused) ==
    /\ command.pc = "reset"
    /\ IF refused \/ admin = NoAdmin
       THEN Exit(FALSE)
       ELSE command' = [command EXCEPT !.pc = "write", !.version = admin.version]
    /\ UNCHANGED <<now, tables, login, request, history>>

\* The hash, the version and the revocations, in one transaction.
ResetWrite ==
    /\ command.pc = "write"
    /\ admin' = [password |-> resets + 2, version |-> command.version + 1, outdated |-> FALSE]
    /\ sessions' = [s \in DOMAIN sessions |-> [sessions[s] EXCEPT !.revoked = TRUE]]
    /\ resets' = resets + 1
    /\ overtaken' = (login.pc = "write" /\ login.outdated)
    /\ Exit(TRUE)
    /\ UNCHANGED <<now, throttle, pages, login, request, issued, attempts, failures>>

\* The database stayed locked: the transaction is rolled back.
Locked ==
    /\ command.pc \in {"init", "write"}
    /\ Exit(FALSE)
    /\ UNCHANGED <<now, tables, login, request, history>>

Next ==
    \/ Tick \/ LoginPage
    \/ \E c \in Clients, l \in Logins, resolved \in BOOLEAN, t \in Times :
          LoginPost(c, l, resolved, t)
    \/ RegisterFailure \/ Clear \/ AnswerPage
    \/ \E matches \in BOOLEAN : VerifyRead(matches)
    \/ VerifyWrite \/ CreateRead \/ CreateInsert \/ Abort
    \/ \E r \in Requests, s \in DOMAIN sessions, logout \in BOOLEAN : Authenticate(r, s, logout)
    \/ \E r \in Requests : AuthenticateWrite(r) \/ Revoke(r)
    \/ \E name \in {"init", "reset"} : Main(name)
    \/ \E refused \in RefusesPassword :
          ResetRead(refused) \/ \E outdated \in Outdated : InitAdmin(refused, outdated)
    \/ ResetWrite \/ Locked

Spec == Init /\ [][Next]_vars

-----------------------------------------------------------------------------
(* Properties.                                                             *)

\* register_failure, retry_after: between two failures answered to an address,
\* or to a login once it is folded, lies the delay that the failures so far
\* call for: it doubles with each failure that follows the one before within
\* the window, up to the limit, and a success forgets them.
Streak(f, i) == CHOOSE k \in 1..i :
    /\ \A j \in (i - k + 1)..(i - 1) : f[j + 1] - f[j] <= Window
    /\ k = i \/ f[i - k + 1] - f[i - k] > Window
BackoffEnforced ==
    \A id \in Identities : \A i \in 1..(Len(failures[id]) - 1) :
        failures[id][i + 1] - failures[id][i] >= Doubled(Streak(failures[id], i))

\* The rows of the challenge table, numbered within the time they were stored at.
Rows == UNION {{t} \X (1..pages[t]) : t \in Times}

\* consume: a challenge buys one attempt, however pages, answers and aborted
\* handlers interleave: no page is replayed against the password.
OneAttemptPerPage == attempts + Cardinality(Rows) <= issued

\* issue: the purge that one visitor's page triggers never takes away a page
\* another visitor can still submit.
LivePageKept ==
    [][\A t \in Times : t + Lifetime > now /\ pages'[t] < pages[t] =>
          login = Free /\ login' # Free]_vars

\* create, authenticate, reset_password: no session is accepted once a reset
\* was committed after the session's version was read, not even one that was
\* inserted after the reset had revoked the sessions.
SessionsFollowReset ==
    \A s \in DOMAIN sessions : Accepts(sessions[s]) => sessions[s].resets = resets

\* verify_credentials beside reset_password: the password in force is the one
\* set last, whatever login was under way.  One login alone brings the first
\* password back: one that had checked it against an outdated hash when the last
\* reset was committed, and writes its new hash after it.
NewPasswordKept ==
    admin # NoAdmin => admin.password = resets + 1 \/ (overtaken /\ admin.password = 1)

\* authenticate: a session is accepted within Idle of its last accepted request
\* and Absolute of its creation, although its row is rewritten from values read
\* before and by several threads.
SilenceEnds ==
    \A s \in DOMAIN sessions : Accepts(sessions[s]) =>
        now < sessions[s].used + Idle /\ now < sessions[s].created + Absolute

\* reset-password prints that all sessions are ended: no accepted session was
\* granted on a password that has been replaced.
OldPasswordLoggedOut ==
    \A s \in DOMAIN sessions : Accepts(sessions[s]) => sessions[s].password = admin.password
=============================================================================
