--------------------------- MODULE AdminAuth_proofs ---------------------------
(***************************************************************************)
(* Machine-checked proofs about AdminAuth, for any number of addresses,    *)
(* threads, sessions, attempts and resets and any durations.  The          *)
(* invariant has one part per table; each part is carried through the few  *)
(* steps that write its table, which the lemmas on writers single out.     *)
(***************************************************************************)
EXTENDS AdminAuth, FiniteSetTheorems, TLAPS

-----------------------------------------------------------------------------
(* Powers of two, least values and the delay.                              *)

\* 2^n counts the subsets of a set of n elements.
LEMMA PowerCardinality ==
    ASSUME NEW n \in Nat
    PROVE  IsFiniteSet(SUBSET (1..n)) /\ Cardinality(SUBSET (1..n)) = 2^n
<1>1. IsFiniteSet(1..n) /\ Cardinality(1..n) = n
  BY FS_Interval, SMT
<1> QED BY <1>1, FS_SUBSET

\* Powers of two are numbers, and grow with the exponent.
LEMMA PowerMonotone ==
    ASSUME NEW m \in Nat, NEW n \in Nat, m <= n
    PROVE  2^m \in Nat /\ 2^n \in Nat /\ 2^m <= 2^n
<1>1. SUBSET (1..m) \subseteq SUBSET (1..n)
  BY SMT
<1>2. /\ IsFiniteSet(SUBSET (1..m)) /\ Cardinality(SUBSET (1..m)) = 2^m
      /\ IsFiniteSet(SUBSET (1..n)) /\ Cardinality(SUBSET (1..n)) = 2^n
  BY PowerCardinality
<1>3. Cardinality(SUBSET (1..m)) <= Cardinality(SUBSET (1..n))
  BY <1>1, <1>2, FS_Subset
<1>4. Cardinality(SUBSET (1..m)) \in Nat /\ Cardinality(SUBSET (1..n)) \in Nat
  BY <1>2, FS_CardinalityType
<1> QED BY <1>2, <1>3, <1>4

\* The least of two numbers.
LEMMA Least ==
    ASSUME NEW a \in Int, NEW b \in Int
    PROVE  Min({a, b}) \in {a, b} /\ Min({a, b}) <= a /\ Min({a, b}) <= b
BY SMT DEF Min

\* The delay is limited, and grows with the number of failures.
LEMMA DoubledMonotone ==
    ASSUME NEW m \in Nat \ {0}, NEW n \in Nat \ {0}, m <= n
    PROVE  Doubled(m) \in 0..MaxDelay /\ Doubled(n) \in 0..MaxDelay /\ Doubled(m) <= Doubled(n)
<1>1. 2^(m-1) \in Nat /\ 2^(n-1) \in Nat /\ 2^(m-1) <= 2^(n-1)
  BY PowerMonotone, m - 1 \in Nat, n - 1 \in Nat, m - 1 <= n - 1
<1> DEFINE a == 2^(m-1)  b == 2^(n-1)
<1>2. Doubled(m) = Min({MaxDelay, a}) /\ Doubled(n) = Min({MaxDelay, b})
  BY Zenon DEF Doubled
<1> HIDE DEF a, b
<1>3. a \in Nat /\ b \in Nat /\ a <= b
  BY <1>1, Zenon DEF a, b
<1>4. MaxDelay \in Nat \ {0}
  BY AuthConstants
<1>5. Doubled(m) \in {MaxDelay, a} /\ Doubled(m) <= MaxDelay /\ Doubled(m) <= a
  BY <1>2, <1>3, <1>4, Least, MaxDelay \in Int, a \in Int
<1>6. Doubled(n) \in {MaxDelay, b} /\ Doubled(n) <= MaxDelay /\ Doubled(n) <= b
  BY <1>2, <1>3, <1>4, Least, MaxDelay \in Int, b \in Int
<1> QED BY <1>3, <1>4, <1>5, <1>6, SMT

-----------------------------------------------------------------------------
(* Who writes which variable.                                              *)

\* The steps that write the administrator's row.
LEMMA AdminWriters ==
    [Next]_vars => \/ UNCHANGED admin
                   \/ VerifyWrite \/ ResetWrite
                   \/ \E refused \in RefusesPassword, outdated \in Outdated : InitAdmin(refused, outdated)
BY Zenon DEF Next, vars, tables, history, Tick, LoginPage, LoginPost, RegisterFailure, Clear, AnswerPage,
   VerifyRead, CreateRead, CreateInsert, Abort, Authenticate, AuthenticateWrite, Revoke, Main, ResetRead,
      Locked

\* The steps that write the sessions.
LEMMA SessionWriters ==
    [Next]_vars => \/ UNCHANGED sessions
                   \/ CreateInsert \/ ResetWrite
                   \/ \E r \in Requests, s \in DOMAIN sessions, logout \in BOOLEAN : Authenticate(r, s, logout)
                   \/ \E r \in Requests : AuthenticateWrite(r) \/ Revoke(r)
BY Zenon DEF Next, vars, tables, history, Tick, LoginPage, LoginPost, RegisterFailure, Clear, AnswerPage,
   VerifyRead, VerifyWrite, CreateRead, Abort, Main, InitAdmin, ResetRead, Locked

\* The steps that write the throttle rows.
LEMMA ThrottleWriters == [Next]_vars => UNCHANGED throttle \/ RegisterFailure \/ Clear
BY Zenon DEF Next, vars, tables, history, Tick, LoginPage, LoginPost, AnswerPage, VerifyRead, VerifyWrite,
   CreateRead, CreateInsert, Abort, Authenticate, AuthenticateWrite, Revoke, Main, InitAdmin, ResetRead,
   ResetWrite, Locked

\* The steps that write the challenges and their counters.
LEMMA PageWriters ==
    [Next]_vars => \/ UNCHANGED <<pages, issued, attempts>>
                   \/ LoginPage \/ AnswerPage
                   \/ \E c \in Clients, l \in Logins, resolved \in BOOLEAN, t \in Times :
                          LoginPost(c, l, resolved, t)
BY Zenon DEF Next, vars, tables, history, Tick, RegisterFailure, Clear, VerifyRead, VerifyWrite,
   CreateRead, CreateInsert, Abort, Authenticate, AuthenticateWrite, Revoke, Main, InitAdmin, ResetRead,
   ResetWrite, Locked

\* The steps of the login handler.
LEMMA LoginWriters ==
    [Next]_vars => \/ UNCHANGED login
                   \/ RegisterFailure \/ Clear \/ AnswerPage \/ VerifyWrite \/ CreateRead \/ CreateInsert \/ Abort
                   \/ \E matches \in BOOLEAN : VerifyRead(matches)
                   \/ \E c \in Clients, l \in Logins, resolved \in BOOLEAN, t \in Times :
                          LoginPost(c, l, resolved, t)
BY Zenon DEF Next, vars, Tick, LoginPage, Authenticate, AuthenticateWrite, Revoke, Main, InitAdmin,
   ResetRead, ResetWrite, Locked

\* The steps of the page threads.
LEMMA RequestWriters ==
    [Next]_vars => \/ UNCHANGED request
                   \/ \E r \in Requests, s \in DOMAIN sessions, logout \in BOOLEAN : Authenticate(r, s, logout)
                   \/ \E r \in Requests : AuthenticateWrite(r) \/ Revoke(r)
BY Zenon DEF Next, vars, Tick, LoginPage, LoginPost, RegisterFailure, Clear, AnswerPage, VerifyRead,
   VerifyWrite, CreateRead, CreateInsert, Abort, Main, InitAdmin, ResetRead, ResetWrite, Locked

\* The steps of the commands.
LEMMA CommandWriters ==
    [Next]_vars => \/ UNCHANGED <<command, resets>>
                   \/ ResetWrite \/ Locked
                   \/ \E name \in {"init", "reset"} : Main(name)
                   \/ \E refused \in RefusesPassword :
                          ResetRead(refused) \/ \E outdated \in Outdated : InitAdmin(refused, outdated)
BY Zenon DEF Next, vars, tables, history, Tick, LoginPage, LoginPost, RegisterFailure, Clear, AnswerPage,
   VerifyRead, VerifyWrite, CreateRead, CreateInsert, Abort, Authenticate, AuthenticateWrite, Revoke

\* Only a reset counts as one.
LEMMA ResetWriters == [Next]_vars => UNCHANGED <<resets, overtaken>> \/ ResetWrite
BY Zenon DEF Next, vars, tables, history, Tick, LoginPage, LoginPost, RegisterFailure, Clear, AnswerPage,
   VerifyRead, VerifyWrite, CreateRead, CreateInsert, Abort, Authenticate, AuthenticateWrite, Revoke, Main,
   InitAdmin, ResetRead, Locked

\* The steps that write the history of failures.
LEMMA FailureWriters == [Next]_vars => UNCHANGED failures \/ Clear \/ AnswerPage
BY Zenon DEF Next, vars, tables, history, Tick, LoginPage, LoginPost, RegisterFailure, VerifyRead,
   VerifyWrite,
   CreateRead, CreateInsert, Abort, Authenticate, AuthenticateWrite, Revoke, Main, InitAdmin, ResetRead,
   ResetWrite, Locked

\* Time goes on.
LEMMA Clock == now \in Times /\ [Next]_vars => now' \in Times /\ now' >= now
<1>1. [Next]_vars => UNCHANGED now \/ Tick
  BY Zenon DEF Next, vars, LoginPage, LoginPost, RegisterFailure, Clear, AnswerPage, VerifyRead, VerifyWrite,
     CreateRead, CreateInsert, Abort, Authenticate, AuthenticateWrite, Revoke, Main, InitAdmin, ResetRead,
     ResetWrite, Locked
<1> QED BY <1>1, AuthConstants DEF Tick, Times

-----------------------------------------------------------------------------
(* The administrator's row and the commands.                               *)

AdminRow == [password : Nat, version : Nat, outdated : BOOLEAN]
CommandState == [pc : {"idle", "init", "reset", "write"}, ok : BOOLEAN, version : Nat]

\* The version of the row counts the resets, and a reset that has read the row
\* still finds it as it was.
AdminInv ==
    /\ admin \in AdminRow /\ command \in CommandState /\ resets \in 0..MaxResets
    /\ (admin = NoAdmin /\ resets = 0) \/ admin.version = resets + 1
    /\ command.pc \in {"reset", "write"} => resets < MaxResets
    /\ command.pc = "write" => admin # NoAdmin /\ command.version = admin.version

LoginInv ==
    /\ login \in Handler \cup {Free}
    /\ login # Free => login.at <= now
    /\ login.pc \in {"write", "clear", "create"} => admin # NoAdmin
    /\ login.pc = "insert" => login.version = login.resets + 1

\* The rows that the model writes.
LEMMA AdminRows ==
    /\ NoAdmin \in AdminRow /\ NoAdmin.version = 0
    /\ \A p \in Nat, v \in Nat, o \in BOOLEAN :
          LET a == [password |-> p, version |-> v, outdated |-> o]
          IN  a \in AdminRow /\ a.version = v /\ a.password = p /\ a.outdated = o
    /\ \A a \in AdminRow, p \in Nat :
          LET b == [a EXCEPT !.password = p, !.outdated = FALSE]
          IN  b \in AdminRow /\ b.version = a.version
<1>1. 0 \in Nat
  OBVIOUS
<1> QED BY <1>1, ZenonT(30) DEF NoAdmin, AdminRow

\* The states of a command that the model writes.
LEMMA CommandStates ==
    /\ \A ok \in BOOLEAN : LET c == [NoCommand EXCEPT !.ok = ok]
                           IN  c \in CommandState /\ c.pc = "idle" /\ c.ok = ok
    /\ \A name \in {"init", "reset"} : LET c == [NoCommand EXCEPT !.pc = name]
                                       IN  c \in CommandState /\ c.pc = name
    /\ \A c \in CommandState, v \in Nat : LET d == [c EXCEPT !.pc = "write", !.version = v]
                                          IN  d \in CommandState /\ d.pc = "write" /\ d.version = v
<1>1. 0 \in Nat
  OBVIOUS
<1> QED BY <1>1, ZenonT(30) DEF NoCommand, CommandState

\* A row that exists is never taken away.
LEMMA AdminStays ==
    ASSUME AdminInv, LoginInv, [Next]_vars
    PROVE  /\ admin' \in AdminRow
           /\ admin # NoAdmin => admin' # NoAdmin
           /\ UNCHANGED admin \/ admin'.version = resets' + 1
<1>1. CASE UNCHANGED admin
  BY <1>1, Zenon DEF AdminInv
<1>2. CASE VerifyWrite
  <2>1. login \in Handler /\ admin # NoAdmin /\ resets' = resets
    BY <1>2 DEF VerifyWrite, LoginInv, Free, history
  <2>2. login.password \in Nat
    BY <2>1 DEF Handler
  <2>3. admin' = admin \/ admin' = [admin EXCEPT !.password = login.password, !.outdated = FALSE]
    BY <1>2, Zenon DEF VerifyWrite, Rehashed
  <2>4. admin' \in AdminRow /\ admin'.version = admin.version
    <3>1. admin \in AdminRow
      BY DEF AdminInv
    <3>2. CASE admin' = admin
      BY <3>1, <3>2
    <3>3. CASE admin' = [admin EXCEPT !.password = login.password, !.outdated = FALSE]
      BY <2>2, <3>1, <3>3, AdminRows, Zenon
    <3> QED BY <2>3, <3>2, <3>3
  <2>5. admin.version = resets + 1
    BY <2>1, Zenon DEF AdminInv
  <2>6. admin'.version = resets' + 1 /\ admin'.version # 0
    BY <2>1, <2>4, <2>5, SMT DEF AdminInv
  <2> QED BY <2>4, <2>6, AdminRows, Zenon
<1>3. CASE ResetWrite
  <2>1. resets \in Nat /\ command.version \in Nat /\ command.version = resets + 1
    BY <1>3, AuthConstants, SMT DEF ResetWrite, AdminInv, CommandState
  <2>2. resets + 2 \in Nat /\ command.version + 1 \in Nat
    BY <2>1
  <2>3. admin' \in AdminRow /\ admin'.version = command.version + 1
    BY <1>3, <2>2, AdminRows, Zenon DEF ResetWrite
  <2>4. admin'.version = resets' + 1 /\ admin'.version # 0
    BY <1>3, <2>1, <2>3, SMT DEF ResetWrite
  <2> QED BY <2>3, <2>4, AdminRows, Zenon
<1>4. CASE \E refused \in RefusesPassword, outdated \in Outdated : InitAdmin(refused, outdated)
  <2>1. PICK refused \in RefusesPassword, outdated \in Outdated : InitAdmin(refused, outdated)
    BY <1>4
  <2>2. CASE admin' = admin
    BY <2>2, Zenon DEF AdminInv
  <2>3. CASE admin = NoAdmin /\ admin' = [password |-> 1, version |-> 1, outdated |-> outdated]
    <3>1. admin' \in AdminRow /\ admin'.version = 1
      BY <2>3, AdminRows, AuthConstants, 1 \in Nat, outdated \in BOOLEAN, Zenon
    <3>2. resets = 0
      <4>1. admin.version = 0
        BY <2>3, AdminRows, Zenon
      <4> QED BY <4>1, AuthConstants, SMT DEF AdminInv
    <3>3. resets' = resets
      BY <2>1, Zenon DEF InitAdmin, history
    <3> QED BY <2>3, <3>1, <3>2, <3>3
  <2> QED BY <2>1, <2>2, <2>3, Zenon DEF InitAdmin
<1> QED BY <1>1, <1>2, <1>3, <1>4, AdminWriters, Zenon

\* The row and the commands stay in step.
LEMMA AdminStep ==
    ASSUME AdminInv, LoginInv, [Next]_vars
    PROVE  AdminInv'
<1>0. admin' \in AdminRow /\ (admin # NoAdmin => admin' # NoAdmin) /\ (UNCHANGED admin \/ admin'.version = resets' + 1)
  BY AdminStays
<1>a. (admin = NoAdmin /\ resets = 0) \/ admin.version = resets + 1
  BY DEF AdminInv
<1>b. command \in CommandState /\ resets \in 0..MaxResets /\ MaxResets \in Nat
  BY AuthConstants DEF AdminInv
<1>1. CASE UNCHANGED <<command, resets>>
  <2>1. (admin' = NoAdmin /\ resets' = 0) \/ admin'.version = resets' + 1
    BY <1>0, <1>a, <1>1
  <2>2. command'.pc = "write" => admin' # NoAdmin /\ command'.version = admin'.version
    <3>1. ASSUME command.pc = "write" PROVE admin' # NoAdmin /\ command.version = admin'.version
      BY <1>0, <1>a, <1>1, <3>1 DEF AdminInv
    <3> QED BY <1>1, <3>1
  <2>3. command' \in CommandState /\ resets' \in 0..MaxResets
    BY <1>b, <1>1
  <2>4. command'.pc \in {"reset", "write"} => resets' < MaxResets
    BY <1>1 DEF AdminInv
  <2> QED BY <1>0, <2>1, <2>2, <2>3, <2>4 DEF AdminInv
<1>2. CASE ResetWrite
  <2>1. command' \in CommandState /\ command'.pc = "idle"
    BY <1>2, CommandStates, Zenon DEF ResetWrite, Exit
  <2>2. resets' = resets + 1 /\ resets < MaxResets
    BY <1>2 DEF ResetWrite, AdminInv
  <2>3. resets' \in 0..MaxResets
    BY <1>b, <2>2
  <2>4. admin'.version = resets' + 1
    <3>1. command.version = admin.version /\ admin # NoAdmin
      BY <1>2 DEF ResetWrite, AdminInv
    <3>2. admin'.version = command.version + 1
      BY <1>2, Zenon DEF ResetWrite
    <3> QED BY <1>a, <2>2, <3>1, <3>2
  <2> QED BY <1>0, <2>1, <2>3, <2>4 DEF AdminInv
<1>3. CASE Locked \/ \E name \in {"init", "reset"} : Main(name)
  <2>1. UNCHANGED <<admin, resets>>
    BY <1>3, Zenon DEF Locked, Main, tables, history
  <2>2. /\ command' \in CommandState /\ command'.pc # "write"
        /\ command'.pc = "reset" => resets < MaxResets
    <3>1. Exit(FALSE) => command' \in CommandState /\ command'.pc = "idle"
      BY CommandStates, FALSE \in BOOLEAN, Zenon DEF Exit
    <3>2. ASSUME NEW name \in {"init", "reset"}, Main(name), command' = [NoCommand EXCEPT !.pc = name]
          PROVE  command' \in CommandState /\ command'.pc = name /\ (name = "reset" => resets < MaxResets)
      BY <3>2, CommandStates, Zenon DEF Main
    <3>3. \/ Exit(FALSE)
          \/ \E name \in {"init", "reset"} : Main(name) /\ command' = [NoCommand EXCEPT !.pc = name]
      BY <1>3, Zenon DEF Locked, Main
    <3> QED BY <3>1, <3>2, <3>3
  <2> QED BY <1>a, <1>b, <1>0, <2>1, <2>2 DEF AdminInv
<1>4. ASSUME NEW refused \in RefusesPassword, ResetRead(refused) PROVE AdminInv'
  <2>1. UNCHANGED <<admin, resets>> /\ resets < MaxResets
    BY <1>4, Zenon DEF ResetRead, tables, history, AdminInv
  <2>2. admin.version \in Nat
    BY <1>0, <2>1 DEF AdminRow, AdminInv
  <2>3. /\ command' \in CommandState
        /\ \/ command'.pc = "idle"
           \/ command'.pc = "write" /\ command'.version = admin.version /\ admin # NoAdmin
    <3>1. Exit(FALSE) => command' \in CommandState /\ command'.pc = "idle"
      BY CommandStates, FALSE \in BOOLEAN, Zenon DEF Exit
    <3>2. command' = [command EXCEPT !.pc = "write", !.version = admin.version] =>
              command' \in CommandState /\ command'.pc = "write" /\ command'.version = admin.version
      <4> DEFINE d == [command EXCEPT !.pc = "write", !.version = admin.version]
      <4>1. command \in CommandState
        BY <1>b
      <4>2. d \in CommandState /\ d.pc = "write" /\ d.version = admin.version
        BY <2>2, <4>1, ZenonT(30) DEF CommandState
      <4> HIDE DEF d
      <4>3. command' = d => command' \in CommandState /\ command'.pc = "write" /\ command'.version = admin.version
        BY <4>2
      <4> QED BY <4>3 DEF d
    <3> QED BY <1>4, <3>1, <3>2, Zenon DEF ResetRead
  <2> QED BY <1>0, <1>a, <1>b, <2>1, <2>3 DEF AdminInv
<1>5. ASSUME NEW refused \in RefusesPassword, NEW outdated \in Outdated, InitAdmin(refused, outdated)
      PROVE  AdminInv'
  <2>1. resets' = resets
    BY <1>5, Zenon DEF InitAdmin, history
  <2>2. command' \in CommandState /\ command'.pc = "idle"
    BY <1>5, CommandStates, Zenon DEF InitAdmin, Exit
  <2> QED BY <1>0, <1>a, <1>b, <2>1, <2>2 DEF AdminInv
<1> QED BY <1>1, <1>2, <1>3, <1>4, <1>5, CommandWriters, Zenon

-----------------------------------------------------------------------------
(* The login handler.                                                      *)

\* A handler is not the empty one.
LEMMA HandlerNotFree == \A h \in Handler : h # Free
BY SMT DEF Handler, Free

\* The steps of a handler keep the fields that they do not name.
LEMMA HandlerMoves ==
    ASSUME login \in Handler, NEW q \in {"failed", "clear", "create"}, login' = [login EXCEPT !.pc = q]
    PROVE  /\ login' \in Handler /\ login'.pc = q /\ login'.at = login.at /\ login'.ids = login.ids
           /\ login'.outdated = login.outdated
<1>1. q \in {"verify", "failed", "page", "write", "clear", "create", "insert"}
  OBVIOUS
<1> QED BY <1>1, ZenonT(60) DEF Handler

\* The failure is answered.
LEMMA HandlerAnswers ==
    ASSUME login \in Handler, login' = [login EXCEPT !.pc = "page", !.answer = 401]
    PROVE  login' \in Handler /\ login'.pc = "page" /\ login'.answer = 401 /\ login'.at = login.at /\ login'.ids = login.ids
BY ZenonT(60) DEF Handler

\* The password was right.
LEMMA HandlerReads ==
    ASSUME login \in Handler, NEW p \in Nat, NEW o \in BOOLEAN,
           login' = [login EXCEPT !.pc = "write", !.password = p, !.outdated = o]
    PROVE  login' \in Handler /\ login'.pc = "write" /\ login'.at = login.at /\ login'.outdated = o
BY ZenonT(60) DEF Handler

\* The session is about to be inserted.
LEMMA HandlerInserts ==
    ASSUME login \in Handler, NEW v \in Nat, NEW n \in Nat,
           login' = [login EXCEPT !.pc = "insert", !.version = v, !.resets = n]
    PROVE  login' \in Handler /\ login'.pc = "insert" /\ login'.at = login.at /\ login'.version = v /\ login'.resets = n
BY ZenonT(60) DEF Handler

\* A request names identities, and its handler starts with the time it has now.
LEMMA HandlerStarts ==
    ASSUME now \in Times, NEW c \in Clients, NEW l \in Logins, NEW resolved \in BOOLEAN, NEW t \in Times,
           LoginPost(c, l, resolved, t)
    PROVE  \/ UNCHANGED <<login, attempts>>
           \/ /\ login' \in Handler /\ login'.at = now /\ login'.outdated = FALSE
              /\ attempts < MaxAttempts /\ attempts' = attempts + 1
              /\ \/ login'.pc = "page" /\ login'.answer = 429
                 \/ login'.pc = "verify" /\ \A i \in login'.ids : ~(throttle[i].blocked > now)
<1> DEFINE ids == IdentitiesOf(ForwardedClient(c, resolved), l)
           blocked == Blocked(ids, now)
           h == [pc |-> IF blocked THEN "page" ELSE "verify", answer |-> IF blocked THEN 429 ELSE 0,
                 ids |-> ids, known |-> NormalizeLogin(l), at |-> now,
                 password |-> 0, outdated |-> FALSE, version |-> 0, resets |-> 0]
<1>1. ids \in SUBSET Identities
  BY SMT DEF IdentitiesOf, ForwardedClient, IsTrustedProxy, Identities, Name
<1>2. NormalizeLogin(l) \in BOOLEAN /\ FALSE \in BOOLEAN
  BY Zenon DEF NormalizeLogin
<1>3. ~blocked => \A i \in ids : ~(throttle[i].blocked > now)
  BY Zenon DEF Blocked
<1>4. \/ UNCHANGED <<login, attempts>>
      \/ login' = h /\ attempts < MaxAttempts /\ attempts' = attempts + 1
  BY Zenon DEF LoginPost
<1> HIDE DEF ids, blocked
<1>5. /\ h \in Handler /\ h.at = now /\ h.outdated = FALSE /\ h.ids = ids
      /\ (h.pc = "page" /\ h.answer = 429 /\ blocked) \/ (h.pc = "verify" /\ ~blocked)
  <2>1. CASE blocked
    BY <1>1, <1>2, <2>1, 0 \in Nat, 0 \in {0, 401, 429}, ZenonT(30) DEF Handler
  <2>2. CASE ~blocked
    BY <1>1, <1>2, <2>2, 0 \in Nat, 0 \in {0, 401, 429}, ZenonT(30) DEF Handler
  <2> QED BY <2>1, <2>2
<1> HIDE DEF h
<1> QED BY <1>3, <1>4, <1>5, Zenon

\* What a step may do to the handler.
LoginEffect ==
    \/ login' = login \/ login' = Free
    \/ /\ login' \in Handler /\ login'.at = now /\ login' # login
       /\ \/ login'.pc = "page" /\ login'.answer = 429
          \/ login'.pc = "verify" /\ \A i \in login'.ids : ~(throttle[i].blocked > now)
    \/ /\ login \in Handler /\ login' \in Handler /\ login'.at = login.at
       /\ \/ login.pc = "verify" /\ login'.pc = "failed" /\ login'.ids = login.ids
          \/ login.pc = "verify" /\ login'.pc = "write" /\ admin # NoAdmin
          \/ RegisterFailure /\ login'.pc = "page" /\ login'.answer = 401 /\ login'.ids = login.ids
          \/ login.pc = "write" /\ login'.pc = "clear"
          \/ Clear /\ login'.pc = "create"
          \/ login.pc = "create" /\ login'.pc = "insert" /\ login'.version = admin.version /\ login'.resets = resets

\* Every step has one of these effects.
LEMMA LoginSteps ==
    ASSUME now \in Times, AdminInv, LoginInv, [Next]_vars
    PROVE  LoginEffect
<1>1. CASE UNCHANGED login
  BY <1>1 DEF LoginEffect
<1>2. CASE AnswerPage \/ CreateInsert \/ Abort
  BY <1>2, Zenon DEF AnswerPage, CreateInsert, Abort, LoginEffect
<1>3. ASSUME NEW c \in Clients, NEW l \in Logins, NEW resolved \in BOOLEAN, NEW t \in Times,
             LoginPost(c, l, resolved, t)
      PROVE  LoginEffect
  BY <1>3, HandlerStarts, Zenon DEF LoginEffect
<1>4. login.pc \in {"verify", "failed", "write", "clear", "create"} => login \in Handler
  BY DEF LoginInv, Free
<1>5. admin.password \in Nat /\ admin.outdated \in BOOLEAN /\ admin.version \in Nat
  BY DEF AdminInv, AdminRow
<1>6. CASE RegisterFailure
  <2>1. login \in Handler /\ login' = [login EXCEPT !.pc = "page", !.answer = 401]
    BY <1>4, <1>6, Zenon DEF RegisterFailure
  <2>2. login' \in Handler /\ login'.pc = "page" /\ login'.answer = 401 /\ login'.at = login.at /\ login'.ids = login.ids
    BY <2>1, HandlerAnswers
  <2> QED BY <1>6, <2>1, <2>2, Zenon DEF LoginEffect
<1>7. CASE Clear
  <2>1. login \in Handler /\ login' = [login EXCEPT !.pc = "create"]
    BY <1>4, <1>7, Zenon DEF Clear
  <2>2. login' \in Handler /\ login'.pc = "create" /\ login'.at = login.at
    BY <2>1, HandlerMoves, Zenon
  <2> QED BY <1>7, <2>1, <2>2, Zenon DEF LoginEffect
<1>8. CASE VerifyWrite
  <2>1. login \in Handler /\ login.pc = "write" /\ login' = [login EXCEPT !.pc = "clear"]
    BY <1>4, <1>8, Zenon DEF VerifyWrite
  <2>2. login' \in Handler /\ login'.pc = "clear" /\ login'.at = login.at
    BY <2>1, HandlerMoves, Zenon
  <2> QED BY <2>1, <2>2, Zenon DEF LoginEffect
<1>9. CASE CreateRead
  <2>1. /\ login \in Handler /\ login.pc = "create"
        /\ login' = [login EXCEPT !.pc = "insert", !.version = admin.version, !.resets = resets]
    BY <1>4, <1>9, Zenon DEF CreateRead
  <2>2. resets \in Nat
    BY AuthConstants DEF AdminInv
  <2>3. /\ login' \in Handler /\ login'.pc = "insert" /\ login'.at = login.at
        /\ login'.version = admin.version /\ login'.resets = resets
    BY <1>5, <2>1, <2>2, HandlerInserts
  <2> QED BY <2>1, <2>3, Zenon DEF LoginEffect
<1>10. ASSUME NEW matches \in BOOLEAN, VerifyRead(matches) PROVE LoginEffect
  <2>1. login \in Handler /\ login.pc = "verify"
    BY <1>4, <1>10, Zenon DEF VerifyRead
  <2>2. CASE matches
    <3>1. /\ admin # NoAdmin
          /\ login' = [login EXCEPT !.pc = "write", !.password = admin.password, !.outdated = admin.outdated]
      BY <1>10, <2>2, Zenon DEF VerifyRead
    <3>2. login' \in Handler /\ login'.pc = "write" /\ login'.at = login.at
      BY <1>5, <2>1, <3>1, HandlerReads
    <3> QED BY <2>1, <3>1, <3>2, Zenon DEF LoginEffect
  <2>3. CASE ~matches
    <3>1. login' = [login EXCEPT !.pc = "failed"]
      BY <1>10, <2>3, Zenon DEF VerifyRead
    <3>2. login' \in Handler /\ login'.pc = "failed" /\ login'.at = login.at /\ login'.ids = login.ids
      BY <2>1, <3>1, HandlerMoves, Zenon
    <3> QED BY <2>1, <3>2, Zenon DEF LoginEffect
  <2> QED BY <2>2, <2>3
<1> QED BY <1>1, <1>2, <1>3, <1>6, <1>7, <1>8, <1>9, <1>10, LoginWriters, Zenon

\* The handler keeps what it has learnt.
LEMMA LoginStep ==
    ASSUME now \in Times, AdminInv, LoginInv, [Next]_vars
    PROVE  LoginInv'
<1>1. now' >= now /\ now' \in Int /\ now \in Int
  BY Clock DEF Times
<1>2. admin # NoAdmin => admin' # NoAdmin
  BY AdminStays
<1>3. LoginEffect
  BY LoginSteps
<1>4. (admin = NoAdmin /\ resets = 0) \/ admin.version = resets + 1
  BY DEF AdminInv
<1>5. login' = Free \/ login' \in Handler
  BY <1>3, Zenon DEF LoginEffect, LoginInv
<1>6. login' # Free => login'.at <= now'
  <2>1. \/ login' = Free \/ login'.at = now
        \/ login # Free /\ login'.at = login.at
    BY <1>3, HandlerNotFree, Zenon DEF LoginEffect
  <2>2. login # Free => login.at <= now /\ login.at \in Int
    BY DEF LoginInv, Handler, Times
  <2> QED BY <1>1, <2>1, <2>2, SMT
<1>7. login'.pc \in {"write", "clear", "create"} => admin' # NoAdmin
  <2>1. login'.pc \in {"write", "clear", "create"} => admin # NoAdmin
    BY <1>3, SMT DEF LoginEffect, LoginInv, Free, Clear
  <2> QED BY <1>2, <2>1
<1>8. login'.pc = "insert" => login'.version = login'.resets + 1
  BY <1>3, <1>4, SMT DEF LoginEffect, LoginInv, Free
<1> QED BY <1>5, <1>6, <1>7, <1>8 DEF LoginInv

-----------------------------------------------------------------------------
(* The sessions and the threads that rewrite them.                         *)

\* What a row says of its age: it expires within Idle of its last accepted
\* request and Absolute after its creation; its version counts resets.
Aged(s) ==
    /\ s.version = s.resets + 1
    /\ s.absolute = s.created + Absolute
    /\ s.idle <= s.used + Idle /\ s.used <= now

SessionInv ==
    /\ sessions \in Seq(Session) /\ Len(sessions) <= MaxSessions
    /\ \A i \in 1..Len(sessions) : Aged(sessions[i])

\* A thread has a session at hand, and its time is that of an accepted request.
RequestInv ==
    /\ request \in [Requests -> Serving \cup {Free}]
    /\ \A r \in Requests : request[r] # Free =>
          /\ request[r].session \in 1..Len(sessions)
          /\ request[r].accepted => request[r].at <= sessions[request[r].session].used

UsedAt(s, t) == [s EXCEPT !.used = t]

\* The columns that are never rewritten.
Keeps(u, s) ==
    u.created = s.created /\ u.absolute = s.absolute /\ u.version = s.version /\ u.resets = s.resets

\* The expiry of a session that is extended is a time.
LEMMA Expiry ==
    ASSUME NEW t \in Times, NEW a \in Lasting
    PROVE  Min({t + Idle, a}) \in Lasting /\ Min({t + Idle, a}) <= t + Idle
<1>1. t + Idle \in Lasting /\ t + Idle \in Int /\ a \in Int
  BY AuthConstants, PositiveDurations, SMT DEF Times, Lasting, SessionDurations
<1> QED BY <1>1, Least

\* An accepted request moves the time of the last one, and no other column.
LEMMA RowUsed ==
    ASSUME NEW s \in Session, NEW t \in Times
    PROVE  /\ UsedAt(s, t) \in Session /\ Keeps(UsedAt(s, t), s)
           /\ UsedAt(s, t).used = t /\ UsedAt(s, t).idle = s.idle
BY ZenonT(60) DEF UsedAt, Session, Keeps

\* A revocation touches no time.
LEMMA RowRevoked ==
    ASSUME NEW s \in Session
    PROVE  /\ Revoked(s) \in Session /\ Keeps(Revoked(s), s)
           /\ Revoked(s).used = s.used /\ Revoked(s).idle = s.idle
BY ZenonT(60) DEF Revoked, Session, Keeps

\* An extension never goes beyond Idle.
LEMMA RowExtended ==
    ASSUME NEW s \in Session, NEW t \in Times
    PROVE  /\ Extended(s, t) \in Session /\ Keeps(Extended(s, t), s)
           /\ Extended(s, t).used = s.used /\ Extended(s, t).idle <= t + Idle
<1> DEFINE u == Min({t + Idle, s.absolute})
<1>1. s.absolute \in Lasting
  BY DEF Session
<1>2. u \in Lasting /\ u <= t + Idle
  BY <1>1, Expiry
<1>3. Extended(s, t) = [s EXCEPT !.seen = t, !.idle = u]
  BY Zenon DEF Extended
<1> HIDE DEF u
<1>4. /\ [s EXCEPT !.seen = t, !.idle = u] \in Session /\ Keeps([s EXCEPT !.seen = t, !.idle = u], s)
      /\ [s EXCEPT !.seen = t, !.idle = u].used = s.used /\ [s EXCEPT !.seen = t, !.idle = u].idle = u
  BY <1>2, ZenonT(60) DEF Session, Keeps
<1> QED BY <1>2, <1>3, <1>4, Zenon

\* The session of a sign-in.
LEMMA RowNew ==
    ASSUME now \in Times, login \in Handler, login.at <= now, login.version = login.resets + 1
    PROVE  NewSession \in Session /\ Aged(NewSession)
<1> DEFINE u == Min({login.at + Idle, login.at + Absolute})
           v == login.at + Absolute
<1>1. login.at \in Times /\ login.version \in Nat /\ login.resets \in Nat /\ login.password \in Nat
  BY DEF Handler
<1>2. v \in Lasting
  BY <1>1, AuthConstants, PositiveDurations, SMT DEF Times, Lasting, SessionDurations
<1>3. u \in Lasting /\ u <= login.at + Idle
  BY <1>1, <1>2, Expiry
<1>4. NewSession = [created |-> login.at, seen |-> login.at, absolute |-> v, idle |-> u,
                    version |-> login.version, revoked |-> FALSE,
                    password |-> login.password, resets |-> login.resets, used |-> login.at]
  BY Zenon DEF NewSession
<1>5. v = login.at + Absolute
  OBVIOUS
<1> HIDE DEF u, v
<1>6. NewSession \in Session
  BY <1>1, <1>2, <1>3, <1>4, ZenonT(30) DEF Session
<1>7. /\ NewSession.version = login.version /\ NewSession.resets = login.resets
      /\ NewSession.absolute = v /\ NewSession.created = login.at
      /\ NewSession.idle = u /\ NewSession.used = login.at
  BY <1>4, ZenonT(30)
<1> QED BY <1>3, <1>5, <1>6, <1>7, Zenon DEF Aged

\* Rows are rewritten in place; none loses an accepted request.
Rewritten ==
    /\ sessions' \in Seq(Session) /\ Len(sessions') = Len(sessions)
    /\ \A i \in 1..Len(sessions) :
          /\ Keeps(sessions'[i], sessions[i])
          /\ sessions[i].used <= sessions'[i].used /\ sessions'[i].used <= now
          /\ sessions'[i].idle <= sessions'[i].used + Idle

\* One row is rewritten.
LEMMA RewriteOne ==
    ASSUME SessionInv, NEW k \in 1..Len(sessions), NEW u \in Session, Keeps(u, sessions[k]),
           sessions[k].used <= u.used, u.used <= now, u.idle <= u.used + Idle,
           sessions' = [sessions EXCEPT ![k] = u]
    PROVE  Rewritten
<1>1. /\ sessions' \in Seq(Session) /\ Len(sessions') = Len(sessions)
      /\ \A i \in 1..Len(sessions) : sessions'[i] = IF i = k THEN u ELSE sessions[i]
  BY SMT DEF SessionInv
<1>2. ASSUME NEW i \in 1..Len(sessions), i # k
      PROVE  /\ sessions'[i] = sessions[i] /\ sessions[i].used <= sessions[i].used
             /\ sessions[i].used <= now /\ sessions[i].idle <= sessions[i].used + Idle
  <2>1. sessions[i] \in Session /\ Aged(sessions[i]) /\ sessions'[i] = sessions[i]
    BY <1>1, <1>2 DEF SessionInv
  <2>2. sessions[i].used \in Int
    BY <2>1 DEF Session, Times
  <2> QED BY <2>1, <2>2 DEF Aged
<1> QED BY <1>1, <1>2, Zenon DEF Rewritten, Keeps

\* What a step may do to the sessions.
LEMMA SessionSteps ==
    ASSUME now \in Times, LoginInv, SessionInv, RequestInv, [Next]_vars
    PROVE  \/ sessions' = sessions
           \/ Rewritten
           \/ /\ sessions' = Append(sessions, NewSession) /\ Len(sessions) < MaxSessions
              /\ NewSession \in Session /\ Aged(NewSession)
<1>0. \A i \in 1..Len(sessions) :
          /\ sessions[i] \in Session /\ Aged(sessions[i])
          /\ sessions[i].used \in Int /\ sessions[i].idle \in Int
  <2>1. Times \subseteq Int /\ Lasting \subseteq Int
    BY AuthConstants, PositiveDurations DEF Times, Lasting, SessionDurations
  <2>2. \A s \in Session : s.used \in Times /\ s.idle \in Lasting
    BY DEF Session
  <2>3. \A i \in 1..Len(sessions) : sessions[i] \in Session /\ Aged(sessions[i])
    BY DEF SessionInv
  <2> QED BY <2>1, <2>2, <2>3, Zenon
<1>t. now \in Int /\ Idle \in Int /\ DOMAIN sessions = 1..Len(sessions)
  BY PositiveDurations DEF Times, SessionDurations, SessionInv
<1>1. CASE CreateInsert
  <2>1. /\ login.pc = "insert" /\ Len(sessions) < MaxSessions
        /\ sessions' = Append(sessions, NewSession)
    BY <1>1, Zenon DEF CreateInsert
  <2>2. login \in Handler /\ login.at <= now /\ login.version = login.resets + 1
    BY <2>1 DEF LoginInv, Free
  <2> QED BY <2>1, <2>2, RowNew
<1>2. CASE ResetWrite
  <2>1. sessions' = [s \in 1..Len(sessions) |-> Revoked(sessions[s])]
    BY <1>2, <1>t, Zenon DEF ResetWrite, Revoked
  <2>2. \A i \in 1..Len(sessions) :
            /\ sessions'[i] \in Session /\ Keeps(sessions'[i], sessions[i])
            /\ sessions'[i].used = sessions[i].used /\ sessions'[i].idle = sessions[i].idle
    BY <1>0, <2>1, RowRevoked, Zenon
  <2>3. sessions' \in Seq(Session) /\ Len(sessions') = Len(sessions)
    BY <2>1, <2>2, SMT DEF SessionInv
  <2> QED BY <1>0, <1>t, <2>2, <2>3 DEF Rewritten, Aged
<1>3. ASSUME NEW r \in Requests, NEW s \in DOMAIN sessions, NEW logout \in BOOLEAN, Authenticate(r, s, logout)
      PROVE  sessions' = sessions \/ Rewritten
  <2>1. sessions' = sessions \/ sessions' = [sessions EXCEPT ![s] = UsedAt(sessions[s], now)]
    BY <1>3, Zenon DEF Authenticate, UsedAt
  <2>2. s \in 1..Len(sessions)
    BY <1>t
  <2>3. /\ UsedAt(sessions[s], now) \in Session /\ Keeps(UsedAt(sessions[s], now), sessions[s])
        /\ UsedAt(sessions[s], now).used = now /\ UsedAt(sessions[s], now).idle = sessions[s].idle
    BY <1>0, <2>2, RowUsed
  <2>4. sessions[s].used <= now /\ sessions[s].idle <= now + Idle /\ now <= now
    BY <1>0, <1>t, <2>2 DEF Aged
  <2> QED BY <2>1, <2>2, <2>3, <2>4, RewriteOne, Zenon
<1>4. ASSUME NEW r \in Requests, AuthenticateWrite(r) PROVE Rewritten
  <2> DEFINE q == request[r]  k == q.session
  <2>1. q \in Serving
    BY <1>4 DEF AuthenticateWrite, RequestInv, Free
  <2>2. k \in 1..Len(sessions) /\ (q.accepted => q.at <= sessions[k].used) /\ q.at \in Times
    BY <2>1, SMT DEF RequestInv, Free, Serving
  <2>3. \/ q.accepted /\ sessions' = [sessions EXCEPT ![k] = Extended(sessions[k], q.at)]
        \/ ~q.accepted /\ sessions' = [sessions EXCEPT ![k] = Revoked(sessions[k])]
    BY <1>4, Zenon DEF AuthenticateWrite, Revoked
  <2>a. sessions[k] \in Session /\ Aged(sessions[k]) /\ sessions[k].used \in Int /\ q.at \in Int
    BY <1>0, <2>2 DEF Times
  <2> HIDE DEF k, q
  <2>4. CASE q.accepted /\ sessions' = [sessions EXCEPT ![k] = Extended(sessions[k], q.at)]
    <3>1. /\ Extended(sessions[k], q.at) \in Session /\ Keeps(Extended(sessions[k], q.at), sessions[k])
          /\ Extended(sessions[k], q.at).used = sessions[k].used
          /\ Extended(sessions[k], q.at).idle <= q.at + Idle
      BY <2>2, <2>a, RowExtended
    <3>2. Extended(sessions[k], q.at).idle \in Int
      BY <3>1, AuthConstants, PositiveDurations DEF Session, Lasting, Times, SessionDurations
    <3>3. /\ Extended(sessions[k], q.at).idle <= sessions[k].used + Idle
          /\ sessions[k].used <= now /\ sessions[k].used <= sessions[k].used
      BY <1>t, <2>2, <2>4, <2>a, <3>1, <3>2 DEF Aged
    <3> QED BY <2>2, <2>4, <3>1, <3>3, RewriteOne, Zenon
  <2>5. CASE ~q.accepted /\ sessions' = [sessions EXCEPT ![k] = Revoked(sessions[k])]
    <3>1. /\ Revoked(sessions[k]) \in Session /\ Keeps(Revoked(sessions[k]), sessions[k])
          /\ Revoked(sessions[k]).used = sessions[k].used /\ Revoked(sessions[k]).idle = sessions[k].idle
      BY <2>a, RowRevoked
    <3>2. sessions[k].used <= now /\ sessions[k].idle <= sessions[k].used + Idle /\ sessions[k].used <= sessions[k].used
      BY <2>a DEF Aged
    <3> QED BY <2>2, <2>5, <3>1, <3>2, RewriteOne, Zenon
  <2> QED BY <2>3, <2>4, <2>5
<1>5. ASSUME NEW r \in Requests, Revoke(r) PROVE Rewritten
  <2> DEFINE k == request[r].session
  <2>1. k \in 1..Len(sessions)
    BY <1>5, SMT DEF Revoke, RequestInv, Free
  <2>2. sessions' = [sessions EXCEPT ![k] = Revoked(sessions[k])]
    BY <1>5, Zenon DEF Revoke
  <2> HIDE DEF k
  <2>3. /\ Revoked(sessions[k]) \in Session /\ Keeps(Revoked(sessions[k]), sessions[k])
        /\ Revoked(sessions[k]).used = sessions[k].used /\ Revoked(sessions[k]).idle = sessions[k].idle
    BY <1>0, <2>1, RowRevoked
  <2>4. sessions[k].used <= now /\ sessions[k].idle <= sessions[k].used + Idle /\ sessions[k].used <= sessions[k].used
    BY <1>0, <2>1 DEF Aged
  <2> QED BY <2>1, <2>2, <2>3, <2>4, RewriteOne, Zenon
<1> QED BY <1>1, <1>2, <1>3, <1>4, <1>5, SessionWriters, Zenon

\* No rewriting makes a session last longer than it may.
LEMMA SessionStep ==
    ASSUME now \in Times, LoginInv, SessionInv, RequestInv, [Next]_vars
    PROVE  SessionInv' /\ Len(sessions') >= Len(sessions)
           /\ \A i \in 1..Len(sessions) : sessions[i].used <= sessions'[i].used
<1>1. now' >= now /\ now' \in Int /\ now \in Int /\ MaxSessions \in Int
  BY Clock, AuthConstants DEF Times
<1>2. ASSUME NEW s \in Session, Aged(s) PROVE Aged(s)' /\ s.used <= s.used
  <2>1. s.used \in Int
    BY DEF Session, Times
  <2> QED BY <1>1, <1>2, <2>1 DEF Aged
<1>3. /\ sessions \in Seq(Session) /\ Len(sessions) \in Int
      /\ \A i \in 1..Len(sessions) : sessions[i] \in Session /\ Aged(sessions[i])
  BY DEF SessionInv
<1>4. CASE sessions' = sessions
  <2>1. \A i \in 1..Len(sessions) : sessions[i].used <= sessions[i].used /\ Aged(sessions[i])'
    BY <1>1, <1>2, <1>3, <1>4 DEF Aged
  <2> QED BY <1>3, <1>4, <2>1 DEF SessionInv
<1>5. CASE Rewritten
  <2>1. ASSUME NEW i \in 1..Len(sessions) PROVE Aged(sessions[i])'
    <3>1. sessions'[i] \in Session /\ sessions[i] \in Session /\ Aged(sessions[i])
      BY <1>3, <1>5 DEF Rewritten
    <3>2. sessions'[i].used \in Int /\ sessions'[i].used <= now
      <4>1. sessions'[i].used \in Times
        BY <3>1 DEF Session
      <4> QED BY <1>5, <4>1 DEF Rewritten, Times
    <3> QED BY <1>1, <1>5, <3>1, <3>2 DEF Rewritten, Aged, Keeps
  <2> QED BY <1>3, <1>5, <2>1 DEF SessionInv, Rewritten
<1>6. CASE /\ sessions' = Append(sessions, NewSession) /\ Len(sessions) < MaxSessions
           /\ NewSession \in Session /\ Aged(NewSession)
  <2> DEFINE n == NewSession
  <2> HIDE DEF n
  <2>0. sessions' = Append(sessions, n) /\ Len(sessions) < MaxSessions /\ n \in Session /\ Aged(n)
    BY <1>6 DEF n
  <2>1. /\ sessions' \in Seq(Session) /\ Len(sessions') = Len(sessions) + 1
        /\ \A i \in 1..Len(sessions) : sessions'[i] = sessions[i]
        /\ sessions'[Len(sessions) + 1] = n
    BY <1>3, <2>0
  <2>2. ASSUME NEW i \in 1..Len(sessions') PROVE Aged(sessions[i])'
    <3>1. sessions'[i] \in Session /\ Aged(sessions'[i])
      BY <1>3, <2>0, <2>1
    <3> QED BY <1>1, <3>1 DEF Aged, Session, Times
  <2>3. \A i \in 1..Len(sessions) : sessions[i].used <= sessions'[i].used
    BY <1>2, <1>3, <2>1
  <2> QED BY <1>1, <1>3, <2>0, <2>1, <2>2, <2>3 DEF SessionInv
<1> QED BY <1>4, <1>5, <1>6, SessionSteps

\* A thread that starts, and one that goes on to revoke.
LEMMA Serves ==
    ASSUME NEW k \in Nat, now \in Times, NEW a \in BOOLEAN, NEW o \in BOOLEAN
    PROVE  LET q == [pc |-> "write", session |-> k, at |-> now, accepted |-> a, logout |-> o]
           IN  q \in Serving /\ q.session = k /\ q.at = now /\ q.accepted = a
BY ZenonT(30) DEF Serving

\* The thread keeps its session and its time.
LEMMA ServesOn ==
    ASSUME NEW q \in Serving
    PROVE  LET p == [q EXCEPT !.pc = "revoke"]
           IN  p \in Serving /\ p.session = q.session /\ p.at = q.at /\ p.accepted = q.accepted
BY ZenonT(30) DEF Serving

\* A thread never carries a time that is later than the last accepted request
\* of its session.
LEMMA RequestStep ==
    ASSUME now \in Times, LoginInv, SessionInv, RequestInv, [Next]_vars
    PROVE  RequestInv'
<1> DEFINE Fits(q) == q # Free => /\ q.session \in 1..Len(sessions')
                                  /\ q.accepted => q.at <= sessions'[q.session].used
           Sound == /\ request' \in [Requests -> Serving \cup {Free}]
                    /\ \A x \in Requests : Fits(request'[x])
<1>1. /\ SessionInv' /\ Len(sessions') >= Len(sessions)
      /\ \A i \in 1..Len(sessions) : sessions[i].used <= sessions'[i].used
  BY SessionStep
<1>2. /\ \A i \in 1..Len(sessions) : sessions[i].used \in Int
      /\ \A i \in 1..Len(sessions') : sessions'[i].used \in Int
      /\ now \in Int /\ DOMAIN sessions = 1..Len(sessions)
      /\ Len(sessions) \in Nat /\ Len(sessions') \in Nat
  <2>1. \A s \in Session : s.used \in Int
    BY DEF Session, Times
  <2> QED BY <1>1, <2>1 DEF SessionInv, Times
<1>3. ASSUME NEW r \in Requests PROVE request[r] \in Serving \cup {Free} /\ Fits(request[r])
  <2>1. request[r] \in Serving \cup {Free}
    BY DEF RequestInv
  <2>2. CASE request[r] = Free
    BY <2>1, <2>2
  <2>3. CASE request[r] # Free
    <3>1. /\ request[r].session \in 1..Len(sessions)
          /\ request[r].accepted => request[r].at <= sessions[request[r].session].used
      BY <2>3 DEF RequestInv
    <3>2. request[r].at \in Int
      BY <2>1, <2>3 DEF Serving, Times
    <3>3. request[r].accepted => request[r].at <= sessions'[request[r].session].used
      <4> DEFINE k == request[r].session  a == request[r].at
      <4>1. k \in 1..Len(sessions) /\ k \in 1..Len(sessions') /\ a \in Int
        BY <1>1, <1>2, <3>1, <3>2
      <4>2. sessions[k].used <= sessions'[k].used /\ sessions[k].used \in Int /\ sessions'[k].used \in Int
        BY <1>1, <1>2, <4>1, Zenon
      <4> QED BY <3>1, <4>1, <4>2
    <3> QED BY <1>1, <1>2, <2>1, <3>1, <3>3
  <2> QED BY <2>2, <2>3
<1> HIDE DEF Fits
<1>4. ASSUME NEW r \in Requests, NEW q \in Serving \cup {Free}, Fits(q), request' = [request EXCEPT ![r] = q]
      PROVE  Sound
  BY <1>3, <1>4, Zenon DEF RequestInv
<1>5. Fits(Free)
  BY DEF Fits
<1>6. Sound
  <2>1. CASE UNCHANGED request
    BY <1>3, <2>1, Zenon DEF RequestInv
  <2>2. ASSUME NEW r \in Requests, NEW s \in DOMAIN sessions, NEW logout \in BOOLEAN, Authenticate(r, s,
     logout)
        PROVE  Sound
    <3> DEFINE q == [pc |-> "write", session |-> s, at |-> now, accepted |-> Accepts(sessions[s]), logout |-> logout]
    <3>1. s \in Nat /\ s \in 1..Len(sessions) /\ s \in 1..Len(sessions')
      BY <1>1, <1>2
    <3>2. Accepts(sessions[s]) \in BOOLEAN
      BY Zenon DEF Accepts
    <3>3. q \in Serving /\ q.session = s /\ q.at = now /\ q.accepted = Accepts(sessions[s])
      BY <3>1, <3>2, Serves
    <3>4. ASSUME Accepts(sessions[s]) PROVE now <= sessions'[s].used
      <4>1. sessions' = [sessions EXCEPT ![s] = UsedAt(sessions[s], now)]
        BY <2>2, <3>4, Zenon DEF Authenticate, UsedAt
      <4>2. sessions[s] \in Session
        BY <3>1 DEF SessionInv
      <4>3. sessions'[s].used = now
        BY <4>1, <4>2, <3>1, <1>2, RowUsed, Zenon
      <4> QED BY <1>2, <4>3
    <3>5. request' = [request EXCEPT ![r] = q]
      BY <2>2, Zenon DEF Authenticate
    <3> HIDE DEF q
    <3>6. Fits(q)
      BY <3>1, <3>3, <3>4, Zenon DEF Fits
    <3> QED BY <1>4, <3>3, <3>5, <3>6
  <2>3. ASSUME NEW r \in Requests, AuthenticateWrite(r) PROVE Sound
    <3> DEFINE q == request[r]  p == [q EXCEPT !.pc = "revoke"]
    <3>1. q \in Serving
      BY <2>3 DEF AuthenticateWrite, RequestInv, Free
    <3>2. Fits(q)
      BY <1>3
    <3>3. request' = [request EXCEPT ![r] = p] \/ request' = [request EXCEPT ![r] = Free]
      BY <2>3, Zenon DEF AuthenticateWrite
    <3>4. p \in Serving /\ p.session = q.session /\ p.at = q.at /\ p.accepted = q.accepted
      BY <3>1, ServesOn
    <3>5. q # Free
      BY <2>3 DEF AuthenticateWrite, Free
    <3> HIDE DEF q, p
    <3>6. Fits(p)
      BY <3>2, <3>4, <3>5, Zenon DEF Fits
    <3> QED BY <1>4, <1>5, <3>3, <3>4, <3>6, Zenon
  <2>4. ASSUME NEW r \in Requests, Revoke(r) PROVE Sound
    <3>1. request' = [request EXCEPT ![r] = Free]
      BY <2>4, Zenon DEF Revoke
    <3> QED BY <1>4, <1>5, <3>1, Zenon
  <2> QED BY <2>1, <2>2, <2>3, <2>4, RequestWriters, Zenon
<1> QED BY <1>6, Zenon DEF Fits, RequestInv

-----------------------------------------------------------------------------
(* The challenges.                                                         *)

PageInv ==
    /\ pages \in [Times -> Nat] /\ issued \in Nat /\ attempts \in 0..MaxAttempts
    /\ IsFiniteSet(Rows) /\ OneAttemptPerPage

\* The table has a row for each challenge that is stored.
LEMMA RowsMembers ==
    \A x : x \in Rows <=> \E t \in Times : \E k \in 1..pages[t] : x = <<t, k>>
BY SMT DEF Rows

\* A new page adds one row, and may purge others.
LEMMA IssueStep ==
    ASSUME now \in Times, PageInv, Issue, UNCHANGED attempts
    PROVE  PageInv'
<1> DEFINE new == <<now, pages[now] + 1>>
<1>1. pages' \in [Times -> Nat] /\ issued' = issued + 1 /\ issued' \in Nat
  BY SMT DEF PageInv, Issue
<1>2. Rows' \subseteq Rows \cup {new}
  <2>1. \A x : x \in Rows' <=> \E t \in Times : \E k \in 1..pages'[t] : x = <<t, k>>
    BY SMT DEF Rows
  <2>2. ASSUME NEW t \in Times, NEW k \in 1..pages'[t] PROVE k \in 1..pages[t] \/ (t = now /\ k = pages[now] + 1)
    BY <2>2, SMT DEF PageInv, Issue
  <2> QED BY <2>1, <2>2, RowsMembers, Zenon
<1> HIDE DEF new
<1>3. IsFiniteSet(Rows) /\ Cardinality(Rows) \in Nat
  BY FS_CardinalityType DEF PageInv
<1>4. /\ IsFiniteSet(Rows \cup {new})
      /\ Cardinality(Rows \cup {new}) <= Cardinality(Rows) + 1
  <2>1. /\ IsFiniteSet(Rows \cup {new})
        /\ Cardinality(Rows \cup {new}) = IF new \in Rows THEN Cardinality(Rows) ELSE Cardinality(Rows) + 1
    BY <1>3, FS_AddElement, Zenon
  <2> QED BY <1>3, <2>1
<1>5. /\ IsFiniteSet(Rows') /\ Cardinality(Rows') <= Cardinality(Rows \cup {new})
      /\ Cardinality(Rows') \in Nat /\ Cardinality(Rows \cup {new}) \in Nat
  BY <1>2, <1>4, FS_Subset, FS_CardinalityType
<1>6. attempts \in Int /\ attempts' = attempts
  BY DEF PageInv
<1>7. attempts + Cardinality(Rows) <= issued /\ issued \in Int
  BY DEF PageInv, OneAttemptPerPage
<1>8. attempts' + Cardinality(Rows') <= issued'
  BY <1>1, <1>3, <1>4, <1>5, <1>6, <1>7
<1> QED BY <1>1, <1>5, <1>8 DEF PageInv, OneAttemptPerPage

\* A challenge that is spent is one row less.
LEMMA SpendStep ==
    ASSUME PageInv, NEW t \in Times, Stored(t), Spend(t), UNCHANGED issued,
           attempts' = attempts \/ (attempts < MaxAttempts /\ attempts' = attempts + 1)
    PROVE  PageInv'
<1> DEFINE old == <<t, pages[t]>>
<1>1. pages' \in [Times -> Nat] /\ attempts' \in 0..MaxAttempts
  BY AuthConstants, SMT DEF PageInv, Stored, Spend
<1>2. old \in Rows /\ Rows' \subseteq Rows \ {old}
  <2>1. \A x : x \in Rows' <=> \E u \in Times : \E k \in 1..pages'[u] : x = <<u, k>>
    BY SMT DEF Rows
  <2>2. ASSUME NEW u \in Times, NEW k \in 1..pages'[u] PROVE k \in 1..pages[u] /\ <<u, k>> # old
    BY <2>2, SMT DEF PageInv, Spend
  <2>3. pages[t] \in 1..pages[t]
    BY SMT DEF PageInv, Stored
  <2> QED BY <2>1, <2>2, <2>3, RowsMembers, Zenon
<1> HIDE DEF old
<1>3. IsFiniteSet(Rows) /\ Cardinality(Rows) \in Nat
  BY FS_CardinalityType DEF PageInv
<1>4. /\ IsFiniteSet(Rows \ {old})
      /\ Cardinality(Rows \ {old}) = Cardinality(Rows) - 1
  BY <1>2, <1>3, FS_RemoveElement
<1>5. /\ IsFiniteSet(Rows') /\ Cardinality(Rows') <= Cardinality(Rows \ {old})
      /\ Cardinality(Rows') \in Nat /\ Cardinality(Rows \ {old}) \in Nat
  BY <1>2, <1>4, FS_Subset, FS_CardinalityType
<1>6. attempts \in Int /\ attempts' <= attempts + 1 /\ attempts' \in Int
  BY DEF PageInv
<1>7. attempts + Cardinality(Rows) <= issued /\ issued \in Int
  BY DEF PageInv, OneAttemptPerPage
<1>8. attempts' + Cardinality(Rows') <= issued'
  BY <1>3, <1>4, <1>5, <1>6, <1>7
<1>9. issued' \in Nat
  BY DEF PageInv
<1> QED BY <1>1, <1>5, <1>8, <1>9 DEF PageInv, OneAttemptPerPage

\* No step makes an attempt without a challenge.
LEMMA PageStep ==
    ASSUME now \in Times, PageInv, [Next]_vars
    PROVE  PageInv'
<1>1. CASE UNCHANGED <<pages, issued, attempts>>
  <2>1. Rows' = Rows
    BY <1>1, Zenon DEF Rows
  <2> QED BY <1>1, <2>1 DEF PageInv, OneAttemptPerPage
<1>2. CASE LoginPage \/ AnswerPage
  <2>1. Issue /\ UNCHANGED attempts
    BY <1>2, Zenon DEF LoginPage, AnswerPage
  <2> QED BY <2>1, IssueStep
<1>3. ASSUME NEW c \in Clients, NEW l \in Logins, NEW resolved \in BOOLEAN, NEW t \in Times,
             LoginPost(c, l, resolved, t)
      PROVE  PageInv'
  <2>1. /\ Stored(t) /\ Spend(t) /\ UNCHANGED issued
        /\ attempts' = attempts \/ (attempts < MaxAttempts /\ attempts' = attempts + 1)
    BY <1>3, Zenon DEF LoginPost
  <2> QED BY <2>1, SpendStep
<1> QED BY <1>1, <1>2, <1>3, PageWriters, Zenon

-----------------------------------------------------------------------------
(* The throttle: one identity.                                             *)

Row == [count : Nat, last : Times, blocked : Lasting]

\* k failures up to the i-th follow each other within the window.
IsStreak(f, i, k) ==
    /\ k \in 1..i
    /\ \A j \in (i - k + 1)..(i - 1) : f[j + 1] - f[j] <= Window
    /\ k = i \/ f[i - k + 1] - f[i - k] > Window

\* Every failure ends a streak, and the next one waited for it.
Chained(f) == \A i \in 1..Len(f) : \E k \in 1..i : IsStreak(f, i, k)
Waited(f) == \A i \in 1..(Len(f) - 1) : f[i + 1] - f[i] >= Doubled(Streak(f, i))

\* The row remembers at least what the answered failures call for.
Counted(row, f) ==
    Len(f) > 0 =>
        /\ f[Len(f)] <= row.last
        /\ f[Len(f)] + Doubled(Streak(f, Len(f))) <= row.blocked
        /\ row.last - f[Len(f)] <= Window => Streak(f, Len(f)) <= row.count

\* The row counts a failure at time t that is not answered yet.
Pending(row, f, t) ==
    /\ row.last = t /\ row.count \in Nat \ {0} /\ t + Doubled(row.count) <= row.blocked
    /\ Len(f) > 0 =>
          /\ Doubled(Streak(f, Len(f))) <= t - f[Len(f)]
          /\ t - f[Len(f)] <= Window => Streak(f, Len(f)) + 1 <= row.count

\* There is one streak that ends with a failure, and Streak is its length.
LEMMA StreakIs ==
    ASSUME NEW f \in Seq(Times), NEW i \in 1..Len(f), NEW k \in 1..i, IsStreak(f, i, k)
    PROVE  Streak(f, i) = k
<1> DEFINE P(m) == /\ \A j \in (i - m + 1)..(i - 1) : f[j + 1] - f[j] <= Window
                   /\ m = i \/ f[i - m + 1] - f[i - m] > Window
<1>1. \E m \in 1..i : P(m)
  BY DEF IsStreak
<1>2. Streak(f, i) \in 1..i /\ P(Streak(f, i))
  <2>1. Streak(f, i) = CHOOSE m \in 1..i : P(m)
    BY Zenon DEF Streak
  <2> HIDE DEF P
  <2> QED BY <1>1, <2>1, Zenon
<1>3. IsStreak(f, i, Streak(f, i))
  BY <1>2 DEF IsStreak
<1>4. ASSUME NEW m \in 1..i, NEW n \in 1..i, IsStreak(f, i, m), IsStreak(f, i, n), m < n PROVE FALSE
  <2>1. i \in Int /\ m \in Int /\ n \in Int
    OBVIOUS
  <2>2. f[i - m + 1] - f[i - m] > Window
    BY <1>4, <2>1 DEF IsStreak
  <2>3. i - m \in (i - n + 1)..(i - 1)
    BY <1>4, <2>1
  <2>4. f[(i - m) + 1] - f[i - m] <= Window
    BY <1>4, <2>3 DEF IsStreak
  <2>5. i - m + 1 \in 1..Len(f) /\ i - m \in 1..Len(f)
    BY <1>4, <2>1
  <2>6. f[i - m + 1] \in Int /\ f[i - m] \in Int
    <3>1. \A j \in 1..Len(f) : f[j] \in Times
      OBVIOUS
    <3>2. Times \subseteq Int
      BY DEF Times
    <3> QED BY <2>5, <3>1, <3>2, Zenon
  <2> QED BY <2>2, <2>4, <2>6, AuthConstants
<1> QED BY <1>2, <1>3, <1>4

\* A streak that exists is a number.
LEMMA StreakType ==
    ASSUME NEW f \in Seq(Times), Chained(f), NEW i \in 1..Len(f)
    PROVE  Streak(f, i) \in 1..i /\ IsStreak(f, i, Streak(f, i))
BY StreakIs DEF Chained

\* A further failure leaves the earlier streaks alone, and continues the last
\* one or starts its own.
LEMMA StreakAppend ==
    ASSUME NEW f \in Seq(Times), Chained(f), NEW t \in Times
    PROVE  /\ Append(f, t) \in Seq(Times) /\ Chained(Append(f, t))
           /\ \A i \in 1..Len(f) : Streak(Append(f, t), i) = Streak(f, i)
           /\ Streak(Append(f, t), Len(f) + 1) =
                 IF Len(f) > 0 /\ t - f[Len(f)] <= Window THEN Streak(f, Len(f)) + 1 ELSE 1
<1> DEFINE g == Append(f, t)  n == Len(f)
<1>1. /\ g \in Seq(Times) /\ Len(g) = n + 1 /\ n \in Nat /\ g[n + 1] = t
      /\ \A i \in 1..n : g[i] = f[i] /\ f[i] \in Times
  OBVIOUS
<1> HIDE DEF g
<1>2. ASSUME NEW i \in 1..n PROVE Streak(g, i) = Streak(f, i) /\ IsStreak(g, i, Streak(f, i))
  <2>1. Streak(f, i) \in 1..i /\ IsStreak(f, i, Streak(f, i))
    BY StreakType
  <2>2. IsStreak(g, i, Streak(f, i))
    <3> DEFINE k == Streak(f, i)
    <3>1. k \in 1..i /\ IsStreak(f, i, k)
      BY <2>1
    <3> HIDE DEF k
    <3>2. IsStreak(g, i, k)
      BY <1>1, <3>1, SMTT(20) DEF IsStreak
    <3> QED BY <3>2 DEF k
  <2>3. i \in 1..Len(g)
    BY <1>1
  <2> QED BY <1>1, <2>1, <2>2, <2>3, StreakIs
<1>3. ASSUME n > 0, t - f[n] <= Window
      PROVE  Streak(f, n) + 1 \in 1..(n + 1) /\ IsStreak(g, n + 1, Streak(f, n) + 1)
  <2> DEFINE k == Streak(f, n)
  <2>1. k \in 1..n /\ IsStreak(f, n, k)
    BY <1>1, <1>3, StreakType
  <2> HIDE DEF k
  <2>2. IsStreak(g, n + 1, k + 1)
    <3>1. k \in Int /\ n \in Int /\ k + 1 \in 1..(n + 1)
      BY <1>1, <2>1
    <3>2. ASSUME NEW j \in (n + 1 - (k + 1) + 1)..(n + 1 - 1) PROVE g[j + 1] - g[j] <= Window
      <4>1. CASE j = n
        BY <1>1, <1>3, <4>1
      <4>2. CASE j # n
        <5>1. j \in (n - k + 1)..(n - 1) /\ j \in 1..n /\ j + 1 \in 1..n
          BY <2>1, <3>1, <3>2, <4>2
        <5>2. f[j + 1] - f[j] <= Window
          BY <2>1, <5>1 DEF IsStreak
        <5> QED BY <1>1, <5>1, <5>2
      <4> QED BY <4>1, <4>2
    <3>3. k + 1 = n + 1 \/ g[n + 1 - (k + 1) + 1] - g[n + 1 - (k + 1)] > Window
      <4>1. CASE k = n
        BY <4>1
      <4>2. CASE k # n
        <5>1. n - k \in 1..n /\ n - k + 1 \in 1..n
          BY <2>1, <3>1, <4>2
        <5>2. f[n - k + 1] - f[n - k] > Window
          BY <2>1, <4>2 DEF IsStreak
        <5>3. n + 1 - (k + 1) = n - k
          BY <3>1
        <5> QED BY <1>1, <5>1, <5>2, <5>3
      <4> QED BY <4>1, <4>2
    <3> QED BY <3>1, <3>2, <3>3 DEF IsStreak
  <2>3. k + 1 \in 1..(n + 1)
    BY <1>1, <2>1
  <2> QED BY <2>2, <2>3 DEF k
<1>4. ASSUME n = 0 \/ ~(t - f[n] <= Window)
      PROVE  IsStreak(g, n + 1, 1)
  <2>1. CASE n = 0
    BY <1>1, <2>1, SMT DEF IsStreak
  <2>2. CASE n > 0 /\ ~(t - f[n] <= Window)
    <3>1. t \in Int /\ f[n] \in Int /\ Window \in Int /\ g[n] = f[n]
      BY <1>1, <2>2, AuthConstants DEF Times
    <3>2. g[n + 1] - g[n] > Window
      BY <1>1, <2>2, <3>1
    <3>3. (n + 1) - 1 + 1 = n + 1 /\ (n + 1) - 1 = n /\ 1 \in 1..(n + 1)
      BY <1>1
    <3> QED BY <3>2, <3>3 DEF IsStreak
  <2> QED BY <1>1, <1>4, <2>1, <2>2
<1>5. n + 1 \in 1..Len(g)
  BY <1>1
<1>6. /\ Streak(g, n + 1) = IF n > 0 /\ t - f[n] <= Window THEN Streak(f, n) + 1 ELSE 1
      /\ \E k \in 1..(n + 1) : IsStreak(g, n + 1, k)
  <2>1. CASE n > 0 /\ t - f[n] <= Window
    BY <1>1, <1>3, <1>5, <2>1, StreakIs
  <2>2. CASE ~(n > 0 /\ t - f[n] <= Window)
    <3>1. IsStreak(g, n + 1, 1) /\ 1 \in 1..(n + 1)
      BY <1>1, <1>4, <2>2
    <3> QED BY <1>1, <1>5, <2>2, <3>1, StreakIs
  <2> QED BY <2>1, <2>2
<1>7. Chained(g)
  <2>1. ASSUME NEW i \in 1..n PROVE \E k \in 1..i : IsStreak(g, i, k)
    BY <1>2, StreakType
  <2> QED BY <1>1, <1>6, <2>1 DEF Chained
<1> QED BY <1>1, <1>2, <1>6, <1>7 DEF g

\* The delays that streaks and rows call for are within the limit.
LEMMA DoubledType == \A n \in Nat \ {0} : Doubled(n) \in 0..MaxDelay /\ Doubled(n) \in Int
<1> TAKE n \in Nat \ {0}
<1>1. n <= n
  OBVIOUS
<1> QED BY <1>1, DoubledMonotone

\* The row after one more failure.
LEMMA FailureRow ==
    ASSUME NEW row \in Row, NEW t \in Times
    PROVE  /\ Failure(row, t) \in Row /\ Failure(row, t).last = t
           /\ Failure(row, t).count = (IF t - row.last > Window THEN 0 ELSE row.count) + 1
           /\ Failure(row, t).blocked = t + Doubled(Failure(row, t).count)
<1> DEFINE c == (IF t - row.last > Window THEN 0 ELSE row.count) + 1
           b == t + Doubled(c)
<1>1. row.count \in Nat
  BY DEF Row
<1>2. c \in Nat \ {0}
  BY <1>1
<1>3. Doubled(c) \in 0..MaxDelay
  BY <1>2, DoubledType
<1>4. b \in Lasting
  BY <1>3, AuthConstants, PositiveDurations DEF Lasting, Times, SessionDurations
<1>5. Failure(row, t) = [count |-> c, last |-> t, blocked |-> b]
  BY Zenon DEF Failure
<1>6. b = t + Doubled(c)
  OBVIOUS
<1>7. c = (IF t - row.last > Window THEN 0 ELSE row.count) + 1
  OBVIOUS
<1> HIDE DEF b, c
<1>8. Failure(row, t) \in Row /\ Failure(row, t).last = t /\ Failure(row, t).count = c /\ Failure(row, t).blocked = b
  BY <1>2, <1>4, <1>5 DEF Row
<1> QED BY <1>6, <1>7, <1>8, Zenon

\* A failure that is let through is counted on top of the answered ones.
LEMMA CountFailure ==
    ASSUME NEW row \in Row, NEW f \in Seq(Times), NEW t \in Times, Chained(f), Counted(row, f),
           row.last <= row.blocked, row.blocked <= t
    PROVE  /\ Counted(Failure(row, t), f) /\ Pending(Failure(row, t), f, t)
           /\ Failure(row, t).last <= Failure(row, t).blocked
<1> DEFINE u == Failure(row, t)  n == Len(f)
<1>1. /\ u.last = t /\ u.count = (IF t - row.last > Window THEN 0 ELSE row.count) + 1
      /\ u.blocked = t + Doubled(u.count) /\ u \in Row
  BY FailureRow
<1>2. row.count \in Nat /\ row.last \in Int /\ row.blocked \in Int /\ t \in Int
  BY AuthConstants, PositiveDurations DEF Row, Times, Lasting, SessionDurations
<1>3. u.count \in Nat \ {0}
  BY <1>1, <1>2
<1>4. Doubled(u.count) \in 0..MaxDelay
  BY <1>3, DoubledType
<1> HIDE DEF u
<1>5. u.last <= u.blocked
  BY <1>1, <1>2, <1>4
<1>6. ASSUME n > 0
      PROVE  /\ f[n] <= u.last /\ f[n] + Doubled(Streak(f, n)) <= u.blocked
             /\ u.last - f[n] <= Window => Streak(f, n) + 1 <= u.count
             /\ Doubled(Streak(f, n)) <= t - f[n]
             /\ Streak(f, n) \in Int
  <2>1. n \in 1..Len(f)
    BY <1>6
  <2>2. Streak(f, n) \in Nat \ {0} /\ f[n] \in Times
    BY <2>1, StreakType
  <2>3. Doubled(Streak(f, n)) \in Int /\ f[n] \in Int /\ Window \in Int
    BY <2>2, DoubledType, AuthConstants DEF Times
  <2>4. /\ f[n] <= row.last /\ f[n] + Doubled(Streak(f, n)) <= row.blocked
        /\ row.last - f[n] <= Window => Streak(f, n) <= row.count
    BY <1>6 DEF Counted
  <2> HIDE DEF n
  <2>5. Doubled(Streak(f, n)) >= 0
    BY <2>2, DoubledType
  <2>6. f[n] <= t /\ f[n] + Doubled(Streak(f, n)) <= t + Doubled(u.count) /\ Doubled(Streak(f, n)) <= t - f[n]
    BY <1>2, <1>4, <2>3, <2>4, <2>5, AuthConstants, SMT
  <2>7. t - f[n] <= Window => Streak(f, n) + 1 <= u.count
    <3>1. t - f[n] <= Window => ~(t - row.last > Window) /\ row.last - f[n] <= Window
      BY <1>2, <2>3, <2>4, SMT
    <3>2. ~(t - row.last > Window) => u.count = row.count + 1
      BY <1>1
    <3> QED BY <1>2, <2>2, <2>4, <3>1, <3>2, SMT
  <2> QED BY <1>1, <2>2, <2>6, <2>7
<1>7. Counted(u, f)
  BY <1>3, <1>6 DEF Counted
<1>8. Pending(u, f, t)
  <2>1. t + Doubled(u.count) <= u.blocked
    BY <1>1, <1>2, <1>4
  <2> QED BY <1>1, <1>3, <1>6, <2>1 DEF Pending
<1> QED BY <1>5, <1>7, <1>8 DEF u

\* Its answer is one more failure, and it waited for the ones before.
LEMMA AnswerFailure ==
    ASSUME NEW row \in Row, NEW f \in Seq(Times), NEW t \in Times, Chained(f), Waited(f),
           Pending(row, f, t)
    PROVE  /\ Append(f, t) \in Seq(Times) /\ Chained(Append(f, t)) /\ Waited(Append(f, t))
           /\ Counted(row, Append(f, t))
<1> DEFINE g == Append(f, t)  n == Len(f)
<1>1. /\ g \in Seq(Times) /\ Len(g) = n + 1 /\ n \in Nat /\ g[n + 1] = t
      /\ \A i \in 1..n : g[i] = f[i] /\ f[i] \in Times
  OBVIOUS
<1>2. /\ Chained(g) /\ \A i \in 1..n : Streak(g, i) = Streak(f, i)
      /\ Streak(g, n + 1) = IF n > 0 /\ t - f[n] <= Window THEN Streak(f, n) + 1 ELSE 1
  BY StreakAppend
<1> HIDE DEF g
<1>3. Waited(g)
  <2>1. ASSUME NEW i \in 1..(Len(g) - 1) PROVE g[i + 1] - g[i] >= Doubled(Streak(g, i))
    <3>1. i \in 1..n /\ Streak(g, i) = Streak(f, i) /\ g[i] = f[i]
      BY <1>1, <1>2
    <3>2. CASE i = n
      <4>1. Doubled(Streak(f, n)) <= t - f[n]
        BY <1>1, <3>1, <3>2 DEF Pending
      <4>2. Streak(f, n) \in Nat \ {0} /\ f[n] \in Times
        BY <1>1, <3>1, <3>2, StreakType
      <4>3. Doubled(Streak(f, n)) \in Int /\ f[n] \in Int /\ t \in Int
        BY <4>2, DoubledType DEF Times
      <4> QED BY <1>1, <3>1, <3>2, <4>1, <4>3
    <3>3. CASE i # n
      <4>1. i \in 1..(Len(f) - 1) /\ i + 1 \in 1..n
        BY <1>1, <3>1, <3>3
      <4>2. f[i + 1] - f[i] >= Doubled(Streak(f, i))
        BY <4>1 DEF Waited
      <4> QED BY <1>1, <3>1, <4>1, <4>2
    <3> QED BY <3>2, <3>3
  <2> QED BY <2>1 DEF Waited
<1>4. Streak(g, n + 1) \in Nat \ {0} /\ Streak(g, n + 1) <= row.count /\ row.count \in Nat \ {0}
  <2>1. CASE n > 0 /\ t - f[n] <= Window
    <3>1. Streak(f, n) \in Nat \ {0} /\ Streak(f, n) + 1 <= row.count
      BY <1>1, <2>1, StreakType DEF Pending
    <3> QED BY <1>2, <2>1, <3>1 DEF Pending
  <2>2. CASE ~(n > 0 /\ t - f[n] <= Window)
    BY <1>2, <2>2 DEF Pending
  <2> QED BY <2>1, <2>2
<1>5. Doubled(Streak(g, n + 1)) <= Doubled(row.count)
      /\ Doubled(Streak(g, n + 1)) \in Int /\ Doubled(row.count) \in Int
  BY <1>4, DoubledMonotone, DoubledType
<1>6. Counted(row, g)
  <2>1. row.last = t /\ t + Doubled(row.count) <= row.blocked /\ t \in Int /\ row.blocked \in Int
    BY AuthConstants, PositiveDurations DEF Pending, Times, Row, Lasting, SessionDurations
  <2>2. t + Doubled(Streak(g, n + 1)) <= row.blocked
    BY <1>5, <2>1
  <2> QED BY <1>1, <1>4, <2>1, <2>2 DEF Counted
<1> QED BY <1>1, <1>2, <1>3, <1>6 DEF g

-----------------------------------------------------------------------------
(* The throttle: the table and the login handler.                          *)

ThrottleInv ==
    /\ throttle \in [Identities -> Row] /\ failures \in [Identities -> Seq(Times)]
    /\ \A i \in Identities :
          /\ Chained(failures[i]) /\ Waited(failures[i])
          /\ Counted(throttle[i], failures[i]) /\ throttle[i].last <= throttle[i].blocked
    /\ login.pc \in {"verify", "failed"} => \A i \in login.ids : throttle[i].blocked <= login.at
    /\ login.pc = "page" /\ login.answer = 401 =>
          \A i \in login.ids : Pending(throttle[i], failures[i], login.at)

\* Nothing was answered to a new identity.
LEMMA EmptyHistory ==
    /\ NoRow \in Row /\ NoRow.last <= NoRow.blocked
    /\ <<>> \in Seq(Times) /\ Chained(<<>>) /\ Waited(<<>>) /\ Counted(NoRow, <<>>)
<1>1. NoRow \in Row /\ NoRow.last <= NoRow.blocked
  BY AuthConstants, PositiveDurations DEF NoRow, Row, Times, Lasting, SessionDurations
<1>2. <<>> \in Seq(Times) /\ Len(<<>>) = 0
  OBVIOUS
<1> QED BY <1>1, <1>2, SMT DEF Chained, Waited, Counted

\* register_failure.
LEMMA RegisterStep ==
    ASSUME LoginInv, LoginEffect, ThrottleInv, RegisterFailure
    PROVE  ThrottleInv'
<1>1. login \in Handler /\ login.pc = "failed" /\ login.ids \subseteq Identities /\ login.at \in Times
  BY DEF RegisterFailure, LoginInv, Free, Handler
<1>2. UNCHANGED failures /\ throttle' = [i \in Identities |-> IF i \in login.ids THEN Failure(throttle[i], login.at)
                                                              ELSE throttle[i]]
  BY Zenon DEF RegisterFailure, history
<1>3. login'.pc = "page" /\ login'.answer = 401 /\ login'.at = login.at /\ login'.ids = login.ids
  BY <1>1, HandlerAnswers DEF RegisterFailure
<1>4. ASSUME NEW i \in Identities
      PROVE  /\ throttle[i] \in Row /\ failures[i] \in Seq(Times) /\ Chained(failures[i]) /\ Waited(failures[i])
             /\ Counted(throttle[i], failures[i]) /\ throttle[i].last <= throttle[i].blocked
  BY DEF ThrottleInv
<1>5. \A i \in login.ids : throttle[i].blocked <= login.at
  BY <1>1 DEF ThrottleInv
<1>6. ASSUME NEW i \in login.ids
      PROVE  /\ throttle'[i] = Failure(throttle[i], login.at) /\ Failure(throttle[i], login.at) \in Row
             /\ Counted(Failure(throttle[i], login.at), failures[i])
             /\ Pending(Failure(throttle[i], login.at), failures[i], login.at)
             /\ Failure(throttle[i], login.at).last <= Failure(throttle[i], login.at).blocked
  <2>1. i \in Identities
    BY <1>1
  <2>2. throttle'[i] = Failure(throttle[i], login.at)
    BY <1>2, <2>1, Zenon
  <2> QED BY <1>1, <1>4, <1>5, <2>1, <2>2, CountFailure, FailureRow
<1>7. ASSUME NEW i \in Identities
      PROVE  /\ throttle'[i] \in Row /\ Counted(throttle'[i], failures'[i])
             /\ throttle'[i].last <= throttle'[i].blocked
  <2>1. CASE i \in login.ids
    BY <1>2, <1>6, <2>1, Zenon
  <2>2. CASE i \notin login.ids
    <3>1. throttle'[i] = throttle[i]
      BY <1>2, <2>2, Zenon
    <3> QED BY <1>2, <1>4, <3>1, Zenon
  <2> QED BY <2>1, <2>2
<1>8. throttle' \in [Identities -> Row]
  BY <1>2, <1>7, Zenon
<1>9. \A i \in login.ids : Pending(throttle'[i], failures'[i], login.at)
  BY <1>2, <1>6, Zenon
<1>10. failures' \in [Identities -> Seq(Times)]
  BY <1>2, Zenon DEF ThrottleInv
<1>11. \A i \in Identities : Chained(failures'[i]) /\ Waited(failures'[i])
  BY <1>2, <1>4, Zenon
<1> QED BY <1>3, <1>7, <1>8, <1>9, <1>10, <1>11 DEF ThrottleInv

\* clear.
LEMMA ClearStep ==
    ASSUME LoginInv, LoginEffect, ThrottleInv, Clear
    PROVE  ThrottleInv'
<1>1. login \in Handler
  BY DEF Clear, LoginInv, Free
<1>2. login'.pc = "create"
  BY <1>1, HandlerMoves DEF Clear
<1>3. ASSUME NEW i \in Identities
      PROVE  \/ throttle'[i] = NoRow /\ failures'[i] = <<>>
             \/ throttle'[i] = throttle[i] /\ failures'[i] = failures[i]
  BY <1>3, Zenon DEF Clear
<1>4. ASSUME NEW i \in Identities
      PROVE  /\ throttle'[i] \in Row /\ failures'[i] \in Seq(Times)
             /\ Chained(failures'[i]) /\ Waited(failures'[i])
             /\ Counted(throttle'[i], failures'[i]) /\ throttle'[i].last <= throttle'[i].blocked
  <2>1. CASE throttle'[i] = NoRow /\ failures'[i] = <<>>
    BY <2>1, EmptyHistory, Zenon
  <2>2. CASE throttle'[i] = throttle[i] /\ failures'[i] = failures[i]
    <3>1. throttle[i] \in Row /\ failures[i] \in Seq(Times)
      BY DEF ThrottleInv
    <3> QED BY <2>2, <3>1, Zenon DEF ThrottleInv
  <2> QED BY <1>3, <2>1, <2>2
<1>5. throttle' \in [Identities -> Row] /\ failures' \in [Identities -> Seq(Times)]
  BY <1>4, Zenon DEF Clear
<1> QED BY <1>2, <1>4, <1>5, Zenon DEF ThrottleInv

\* The answer that tells of the failure.
LEMMA AnswerStep ==
    ASSUME LoginInv, ThrottleInv, AnswerPage
    PROVE  ThrottleInv'
<1>1. login' = Free /\ UNCHANGED throttle
  BY Zenon DEF AnswerPage
<1>2. login'.pc = "idle"
  BY <1>1 DEF Free
<1>3. login.pc = "page" /\ login \in Handler /\ login.at \in Times
  BY DEF AnswerPage, LoginInv, Free, Handler
<1>4. ASSUME NEW i \in Identities
      PROVE  \/ failures'[i] = failures[i]
             \/ failures'[i] = Append(failures[i], login.at) /\ Pending(throttle[i], failures[i], login.at)
  BY <1>3, <1>4, Zenon DEF AnswerPage, ThrottleInv
<1>5. ASSUME NEW i \in Identities
      PROVE  /\ failures'[i] \in Seq(Times) /\ Chained(failures'[i]) /\ Waited(failures'[i])
             /\ Counted(throttle[i], failures'[i]) /\ throttle[i].last <= throttle[i].blocked
  <2>1. /\ throttle[i] \in Row /\ failures[i] \in Seq(Times) /\ Chained(failures[i]) /\ Waited(failures[i])
        /\ Counted(throttle[i], failures[i]) /\ throttle[i].last <= throttle[i].blocked
    BY DEF ThrottleInv
  <2>2. CASE failures'[i] = failures[i]
    BY <2>1, <2>2, Zenon
  <2>3. CASE failures'[i] = Append(failures[i], login.at) /\ Pending(throttle[i], failures[i], login.at)
    <3>1. /\ Append(failures[i], login.at) \in Seq(Times) /\ Chained(Append(failures[i], login.at))
          /\ Waited(Append(failures[i], login.at)) /\ Counted(throttle[i], Append(failures[i], login.at))
      BY <1>3, <2>1, <2>3, AnswerFailure
    <3> QED BY <2>1, <2>3, <3>1, Zenon
  <2> QED BY <1>4, <2>2, <2>3
<1>6. failures' \in [Identities -> Seq(Times)]
  BY <1>5, Zenon DEF AnswerPage
<1>7. throttle' \in [Identities -> Row]
  BY <1>1, Zenon DEF ThrottleInv
<1> QED BY <1>1, <1>2, <1>5, <1>6, <1>7, Zenon DEF ThrottleInv

\* The throttle stays ahead of the failures it answers.
LEMMA ThrottleStep ==
    ASSUME now \in Times, AdminInv, LoginInv, ThrottleInv, [Next]_vars
    PROVE  ThrottleInv'
<1>1. LoginEffect
  BY LoginSteps
<1>2. CASE RegisterFailure
  BY <1>1, <1>2, RegisterStep
<1>3. CASE Clear
  BY <1>1, <1>3, ClearStep
<1>4. CASE AnswerPage
  BY <1>4, AnswerStep
<1>5. CASE UNCHANGED throttle /\ UNCHANGED failures /\ ~RegisterFailure /\ ~Clear
  <2>1. login'.pc \in {"verify", "failed"} => \A i \in login'.ids : throttle'[i].blocked <= login'.at
    <3>1. CASE login' = login
      BY <1>5, <3>1, Zenon DEF ThrottleInv
    <3>2. CASE login' = Free
      BY <3>2 DEF Free
    <3>3. CASE /\ login' \in Handler /\ login'.at = now
               /\ \/ login'.pc = "page"
                  \/ login'.pc = "verify" /\ \A i \in login'.ids : ~(throttle[i].blocked > now)
      <4>1. login'.ids \subseteq Identities
        BY <3>3 DEF Handler
      <4>2. \A i \in Identities : throttle[i].blocked \in Int
        BY AuthConstants, PositiveDurations DEF ThrottleInv, Row, Lasting, Times, SessionDurations
      <4>3. now \in Int
        BY DEF Times
      <4> QED BY <1>5, <3>3, <4>1, <4>2, <4>3
    <3>4. CASE login.pc = "verify" /\ login'.pc = "failed" /\ login'.ids = login.ids /\ login'.at = login.at
      BY <1>5, <3>4 DEF ThrottleInv
    <3>5. CASE login'.pc \in {"write", "clear", "insert"}
      BY <3>5
    <3> QED BY <1>1, <1>5, <3>1, <3>2, <3>3, <3>4, <3>5, Zenon DEF LoginEffect
  <2>2. login'.pc = "page" /\ login'.answer = 401 => login' = login
    BY <1>1, <1>5, SMT DEF LoginEffect, Free
  <2> QED BY <1>5, <2>1, <2>2, Zenon DEF ThrottleInv
<1> QED BY <1>2, <1>3, <1>4, <1>5, ThrottleWriters, FailureWriters, Zenon

-----------------------------------------------------------------------------
(* The invariant and its consequences.                                     *)

AInv ==
    now \in Times /\ AdminInv /\ LoginInv /\ SessionInv /\ RequestInv /\ PageInv /\ ThrottleInv

\* Nobody is registered and nobody has tried.
LEMMA AInit == Init => AInv
<1> SUFFICES ASSUME Init PROVE AInv
  OBVIOUS
<1>1. now \in Times
  BY AuthConstants DEF Init, Times
<1>2. AdminInv
  <2>1. NoCommand \in CommandState /\ NoCommand.pc = "idle"
    BY 0 \in Nat, Zenon DEF NoCommand, CommandState
  <2>2. admin = NoAdmin /\ command = NoCommand /\ resets = 0
    BY Zenon DEF Init
  <2>3. admin \in AdminRow /\ command \in CommandState /\ command.pc = "idle"
    BY <2>1, <2>2, AdminRows, Zenon
  <2>4. resets \in 0..MaxResets
    BY <2>2, AuthConstants
  <2> QED BY <2>2, <2>3, <2>4 DEF AdminInv
<1>3. LoginInv
  BY DEF Init, LoginInv, Free
<1>4. SessionInv
  BY AuthConstants DEF Init, SessionInv
<1>5. RequestInv
  BY Zenon DEF Init, RequestInv
<1>6. PageInv
  <2>1. Rows = {}
    BY SMT DEF Init, Rows
  <2>2. IsFiniteSet(Rows) /\ Cardinality(Rows) = 0
    BY <2>1, FS_EmptySet, Zenon
  <2> QED BY <2>2, AuthConstants DEF Init, PageInv, OneAttemptPerPage
<1>7. ThrottleInv
  <2>1. login.pc = "idle"
    BY DEF Init, Free
  <2>2. \A i \in Identities : throttle[i] = NoRow /\ failures[i] = <<>>
    BY Zenon DEF Init
  <2>3. throttle \in [Identities -> Row] /\ failures \in [Identities -> Seq(Times)]
    BY EmptyHistory, Zenon DEF Init
  <2> QED BY <2>1, <2>2, <2>3, EmptyHistory, Zenon DEF ThrottleInv
<1> QED BY <1>1, <1>2, <1>3, <1>4, <1>5, <1>6, <1>7 DEF AInv

\* Each part follows from the parts before the step.
LEMMA ANext == AInv /\ [Next]_vars => AInv'
<1> SUFFICES ASSUME AInv, [Next]_vars PROVE AInv'
  OBVIOUS
<1> USE DEF AInv
<1>1. (now \in Times)'
  BY Clock
<1> QED BY <1>1, AdminStep, LoginStep, SessionStep, RequestStep, PageStep, ThrottleStep

\* The tables and the handlers hold what their columns and variables may hold.
THEOREM AuthTypeCorrect == Spec => []TypeOK
<1>1. AInv /\ overtaken \in BOOLEAN => TypeOK
  <2> SUFFICES ASSUME AInv, overtaken \in BOOLEAN PROVE TypeOK
    OBVIOUS
  <2>1. Len(sessions) <= MaxSessions /\ \A s \in DOMAIN sessions : sessions[s] \in Session
    BY DEF AInv, SessionInv
  <2>2. \A i \in Identities : failures[i] \in Seq(Times)
    BY Zenon DEF AInv, ThrottleInv
  <2> QED BY <2>1, <2>2, Zenon DEF AInv, AdminInv, AdminRow, CommandState, LoginInv, RequestInv, PageInv,
              ThrottleInv, Row, TypeOK
<1>2. Init => overtaken \in BOOLEAN
  BY Zenon DEF Init
<1>3. overtaken \in BOOLEAN /\ [Next]_vars => (overtaken \in BOOLEAN)'
  BY ResetWriters, Zenon DEF ResetWrite
<1> QED BY <1>1, <1>2, <1>3, AInit, ANext, PTL DEF Spec

\* Failures are never answered faster than the doubling delay allows, to an
\* address or to a login, aborted handlers and resets of the count included
\* (register_failure, retry_after).
THEOREM BackoffAlwaysEnforced == Spec => []BackoffEnforced
<1>1. AInv => BackoffEnforced
  BY Zenon DEF AInv, ThrottleInv, Waited, BackoffEnforced
<1> QED BY <1>1, AInit, ANext, PTL DEF Spec

\* A challenge buys one attempt at most (issue, consume).
THEOREM AttemptsAreBought == Spec => []OneAttemptPerPage
<1>1. AInv => OneAttemptPerPage
  BY DEF AInv, PageInv
<1> QED BY <1>1, AInit, ANext, PTL DEF Spec

\* No session outlives a reset committed after its version was read (create,
\* authenticate, reset_password).
THEOREM ResetEndsSessions == Spec => []SessionsFollowReset
<1>1. AInv => SessionsFollowReset
  <2> SUFFICES ASSUME AInv, NEW s \in DOMAIN sessions, Accepts(sessions[s])
               PROVE  sessions[s].resets = resets
    BY DEF SessionsFollowReset
  <2>1. sessions[s] \in Session /\ sessions[s].version = sessions[s].resets + 1
    BY DEF AInv, SessionInv, Aged
  <2>2. sessions[s].version = admin.version
    BY DEF Accepts
  <2>3. sessions[s].resets \in Nat /\ resets \in Nat
    BY <2>1, AuthConstants DEF Session, AInv, AdminInv
  <2>4. (admin = NoAdmin /\ resets = 0) \/ admin.version = resets + 1
    BY DEF AInv, AdminInv
  <2>5. admin = NoAdmin => admin.version = 0
    BY AdminRows, Zenon
  <2> QED BY <2>1, <2>2, <2>3, <2>4, <2>5
<1> QED BY <1>1, AInit, ANext, PTL DEF Spec

\* A session is accepted within Idle of its last accepted request and Absolute
\* of its creation, however many threads rewrite its row (authenticate).
THEOREM SessionsExpire == Spec => []SilenceEnds
<1>1. AInv => SilenceEnds
  <2> SUFFICES ASSUME AInv, NEW s \in DOMAIN sessions, Accepts(sessions[s])
               PROVE  now < sessions[s].used + Idle /\ now < sessions[s].created + Absolute
    BY DEF SilenceEnds
  <2>1. /\ sessions[s] \in Session /\ sessions[s].idle <= sessions[s].used + Idle
        /\ sessions[s].absolute = sessions[s].created + Absolute
    BY DEF AInv, SessionInv, Aged
  <2>2. sessions[s].used \in Times /\ sessions[s].idle \in Lasting /\ sessions[s].created \in Times
    BY <2>1 DEF Session
  <2>3. now \in Int /\ sessions[s].idle \in Int /\ sessions[s].used \in Int /\ Idle \in Int
    BY <2>2, AuthConstants, PositiveDurations DEF AInv, Times, Lasting, SessionDurations
  <2>4. sessions[s].idle > now /\ sessions[s].absolute > now
    BY DEF Accepts
  <2> QED BY <2>1, <2>2, <2>3, <2>4, PositiveDurations DEF SessionDurations, Times
<1> QED BY <1>1, AInit, ANext, PTL DEF Spec

\* Only a sign-in takes a page away that can still be submitted (issue).
THEOREM PagesAreKept == Spec => LivePageKept
<1>1. AInv /\ [Next]_vars =>
          [\A t \in Times : t + Lifetime > now /\ pages'[t] < pages[t] => login = Free /\ login' # Free]_vars
  <2> SUFFICES ASSUME AInv, [Next]_vars, NEW t \in Times, t + Lifetime > now, pages'[t] < pages[t]
               PROVE  login = Free /\ login' # Free
    BY Zenon
  <2>1. now \in Int /\ pages[t] \in Nat /\ pages \in [Times -> Nat] /\ now \in Times /\ Lifetime \in Nat /\ t \in Int
    BY PositiveDurations DEF AInv, PageInv, Times, ChallengeDuration
  <2>2. CASE UNCHANGED <<pages, issued, attempts>>
    BY <2>1, <2>2
  <2>3. CASE LoginPage \/ AnswerPage
    <3>1. Issue
      BY <2>3, Zenon DEF LoginPage, AnswerPage
    <3> QED BY <2>1, <3>1, SMT DEF Issue, Purged
  <2>4. ASSUME NEW c \in Clients, NEW l \in Logins, NEW resolved \in BOOLEAN, NEW u \in Times,
               LoginPost(c, l, resolved, u)
        PROVE  login = Free /\ login' # Free
    <3>1. login = Free /\ pages' = [pages EXCEPT ![u] = @ - 1]
      BY <2>4, Zenon DEF LoginPost, Spend
    <3>2. u = t
      BY <2>1, <3>1, SMT
    <3>3. Fresh(u)
      BY <3>2 DEF Fresh
    <3>4. attempts' = attempts + 1
      BY <2>4, <3>3, Zenon DEF LoginPost
    <3>5. attempts' # attempts
      BY <3>4 DEF AInv, PageInv
    <3>6. login' \in Handler
      BY <2>1, <2>4, <3>5, HandlerStarts, Zenon
    <3> QED BY <3>1, <3>6, HandlerNotFree
  <2> QED BY <2>2, <2>3, <2>4, PageWriters, Zenon
<1> QED BY <1>1, AInit, ANext, PTL DEF Spec, LivePageKept

-----------------------------------------------------------------------------
(* The password.                                                           *)

\* Only the first hash may be outdated.  A login that has checked its password
\* against it still finds it in force, or was overtaken by the last reset.
PasswordInv ==
    /\ admin.outdated => admin.password = 1 /\ resets = 0
    /\ login.pc = "write" /\ login.outdated => login.password = 1 /\ (resets = 0 \/ overtaken)
    /\ NewPasswordKept

\* The check of a password reads the row; no other step leads to the write.
LEMMA CheckReads ==
    ASSUME AInv, [Next]_vars, login'.pc = "write"
    PROVE  UNCHANGED login \/ (login'.password = admin.password /\ login'.outdated = admin.outdated)
<1>1. CASE AnswerPage \/ CreateInsert \/ Abort
  <2>1. login' = Free
    BY <1>1, Zenon DEF AnswerPage, CreateInsert, Abort
  <2> QED BY <2>1 DEF Free
<1>2. ASSUME NEW c \in Clients, NEW l \in Logins, NEW resolved \in BOOLEAN, NEW t \in Times,
             LoginPost(c, l, resolved, t)
      PROVE  UNCHANGED login
  <2>1. now \in Times
    BY DEF AInv
  <2> QED BY <1>2, <2>1, HandlerStarts
<1>3. login.pc \in {"verify", "failed", "write", "clear", "create"} => login \in Handler
  BY DEF AInv, LoginInv, Free
<1>4. ~RegisterFailure
  <2>1. RegisterFailure => login'.pc = "page"
    BY <1>3, HandlerAnswers DEF RegisterFailure
  <2> QED BY <2>1
<1>5. ~Clear /\ ~VerifyWrite
  <2>1. Clear => login'.pc = "create"
    BY <1>3, HandlerMoves DEF Clear
  <2>2. VerifyWrite => login'.pc = "clear"
    BY <1>3, HandlerMoves DEF VerifyWrite
  <2> QED BY <2>1, <2>2
<1>6. ~CreateRead
  <2>1. CreateRead => login \in Handler /\ login' = [login EXCEPT !.pc = "insert", !.version = admin.version,
                                                                 !.resets = resets]
    BY <1>3 DEF CreateRead
  <2>2. login \in Handler /\ login' = [login EXCEPT !.pc = "insert", !.version = admin.version,
                                                   !.resets = resets] => login'.pc = "insert"
    BY Zenon DEF Handler
  <2> QED BY <2>1, <2>2
<1>7. ASSUME NEW matches \in BOOLEAN, VerifyRead(matches)
      PROVE  login'.password = admin.password /\ login'.outdated = admin.outdated
  <2>1. login \in Handler
    BY <1>3, <1>7 DEF VerifyRead
  <2>2. login' # [login EXCEPT !.pc = "failed"]
    BY <2>1, HandlerMoves
  <2>3. login' = [login EXCEPT !.pc = "write", !.password = admin.password, !.outdated = admin.outdated]
    BY <1>7, <2>2, Zenon DEF VerifyRead
  <2> QED BY <2>1, <2>3, Zenon DEF Handler
<1> QED BY <1>1, <1>2, <1>4, <1>5, <1>6, <1>7, LoginWriters, Zenon

\* A login never brings a password back unless the last reset overtook it.
LEMMA PasswordStep ==
    ASSUME AInv, PasswordInv, [Next]_vars
    PROVE  PasswordInv'
<1>1. resets \in Nat
  BY AuthConstants DEF AInv, AdminInv
<1>2. CASE ResetWrite
  <2>1. /\ admin'.outdated = FALSE /\ admin'.password = resets + 2 /\ resets' = resets + 1
        /\ login' = login /\ overtaken' = (login.pc = "write" /\ login.outdated)
    BY <1>2, Zenon DEF ResetWrite
  <2>2. NewPasswordKept'
    BY <1>1, <2>1 DEF NewPasswordKept
  <2> QED BY <2>1, <2>2, Zenon DEF PasswordInv
<1>3. CASE VerifyWrite
  <2>1. UNCHANGED <<resets, overtaken>> /\ admin' = Rehashed
    BY <1>3, Zenon DEF VerifyWrite, history
  <2>2. ~(login'.pc = "write")
    <3>1. login \in Handler /\ login' = [login EXCEPT !.pc = "clear"]
      BY <1>3 DEF VerifyWrite, AInv, LoginInv, Free
    <3> QED BY <3>1, HandlerMoves
  <2>3. CASE ~login.outdated
    <3>1. admin' = admin
      BY <2>1, <2>3 DEF Rehashed
    <3> QED BY <2>1, <2>2, <3>1, Zenon DEF PasswordInv, NewPasswordKept
  <2>4. CASE login.outdated
    <3>1. login.password = 1 /\ (resets = 0 \/ overtaken)
      BY <1>3, <2>4, Zenon DEF VerifyWrite, PasswordInv
    <3>2. admin'.password = login.password /\ admin'.outdated = FALSE
      <4>1. admin' = [admin EXCEPT !.password = login.password, !.outdated = FALSE] /\ admin \in AdminRow
        BY <2>1, <2>4, Zenon DEF Rehashed, AInv, AdminInv
      <4> QED BY <4>1, Zenon DEF AdminRow
    <3>3. NewPasswordKept'
      BY <2>1, <3>1, <3>2 DEF NewPasswordKept
    <3> QED BY <2>2, <3>2, <3>3, Zenon DEF PasswordInv
  <2> QED BY <2>3, <2>4
<1>4. ASSUME NEW refused \in RefusesPassword, NEW outdated \in Outdated, InitAdmin(refused, outdated),
             admin' # admin
      PROVE  PasswordInv'
  <2>1. /\ UNCHANGED <<resets, overtaken, login>> /\ admin = NoAdmin
        /\ admin' = [password |-> 1, version |-> 1, outdated |-> outdated]
    BY <1>4, Zenon DEF InitAdmin, history
  <2>2. admin'.password = 1
    BY <2>1, Zenon
  <2>3. resets = 0
    <3>1. admin.version = 0
      BY <2>1, AdminRows, Zenon
    <3> QED BY <1>1, <3>1, SMT DEF AInv, AdminInv
  <2>4. NewPasswordKept'
    BY <2>1, <2>2, <2>3 DEF NewPasswordKept
  <2> QED BY <2>1, <2>2, <2>3, <2>4, Zenon DEF PasswordInv
<1>5. CASE UNCHANGED <<admin, resets, overtaken>>
  <2>1. NewPasswordKept' /\ (admin'.outdated => admin'.password = 1 /\ resets' = 0)
    BY <1>5, Zenon DEF PasswordInv, NewPasswordKept
  <2>2. ASSUME login'.pc = "write", login'.outdated PROVE login'.password = 1 /\ (resets' = 0 \/ overtaken')
    BY <1>5, <2>2, CheckReads, Zenon DEF PasswordInv
  <2> QED BY <2>1, <2>2, Zenon DEF PasswordInv
<1> QED BY <1>2, <1>3, <1>4, <1>5, AdminWriters, ResetWriters, Zenon

\* Whatever login is under way, the password in force is the one that was set
\* last; the first password comes back only by a login that had checked it
\* against an outdated hash when the last reset was committed
\* (verify_credentials, reset_password).
THEOREM PasswordIsKept == Spec => []NewPasswordKept
<1>1. Init => PasswordInv
  <2>1. NoAdmin.outdated = FALSE /\ Free.pc = "idle"
    BY DEF NoAdmin, Free
  <2>2. Init => admin = NoAdmin /\ login = Free
    BY Zenon DEF Init
  <2> QED BY <2>1, <2>2 DEF PasswordInv, NewPasswordKept
<1>2. AInv /\ PasswordInv /\ [Next]_vars => PasswordInv'
  BY PasswordStep
<1>3. PasswordInv => NewPasswordKept
  BY Zenon DEF PasswordInv
<1> QED BY <1>1, <1>2, <1>3, AInit, ANext, PTL DEF Spec
===============================================================================
