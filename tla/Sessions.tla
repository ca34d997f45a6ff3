------------------------------ MODULE Sessions ------------------------------
(***************************************************************************)
(* Login of the administrator: services/auth.py, with the pages of         *)
(* api/dashboard.py that call it and the command that sets a password.     *)
(* A login is two transactions of the database with the slow comparison of *)
(* the password between them, in one of several threads: the first counts  *)
(* the attempt and reads the hash, the second creates the session.         *)
(*                                                                         *)
(* Time is kept as ages: of an attempt, up to Window (the 900 seconds of   *)
(* LOGIN_WINDOW), and as what is left of a session.  A hash is salted, so  *)
(* every password that is set gives another one; a person knows the        *)
(* password of one hash.                                                   *)
(*                                                                         *)
(* Simplifications: a login reads the clock and counts in one step (the    *)
(* wait for the database's write lock between the two is ten seconds at    *)
(* most); the semaphore of two comparisons only delays them; the form      *)
(* token belongs to its session and is left out.                           *)
(***************************************************************************)
EXTENDS Naturals, FiniteSets, Functions

CONSTANTS
    Sources,      \* addresses logins come from
    Threads,      \* threads that serve them
    Hashes, Tokens, None,
    Window,       \* ages an attempt counts for
    SourceLimit, GlobalLimit,
    SessionLife, FormLife  \* lives of a session with and without a login

ASSUME LimitsOK ==
    /\ Window \in Nat \ {0} /\ SessionLife \in Nat /\ FormLife \in Nat
    /\ SourceLimit \in Nat \ {0} /\ GlobalLimit \in Nat \ {0}
    /\ None \notin Hashes \cup Tokens \cup [admin : Hashes \cup {None}, left : Nat]

\* There are finitely many addresses: what is summed up over them is finite.
ASSUME SourcesOK == IsFiniteSet(Sources)

VARIABLES
    administrator,  \* the hash in the only row of its table, or None
    attempts,       \* login_attempts: how many rows of each source and age
    sessions,       \* by token, None where there is no row
    login,          \* the threads' local state
    guesses         \* history: comparisons begun since the source last got in

vars == <<administrator, attempts, sessions, login, guesses>>

Ages == 0..Window   \* Window stands for every age that no longer counts

Nobody == [a \in Ages |-> 0]
NoRows == [s \in Sources |-> Nobody]
Idle == [step |-> "idle", source |-> None, knows |-> None, seen |-> None, token |-> None]

Rows == [admin : Hashes \cup {None},   \* history: the password it was opened with
         left : Nat]

TypeOK ==
    /\ administrator \in Hashes \cup {None}
    /\ attempts \in [Sources -> [Ages -> Nat]]
    /\ sessions \in [Tokens -> Rows \cup {None}]
    /\ login \in [Threads -> [step : {"idle", "form", "verify"}, source : Sources \cup {None},
                              knows : Hashes \cup {None}, seen : Hashes \cup {None},
                              token : Tokens \cup {None}]]
    /\ \A l \in Threads : login[l].step # "idle" => login[l].source \in Sources
    /\ guesses \in [Sources -> [Ages -> Nat]]

Init ==
    /\ administrator = None /\ attempts = NoRows
    /\ sessions = [t \in Tokens |-> None]
    /\ login = [l \in Threads |-> Idle] /\ guesses = NoRows

\* A salt nobody remembers; a token no browser holds.
FreshHash(h) == h # administrator /\ \A l \in Threads : h \notin {login[l].seen, login[l].knows}
FreshToken(t) == sessions[t] = None /\ \A l \in Threads : login[l].token # t

\* get_session()
Valid(t) == t \in Tokens /\ sessions[t] # None /\ sessions[t].left > 0

-----------------------------------------------------------------------------
(* The database's part of a login *)

\* Mutation: rows of any age are left.
PrunedNever(rows) == rows

\* DELETE FROM login_attempts WHERE attempted_at <= now - LOGIN_WINDOW
Pruned(rows) == [s \in Sources |-> [rows[s] EXCEPT ![Window] = 0]]

Count(rows, s) == SumFunctionOnSet(rows[s], Ages)
Total(rows) == SumFunction([s \in Sources |-> Count(rows, s)])

Limited(s) ==
    LET rows == Pruned(attempts)
    IN  Total(rows) >= GlobalLimit \/ Count(rows, s) >= SourceLimit

Counted(rows, s) == [rows EXCEPT ![s][0] = @ + 1]

\* insert_session(): sessions that have ended and the one replaced go, the new one comes.
Inserted(t, old, hash) ==
    [u \in Tokens |->
        IF u = t THEN [admin |-> hash, left |-> IF hash = None THEN FormLife ELSE SessionLife]
        ELSE IF u = old \/ ~Valid(u) THEN None
        ELSE sessions[u]]

-----------------------------------------------------------------------------
(* Actions *)

\* set_administrator(), also with --reset-admin: nobody stays logged in.
SetAdministrator(h) ==
    /\ FreshHash(h)
    /\ administrator' = h
    /\ sessions' = [t \in Tokens |-> None]
    /\ attempts' = NoRows /\ guesses' = NoRows
    /\ UNCHANGED login

\* The login page, for a browser without a session.
LoginPage(t) ==
    /\ administrator # None
    /\ FreshToken(t)
    /\ sessions' = Inserted(t, None, None)
    /\ UNCHANGED <<administrator, attempts, login, guesses>>

\* The form arrives with the token of a session, which is looked up before the thread starts.
Arrive(l, s, t, h) ==
    /\ login[l].step = "idle"
    /\ Valid(t)
    /\ login' = [login EXCEPT ![l] = [Idle EXCEPT !.step = "form", !.source = s, !.knows = h,
                                                  !.token = t]]
    /\ UNCHANGED <<administrator, attempts, sessions, guesses>>

\* The first transaction of authenticate(): too many attempts ...
Refuse(l) ==
    /\ login[l].step = "form"
    /\ Limited(login[l].source)
    /\ attempts' = Pruned(attempts)
    /\ login' = [login EXCEPT ![l] = Idle]
    /\ UNCHANGED <<administrator, sessions, guesses>>

\* ... or the attempt is counted before its password is looked at.
Admit(l) ==
    LET s == login[l].source
    IN  /\ login[l].step = "form"
        /\ ~Limited(s)
        /\ attempts' = Counted(Pruned(attempts), s)
        /\ guesses' = Counted(guesses, s)
        /\ login' = [login EXCEPT ![l].step = "verify", ![l].seen = administrator]
        /\ UNCHANGED <<administrator, sessions>>

\* Mutation: the hash is not compared again.
AcceptUnchecked(l, t) ==
    /\ login[l].step = "verify"
    /\ login[l].knows = login[l].seen
    /\ FreshToken(t)
    /\ attempts' = [attempts EXCEPT ![login[l].source] = Nobody]
    /\ guesses' = [guesses EXCEPT ![login[l].source] = Nobody]
    /\ sessions' = Inserted(t, login[l].token, login[l].seen)
    /\ login' = [login EXCEPT ![l] = Idle]
    /\ UNCHANGED administrator

\* Mutation: a success clears the attempts of every source.
AcceptAndClear(l, t) ==
    /\ login[l].step = "verify"
    /\ login[l].knows = login[l].seen /\ administrator = login[l].seen
    /\ FreshToken(t)
    /\ attempts' = NoRows
    /\ guesses' = [guesses EXCEPT ![login[l].source] = Nobody]
    /\ sessions' = Inserted(t, login[l].token, login[l].seen)
    /\ login' = [login EXCEPT ![l] = Idle]
    /\ UNCHANGED administrator

\* The second transaction, after a comparison that succeeded.
Accept(l, t) ==
    /\ login[l].step = "verify"
    /\ login[l].knows = login[l].seen /\ administrator = login[l].seen
    /\ FreshToken(t)
    /\ attempts' = [attempts EXCEPT ![login[l].source] = Nobody]
    /\ guesses' = [guesses EXCEPT ![login[l].source] = Nobody]
    /\ sessions' = Inserted(t, login[l].token, login[l].seen)
    /\ login' = [login EXCEPT ![l] = Idle]
    /\ UNCHANGED administrator

\* The password was wrong, or was reset meanwhile.
Reject(l) ==
    /\ login[l].step = "verify"
    /\ login[l].knows # login[l].seen \/ administrator # login[l].seen
    /\ login' = [login EXCEPT ![l] = Idle]
    /\ UNCHANGED <<administrator, attempts, sessions, guesses>>

\* revoke_session()
Logout(t) ==
    /\ Valid(t)
    /\ sessions' = [sessions EXCEPT ![t] = None]
    /\ UNCHANGED <<administrator, attempts, login, guesses>>

Restart ==
    /\ \E l \in Threads : login[l].step # "idle"
    /\ login' = [l \in Threads |-> Idle]
    /\ UNCHANGED <<administrator, attempts, sessions, guesses>>

Older(rows) ==
    [s \in Sources |-> [a \in Ages |->
        CASE a = 0 -> 0
          [] a = Window -> rows[s][Window - 1] + rows[s][Window]
          [] OTHER -> rows[s][a - 1]]]

Tick ==
    /\ attempts' = Older(attempts)
    /\ guesses' = [s \in Sources |-> [Older(guesses)[s] EXCEPT ![Window] = 0]]
    /\ sessions' = [t \in Tokens |->
          IF sessions[t] # None /\ sessions[t].left > 0
          THEN [sessions[t] EXCEPT !.left = @ - 1] ELSE sessions[t]]
    /\ UNCHANGED <<administrator, login>>

Next ==
    \/ \E h \in Hashes : SetAdministrator(h)
    \/ \E t \in Tokens : LoginPage(t) \/ Logout(t)
    \/ \E l \in Threads :
          \/ \E s \in Sources, t \in Tokens, h \in Hashes : Arrive(l, s, t, h)
          \/ Refuse(l) \/ Admit(l) \/ Reject(l)
          \/ \E t \in Tokens : Accept(l, t)
    \/ Restart \/ Tick

\* Time passes; nobody has to log in.
Spec == Init /\ [][Next]_vars /\ WF_vars(Tick)

-----------------------------------------------------------------------------
(* Properties *)

\* Whoever is logged in gave the password that is set now: a login whose password was
\* right when it was read creates no session after a reset (auth.py:102).
SessionIsCurrent ==
    \A t \in Tokens :
        sessions[t] # None /\ sessions[t].admin # None => sessions[t].admin = administrator

\* In no window are more passwords compared than the limits allow, for one source since it
\* last got in, or together, decided or not, with logins in several threads, restarts and
\* successes of other sources in between (auth.py:81).
LimitHolds ==
    /\ \A s \in Sources : Count(guesses, s) <= SourceLimit
    /\ Total(guesses) <= GlobalLimit

\* A lockout ends with its window, whatever is tried meanwhile (auth.py:77).
LockoutEnds == \A s \in Sources : Limited(s) ~> ~Limited(s)

=============================================================================
