---------------------------- MODULE SessionsProofs ----------------------------
(***************************************************************************)
(* Proofs about Sessions: whoever is logged in gave the present password,  *)
(* and no comparison of the window is missing in login_attempts; for any   *)
(* number of threads, addresses, passwords and browsers, and any limits;   *)
(* and that the rows, added up, keep the limits, for which the sums of the *)
(* community module Functions are first shown to add up.                   *)
(***************************************************************************)
EXTENDS Sessions, FiniteSetTheorems, TLAPS

\* Every comparison begun since the source last got in still has its row, and the age that
\* no longer counts has none.
GuessesHaveRows ==
    \A s \in Sources :
        /\ guesses[s][Window] = 0
        /\ \A a \in Ages : guesses[s][a] <= attempts[s][a]

SessionsInv == TypeOK /\ SessionIsCurrent /\ GuessesHaveRows

\* A password that was never set, nobody logged in.
LEMMA SessionsInit == Init => SessionsInv
<1> SUFFICES ASSUME Init PROVE SessionsInv
  OBVIOUS
<1> USE LimitsOK DEF Init, Idle, NoRows, Nobody, Ages
<1>1. TypeOK
  BY DEF TypeOK
<1>2. SessionIsCurrent /\ GuessesHaveRows
  BY DEF SessionIsCurrent, GuessesHaveRows
<1> QED BY <1>1, <1>2 DEF SessionsInv

\* Rows that were pruned, counted up or grew older are rows.
LEMMA RowTypes ==
    ASSUME NEW rows \in [Sources -> [Ages -> Nat]]
    PROVE  /\ Pruned(rows) \in [Sources -> [Ages -> Nat]]
           /\ \A s \in Sources : Counted(rows, s) \in [Sources -> [Ages -> Nat]]
           /\ Older(rows) \in [Sources -> [Ages -> Nat]]
<1> USE LimitsOK DEF Ages
<1>1. Pruned(rows) \in [Sources -> [Ages -> Nat]]
  BY DEF Pruned
<1>2. \A s \in Sources : Counted(rows, s) \in [Sources -> [Ages -> Nat]]
  BY DEF Counted
<1>3. Older(rows) \in [Sources -> [Ages -> Nat]]
  <2> SUFFICES ASSUME NEW r \in Sources, NEW a \in Ages
               PROVE  (CASE a = 0 -> 0
                         [] a = Window -> rows[r][Window - 1] + rows[r][Window]
                         [] OTHER -> rows[r][a - 1]) \in Nat
    BY DEF Older
  <2>1. CASE a = 0 BY <2>1
  <2>2. CASE a = Window
    <3>1. Window - 1 \in Ages /\ Window \in Ages
      OBVIOUS
    <3>2. rows[r][Window - 1] \in Nat /\ rows[r][Window] \in Nat
      BY <3>1
    <3> QED BY <2>2, <3>2
  <2>3. CASE a \notin {0, Window}
    <3>1. rows[r][a - 1] \in Nat
      BY <2>3
    <3> QED BY <2>3, <3>1
  <2> QED BY <2>1, <2>2, <2>3
<1> QED BY <1>1, <1>2, <1>3

\* A session that is inserted is of the hash it was inserted with.
LEMMA InsertedTypes ==
    ASSUME TypeOK, NEW t \in Tokens, NEW old, NEW hash \in Hashes \cup {None}
    PROVE  /\ Inserted(t, old, hash) \in [Tokens -> Rows \cup {None}]
           /\ \A u \in Tokens : LET row == Inserted(t, old, hash)[u]
                                IN  row # None => \/ u = t /\ row.admin = hash
                                                  \/ row = sessions[u]
BY LimitsOK DEF TypeOK, Inserted, Rows

\* The two transactions of a login, a reset and the passing of time keep what a session and
\* the ledger of the attempts promise.
LEMMA SessionsStep == SessionsInv /\ [Next]_vars => SessionsInv'
<1> SUFFICES ASSUME SessionsInv, [Next]_vars PROVE SessionsInv'
  OBVIOUS
<1> USE LimitsOK DEF SessionsInv, SessionIsCurrent
<1>1. ASSUME NEW h \in Hashes, SetAdministrator(h) PROVE SessionsInv'
  BY <1>1 DEF SetAdministrator, TypeOK, GuessesHaveRows, NoRows, Nobody, Ages
<1>2. ASSUME NEW t \in Tokens, LoginPage(t) PROVE SessionsInv'
  <2>1. TypeOK'
    BY <1>2, InsertedTypes DEF LoginPage, TypeOK
  <2>2. SessionIsCurrent'
    BY <1>2, InsertedTypes DEF LoginPage
  <2> QED BY <1>2, <2>1, <2>2 DEF LoginPage, GuessesHaveRows
<1>3. ASSUME NEW t \in Tokens, Logout(t) PROVE SessionsInv'
  BY <1>3 DEF Logout, TypeOK, GuessesHaveRows
<1>4. ASSUME NEW l \in Threads, NEW s \in Sources, NEW t \in Tokens, NEW h \in Hashes,
             Arrive(l, s, t, h)
      PROVE  SessionsInv'
  BY <1>4 DEF Arrive, TypeOK, GuessesHaveRows, Idle
<1>5. ASSUME NEW l \in Threads, Refuse(l) PROVE SessionsInv'
  <2>1. login[l].source \in Sources
    BY <1>5 DEF Refuse, TypeOK
  <2>2. TypeOK'
    BY <1>5, <2>1, RowTypes DEF Refuse, TypeOK, Idle
  <2>3. GuessesHaveRows'
    BY <1>5 DEF Refuse, GuessesHaveRows, Pruned, TypeOK, Ages
  <2> QED BY <1>5, <2>2, <2>3 DEF Refuse
<1>6. ASSUME NEW l \in Threads, Admit(l) PROVE SessionsInv'
  <2>1. login[l].source \in Sources
    BY <1>6 DEF Admit, TypeOK
  <2>2. Pruned(attempts) \in [Sources -> [Ages -> Nat]]
    BY <2>1, RowTypes DEF TypeOK
  <2>3. TypeOK'
    <3>1. attempts' \in [Sources -> [Ages -> Nat]]
      BY <1>6, <2>1, <2>2, RowTypes DEF Admit
    <3>2. guesses' \in [Sources -> [Ages -> Nat]]
      BY <1>6, <2>1, RowTypes DEF Admit, TypeOK
    <3>3. login' = [login EXCEPT ![l] = [login[l] EXCEPT !.step = "verify",
                                                         !.seen = administrator]]
      BY <1>6 DEF Admit, TypeOK
    <3>4. \A m \in Threads : login'[m].step # "idle" => login'[m].source \in Sources
      BY <2>1, <3>3 DEF TypeOK
    <3>5. /\ administrator' \in Hashes \cup {None}
          /\ sessions' \in [Tokens -> Rows \cup {None}]
          /\ login' \in [Threads ->
                 [step : {"idle", "form", "verify"}, source : Sources \cup {None},
                  knows : Hashes \cup {None}, seen : Hashes \cup {None},
                  token : Tokens \cup {None}]]
      <4>1. administrator \in Hashes \cup {None}
        BY DEF TypeOK
      <4>2. UNCHANGED <<administrator, sessions>>
        BY <1>6 DEF Admit
      <4> QED BY <3>3, <4>1, <4>2 DEF TypeOK
    <3> QED BY <3>1, <3>2, <3>4, <3>5 DEF TypeOK
  <2>4. GuessesHaveRows'
    <3> SUFFICES ASSUME NEW s \in Sources, NEW a \in Ages
                 PROVE  guesses'[s][Window] = 0 /\ guesses'[s][a] <= attempts'[s][a]
      BY DEF GuessesHaveRows, Ages
    <3> DEFINE more(b) == IF s = login[l].source /\ b = 0 THEN 1 ELSE 0
    <3>1. \A b \in Ages : guesses'[s][b] = guesses[s][b] + more(b)
      BY <1>6, <2>1 DEF Admit, Counted, TypeOK, Ages
    <3>2. \A b \in Ages : attempts'[s][b] = Pruned(attempts)[s][b] + more(b)
      BY <1>6, <2>1, <2>2 DEF Admit, Counted, Ages
    <3>3. guesses[s][Window] = 0 /\ guesses[s][a] <= attempts[s][a]
      BY DEF GuessesHaveRows
    <3>4. Pruned(attempts)[s][a] = IF a = Window THEN 0 ELSE attempts[s][a]
      BY DEF Pruned, TypeOK, Ages
    <3>5. guesses[s][a] \in Nat /\ attempts[s][a] \in Nat /\ Window \in Ages
      BY DEF TypeOK, Ages
    <3> QED BY <3>1, <3>2, <3>3, <3>4, <3>5
  <2> QED BY <1>6, <2>3, <2>4 DEF Admit
<1>7. ASSUME NEW l \in Threads, Reject(l) PROVE SessionsInv'
  BY <1>7 DEF Reject, TypeOK, GuessesHaveRows, Idle
<1>8. ASSUME NEW l \in Threads, NEW t \in Tokens, Accept(l, t) PROVE SessionsInv'
  <2>1. login[l].source \in Sources /\ login[l].seen \in Hashes \cup {None}
    BY <1>8 DEF Accept, TypeOK
  <2>2. TypeOK'
    <3>1. sessions' \in [Tokens -> Rows \cup {None}]
      BY <1>8, <2>1, InsertedTypes DEF Accept
    <3>2. Nobody \in [Ages -> Nat]
      BY DEF Nobody
    <3>3. attempts' \in [Sources -> [Ages -> Nat]] /\ guesses' \in [Sources -> [Ages -> Nat]]
      BY <1>8, <2>1, <3>2 DEF Accept, TypeOK
    <3> QED BY <1>8, <3>1, <3>3 DEF Accept, TypeOK, Idle
  <2>3. SessionIsCurrent'
    BY <1>8, <2>1, InsertedTypes DEF Accept
  <2>4. GuessesHaveRows'
    BY <1>8, <2>1 DEF Accept, GuessesHaveRows, Nobody, TypeOK, Ages
  <2> QED BY <2>2, <2>3, <2>4
<1>9. CASE Restart
  BY <1>9 DEF Restart, TypeOK, GuessesHaveRows, Idle
<1>10. CASE Tick
  <2>1. attempts' \in [Sources -> [Ages -> Nat]]
    BY <1>10, RowTypes DEF Tick, TypeOK
  <2>2. guesses' \in [Sources -> [Ages -> Nat]]
    <3>1. Older(guesses) \in [Sources -> [Ages -> Nat]]
      BY RowTypes DEF TypeOK
    <3> QED BY <1>10, <3>1 DEF Tick
  <2>3. sessions' \in [Tokens -> Rows \cup {None}]
    BY <1>10 DEF Tick, TypeOK, Rows
  <2>4. TypeOK'
    BY <1>10, <2>1, <2>2, <2>3 DEF Tick, TypeOK
  <2>5. SessionIsCurrent'
    BY <1>10 DEF Tick, TypeOK, Rows
  <2>6. GuessesHaveRows'
    <3> SUFFICES ASSUME NEW s \in Sources, NEW a \in Ages
                 PROVE  guesses'[s][Window] = 0 /\ guesses'[s][a] <= attempts'[s][a]
      BY DEF GuessesHaveRows, Ages
    <3>1. guesses'[s][Window] = 0
      BY <1>10 DEF Tick, Older, Ages
    <3>2. attempts'[s][a] \in Nat
      BY <2>1
    <3>3. CASE a \in {0, Window}
      BY <1>10, <3>1, <3>2, <3>3 DEF Tick, Older, Ages
    <3>4. CASE a \notin {0, Window}
      <4>1. guesses'[s][a] = guesses[s][a - 1] /\ attempts'[s][a] = attempts[s][a - 1]
        BY <1>10, <3>4 DEF Tick, Older, Ages
      <4>2. a - 1 \in Ages
        BY <3>4 DEF Ages
      <4> QED BY <3>1, <4>1, <4>2 DEF GuessesHaveRows
    <3> QED BY <3>1, <3>3, <3>4
  <2> QED BY <2>4, <2>5, <2>6
<1>11. CASE UNCHANGED vars
  BY <1>11 DEF vars, TypeOK, GuessesHaveRows
<1> QED
  BY <1>1, <1>2, <1>3, <1>4, <1>5, <1>6, <1>7, <1>8, <1>9, <1>10, <1>11 DEF Next

\* The second transaction of a login compares the hash again, so that no session survives a
\* reset or is created after one with the password before it.
THEOREM Current == Spec => []SessionIsCurrent
<1>1. SessionsInv => SessionIsCurrent BY DEF SessionsInv
<1> QED BY <1>1, SessionsInit, SessionsStep, PTL DEF Spec

\* Every password compared in the window, decided or not, has its row in login_attempts:
\* what the limiter counts is never less than what was tried since the last success.
THEOREM CountedFirst == Spec => []GuessesHaveRows
<1>1. SessionsInv => GuessesHaveRows BY DEF SessionsInv
<1> QED BY <1>1, SessionsInit, SessionsStep, PTL DEF Spec

-----------------------------------------------------------------------------
(* Sums: SumFunctionOnSet is a fold that takes the elements of a set in an order CHOOSE picks. *)

\* Induction, for a set of numbers: the library's takes an operator.
LEMMA NumbersInduction ==
    ASSUME NEW N, 0 \in N, \A n \in Nat : n \in N => n + 1 \in N PROVE Nat \subseteq N
<1> SUFFICES ASSUME Nat \ N # {} PROVE FALSE
  OBVIOUS
<1>1. PICK x \in Nat \ N : \A y \in Nat \ N : <<y, x>> \notin OpToRel(<, Nat)
  <2>1. Nat \ N \subseteq Nat
    OBVIOUS
  <2> HIDE DEF OpToRel
  <2> QED BY <2>1, NatLessThanWellFounded, WFMin, Zenon
<1>2. x - 1 \in Nat /\ x - 1 \notin N
  OBVIOUS
<1>3. <<x - 1, x>> \in OpToRel(<, Nat)
  BY <1>2 DEF OpToRel
<1> QED BY <1>1, <1>2, <1>3

\* The same for the subsets of a finite set.
LEMMA SubsetsInduction ==
    ASSUME NEW S, IsFiniteSet(S), NEW F,
           \A T \in SUBSET S : (\A x \in T : T \ {x} \in F) => T \in F
    PROVE  SUBSET S \subseteq F
<1> SUFFICES ASSUME (SUBSET S) \ F # {} PROVE FALSE
  OBVIOUS
<1> DEFINE R == StrictSubsetOrdering(S)
<1>1. IsWellFoundedOn(R, SUBSET S)
  <2>1. FiniteSubsetsOf(S) = SUBSET S
    BY FS_FiniteSubsetsOfFinite
  <2>2. IsWellFoundedOn(R, FiniteSubsetsOf(S))
    BY FS_StrictSubsetOrderingWellFounded
  <2> QED BY <2>1, <2>2
<1>2. (SUBSET S) \ F \subseteq SUBSET S
  OBVIOUS
<1>3. PICK T \in (SUBSET S) \ F : \A U \in (SUBSET S) \ F : <<U, T>> \notin R
  <2> HIDE DEF R
  <2> QED BY <1>1, <1>2, WFMin
<1>4. PICK x \in T : T \ {x} \notin F
  OBVIOUS
<1>5. <<T \ {x}, T>> \in R
  BY <1>4 DEF StrictSubsetOrdering
<1> QED BY <1>3, <1>4, <1>5

\* The sums of f over the subsets of S, as the community module defines them.
One(s) == CHOOSE x \in s : TRUE
Step(g, f, s) == IF s = {} THEN 0 ELSE f[One(s)] + g[s \ {One(s)}]
Sums(f, S) == CHOOSE g : g = [s \in SUBSET S |-> Step(g, f, s)]

\* That is what the fold unfolds to.
LEMMA SumUnfolds ==
    ASSUME NEW f, NEW S PROVE SumFunctionOnSet(f, S) = Sums(f, S)[S]
BY DEF SumFunctionOnSet, FoldFunctionOnSet, MapThenFoldSet, Sums, Step, One

Numbers(f, S) == \A x \in S : f[x] \in Nat

\* One element less.
LEMMA OneLess ==
    ASSUME NEW S, IsFiniteSet(S), NEW s \in SUBSET S
    PROVE  /\ IsFiniteSet(s) /\ Cardinality(s) \in Nat /\ (Cardinality(s) = 0 <=> s = {})
           /\ Cardinality(s) <= Cardinality(S)
           /\ s # {} => One(s) \in s
           /\ \A x \in s : s \ {x} \in SUBSET S /\ Cardinality(s \ {x}) = Cardinality(s) - 1
<1>1. IsFiniteSet(s) /\ Cardinality(s) \in Nat /\ Cardinality(s) <= Cardinality(S)
  BY FS_Subset, FS_CardinalityType
<1>2. Cardinality(s) = 0 <=> s = {}
  BY <1>1, FS_EmptySet
<1>3. s # {} => One(s) \in s
  BY DEF One
<1>4. \A x \in s : Cardinality(s \ {x}) = Cardinality(s) - 1
  BY <1>1, FS_RemoveElement
<1> QED BY <1>1, <1>2, <1>3, <1>4

\* The definition has a solution: it is found for one element more at a time.
LEMMA SumsSolve ==
    ASSUME NEW f, NEW S, IsFiniteSet(S), Numbers(f, S)
    PROVE  \A s \in SUBSET S : Sums(f, S)[s] = Step(Sums(f, S), f, s)
<1> DEFINE Solves(g, n) == \A s \in SUBSET S : Cardinality(s) <= n => g[s] = Step(g, f, s)
           N == {n \in Nat : \E g \in [SUBSET S -> Nat] : Solves(g, n)}
<1>1. \A s \in SUBSET S :
         /\ IsFiniteSet(s) /\ Cardinality(s) \in Nat /\ (Cardinality(s) = 0 <=> s = {})
         /\ Cardinality(s) <= Cardinality(S)
         /\ s # {} => /\ One(s) \in s /\ f[One(s)] \in Nat /\ s \ {One(s)} \in SUBSET S
                      /\ Cardinality(s \ {One(s)}) = Cardinality(s) - 1
  BY OneLess DEF Numbers
<1>2. 0 \in N
  <2> DEFINE g == [s \in SUBSET S |-> 0]
  <2>1. g \in [SUBSET S -> Nat]
    OBVIOUS
  <2>2. ASSUME NEW s \in SUBSET S, Cardinality(s) <= 0 PROVE g[s] = Step(g, f, s)
    <3>1. s = {}
      <4>1. Cardinality(s) \in Nat /\ (Cardinality(s) = 0 <=> s = {})
        BY <1>1
      <4> QED BY <2>2, <4>1
    <3> QED BY <3>1 DEF Step
  <2> QED BY <2>1, <2>2
<1>3. ASSUME NEW n \in Nat, n \in N PROVE n + 1 \in N
  <2>1. PICK g \in [SUBSET S -> Nat] : Solves(g, n)
    BY <1>3
  <2> DEFINE h == [s \in SUBSET S |-> IF Cardinality(s) <= n THEN g[s] ELSE Step(g, f, s)]
  <2>2. h \in [SUBSET S -> Nat]
    <3>1. ASSUME NEW s \in SUBSET S PROVE Step(g, f, s) \in Nat
      <4>1. CASE s = {}
        BY <4>1 DEF Step
      <4>2. CASE s # {}
        <5>1. f[One(s)] \in Nat /\ s \ {One(s)} \in SUBSET S
          BY <1>1, <4>2
        <5>2. g[s \ {One(s)}] \in Nat
          BY <5>1
        <5> QED BY <4>2, <5>1, <5>2 DEF Step
      <4> QED BY <4>1, <4>2
    <3> QED BY <3>1
  <2>3. ASSUME NEW s \in SUBSET S, Cardinality(s) <= n + 1 PROVE h[s] = Step(h, f, s)
    <3>1. CASE s = {}
      BY <1>1, <2>1, <3>1 DEF Step
    <3>2. CASE s # {}
      <4>1. h[s \ {One(s)}] = g[s \ {One(s)}]
        BY <1>1, <2>3, <3>2
      <4>2. h[s] = Step(g, f, s)
        BY <2>1
      <4> QED BY <3>2, <4>1, <4>2 DEF Step
    <3> QED BY <3>1, <3>2
  <2> HIDE DEF h
  <2>4. Solves(h, n + 1)
    BY <2>3
  <2> HIDE DEF Solves
  <2> QED BY <2>2, <2>4
<1>4. Cardinality(S) \in N
  <2> HIDE DEF N
  <2>1. Nat \subseteq N
    BY <1>2, <1>3, NumbersInduction
  <2> QED BY <1>1, <2>1
<1>5. PICK g \in [SUBSET S -> Nat] : \A s \in SUBSET S : g[s] = Step(g, f, s)
  BY <1>1, <1>4
<1>6. g = [s \in SUBSET S |-> Step(g, f, s)]
  BY <1>5
<1>7. Sums(f, S) = [s \in SUBSET S |-> Step(Sums(f, S), f, s)]
  BY <1>6 DEF Sums
<1> QED BY <1>7

\* A sum of natural numbers is one.
LEMMA SumsCount ==
    ASSUME NEW f, NEW S, IsFiniteSet(S), Numbers(f, S)
    PROVE  \A s \in SUBSET S : Sums(f, S)[s] \in Nat
<1> DEFINE F == {s \in SUBSET S : Sums(f, S)[s] \in Nat}
<1>1. ASSUME NEW s \in SUBSET S, \A x \in s : s \ {x} \in F PROVE s \in F
  <2>1. Sums(f, S)[s] = Step(Sums(f, S), f, s)
    BY SumsSolve
  <2>2. CASE s = {}
    BY <2>1, <2>2 DEF Step
  <2>3. CASE s # {}
    <3>1. One(s) \in s /\ f[One(s)] \in Nat
      BY <2>3, OneLess DEF Numbers
    <3>2. Sums(f, S)[s \ {One(s)}] \in Nat
      BY <1>1, <3>1
    <3> QED BY <2>1, <2>3, <3>1, <3>2 DEF Step
  <2> QED BY <2>2, <2>3
<1> HIDE DEF F
<1>2. SUBSET S \subseteq F
  BY <1>1, SubsetsInduction
<1> QED BY <1>2 DEF F

\* The sum over a part is the same whichever set it is a part of ...
LEMMA SumsOfPart ==
    ASSUME NEW f, NEW S, IsFiniteSet(S), Numbers(f, S), NEW U \in SUBSET S
    PROVE  \A t \in SUBSET U : Sums(f, U)[t] = Sums(f, S)[t]
<1> DEFINE F == {t \in SUBSET U : Sums(f, U)[t] = Sums(f, S)[t]}
<1>1. IsFiniteSet(U) /\ Numbers(f, U)
  BY FS_Subset DEF Numbers
<1>2. ASSUME NEW t \in SUBSET U, \A x \in t : t \ {x} \in F PROVE t \in F
  <2>1. Sums(f, U)[t] = Step(Sums(f, U), f, t) /\ Sums(f, S)[t] = Step(Sums(f, S), f, t)
    BY <1>1, SumsSolve
  <2>2. CASE t = {}
    BY <2>1, <2>2 DEF Step
  <2>3. CASE t # {}
    <3>1. One(t) \in t
      BY <2>3 DEF One
    <3>2. Sums(f, U)[t \ {One(t)}] = Sums(f, S)[t \ {One(t)}]
      BY <1>2, <3>1
    <3> QED BY <2>1, <2>3, <3>2 DEF Step
  <2> QED BY <2>2, <2>3
<1> HIDE DEF F
<1>3. SUBSET U \subseteq F
  BY <1>1, <1>2, SubsetsInduction
<1> QED BY <1>3 DEF F

\* ... and whichever element is taken first.
LEMMA SumsOfRest ==
    ASSUME NEW f, NEW S, IsFiniteSet(S), Numbers(f, S)
    PROVE  \A s \in SUBSET S : \A y \in s : Sums(f, S)[s] = f[y] + Sums(f, S)[s \ {y}]
<1> DEFINE P == Sums(f, S)
           F == {s \in SUBSET S : \A y \in s : P[s] = f[y] + P[s \ {y}]}
<1>1. ASSUME NEW s \in SUBSET S, \A x \in s : s \ {x} \in F, NEW y \in s
      PROVE  P[s] = f[y] + P[s \ {y}]
  <2> DEFINE x == One(s)
  <2>1. x \in s
    BY DEF One
  <2>2. P[s] = f[x] + P[s \ {x}]
    BY SumsSolve DEF Step
  <2>3. CASE x = y
    BY <2>2, <2>3
  <2>4. CASE x # y
    <3>1. s \ {x} \in F /\ y \in s \ {x} /\ s \ {y} \in F /\ x \in s \ {y}
      BY <1>1, <2>1, <2>4
    <3> DEFINE r == (s \ {x}) \ {y}
    <3>2. r = (s \ {y}) \ {x} /\ r \in SUBSET S
      OBVIOUS
    <3>3. P[s \ {x}] = f[y] + P[r] /\ P[s \ {y}] = f[x] + P[r]
      BY <3>1, <3>2
    <3>4. f[x] \in Nat /\ f[y] \in Nat /\ P[r] \in Nat
      BY <2>1, <3>2, SumsCount DEF Numbers
    <3> HIDE DEF P, F, r, x
    <3> QED BY <2>2, <3>3, <3>4
  <2> QED BY <2>3, <2>4
<1>2. \A s \in SUBSET S : (\A x \in s : s \ {x} \in F) => s \in F
  BY <1>1
<1> HIDE DEF F
<1>3. SUBSET S \subseteq F
  BY <1>2, SubsetsInduction
<1> QED BY <1>3 DEF F

\* So SumFunctionOnSet adds up: nothing, or any element and the rest.
LEMMA SumRest ==
    ASSUME NEW f, NEW S, IsFiniteSet(S), Numbers(f, S)
    PROVE  /\ SumFunctionOnSet(f, S) \in Nat
           /\ SumFunctionOnSet(f, {}) = 0
           /\ \A y \in S : SumFunctionOnSet(f, S) = f[y] + SumFunctionOnSet(f, S \ {y})
<1>1. SumFunctionOnSet(f, S) = Sums(f, S)[S]
  BY SumUnfolds
<1>2. SumFunctionOnSet(f, {}) = 0
  <2>1. SumFunctionOnSet(f, {}) = Sums(f, {})[{}]
    BY SumUnfolds
  <2>2. IsFiniteSet({}) /\ Numbers(f, {})
    BY FS_EmptySet DEF Numbers
  <2>3. Sums(f, {})[{}] = Step(Sums(f, {}), f, {})
    BY <2>2, SumsSolve
  <2> QED BY <2>1, <2>3 DEF Step
<1>3. ASSUME NEW y \in S PROVE SumFunctionOnSet(f, S) = f[y] + SumFunctionOnSet(f, S \ {y})
  <2>1. SumFunctionOnSet(f, S \ {y}) = Sums(f, S \ {y})[S \ {y}]
    BY SumUnfolds
  <2>2. Sums(f, S \ {y})[S \ {y}] = Sums(f, S)[S \ {y}]
    <3>1. S \ {y} \in SUBSET S
      OBVIOUS
    <3> QED BY <3>1, SumsOfPart
  <2>3. Sums(f, S)[S] = f[y] + Sums(f, S)[S \ {y}]
    BY SumsOfRest
  <2> QED BY <1>1, <2>1, <2>2, <2>3
<1>4. Sums(f, S)[S] \in Nat
  BY SumsCount
<1> QED BY <1>1, <1>2, <1>3, <1>4

\* Less in every place is less in sum.
LEMMA SumLess ==
    ASSUME NEW f, NEW g, NEW S, IsFiniteSet(S), Numbers(f, S), Numbers(g, S),
           \A x \in S : f[x] <= g[x]
    PROVE  SumFunctionOnSet(f, S) <= SumFunctionOnSet(g, S)
<1> DEFINE F == {s \in SUBSET S : SumFunctionOnSet(f, s) <= SumFunctionOnSet(g, s)}
<1>0. \A s \in SUBSET S : IsFiniteSet(s) /\ Numbers(f, s) /\ Numbers(g, s)
  BY FS_Subset DEF Numbers
<1>1. ASSUME NEW s \in SUBSET S, \A x \in s : s \ {x} \in F
      PROVE  SumFunctionOnSet(f, s) <= SumFunctionOnSet(g, s)
  <2>1. CASE s = {}
    <3>1. SumFunctionOnSet(f, {}) = 0 /\ SumFunctionOnSet(g, {}) = 0
      BY SumRest
    <3> QED BY <2>1, <3>1
  <2>2. CASE s # {}
    <3>1. PICK x \in s : TRUE
      BY <2>2
    <3>2. /\ SumFunctionOnSet(f, s) = f[x] + SumFunctionOnSet(f, s \ {x})
          /\ SumFunctionOnSet(g, s) = g[x] + SumFunctionOnSet(g, s \ {x})
      BY <1>0, SumRest
    <3>3. SumFunctionOnSet(f, s \ {x}) <= SumFunctionOnSet(g, s \ {x})
      BY <1>1
    <3>4. SumFunctionOnSet(f, s \ {x}) \in Nat /\ SumFunctionOnSet(g, s \ {x}) \in Nat
      <4>1. s \ {x} \in SUBSET S
        OBVIOUS
      <4> QED BY <1>0, <4>1, SumRest
    <3>5. f[x] \in Nat /\ g[x] \in Nat /\ f[x] <= g[x]
      BY DEF Numbers
    <3> QED BY <3>2, <3>3, <3>4, <3>5
  <2> QED BY <2>1, <2>2
<1>2. \A s \in SUBSET S : (\A x \in s : s \ {x} \in F) => s \in F
  BY <1>1
<1> HIDE DEF F
<1>3. SUBSET S \subseteq F
  BY <1>2, SubsetsInduction
<1> QED BY <1>3 DEF F

\* What is added in one place is added to the sum.
LEMMA SumMore ==
    ASSUME NEW f, NEW g, NEW S, IsFiniteSet(S), Numbers(f, S), Numbers(g, S), NEW y \in S,
           \A x \in S \ {y} : g[x] = f[x]
    PROVE  SumFunctionOnSet(g, S) + f[y] = SumFunctionOnSet(f, S) + g[y]
<1> DEFINE R == S \ {y}
<1>1. IsFiniteSet(R) /\ Numbers(f, R) /\ Numbers(g, R)
  BY FS_RemoveElement DEF Numbers
<1>2. \A x \in R : f[x] \in Nat /\ f[x] <= g[x] /\ g[x] <= f[x]
  BY DEF Numbers
<1> HIDE DEF R
<1>3. SumFunctionOnSet(f, R) <= SumFunctionOnSet(g, R) /\ SumFunctionOnSet(g, R) <= SumFunctionOnSet(f, R)
  BY <1>1, <1>2, SumLess
<1>4. SumFunctionOnSet(f, R) \in Nat /\ SumFunctionOnSet(g, R) \in Nat
  BY <1>1, SumRest
<1>5. /\ SumFunctionOnSet(f, S) = f[y] + SumFunctionOnSet(f, R)
      /\ SumFunctionOnSet(g, S) = g[y] + SumFunctionOnSet(g, R)
  BY SumRest DEF R
<1>6. f[y] \in Nat /\ g[y] \in Nat
  BY DEF Numbers
<1> QED BY <1>3, <1>4, <1>5, <1>6

\* Nothing adds up to nothing.
LEMMA SumNothing ==
    ASSUME NEW f, NEW S, IsFiniteSet(S), \A x \in S : f[x] = 0
    PROVE  SumFunctionOnSet(f, S) = 0
<1> DEFINE F == {s \in SUBSET S : SumFunctionOnSet(f, s) = 0}
<1>1. \A s \in SUBSET S : IsFiniteSet(s) /\ Numbers(f, s)
  BY FS_Subset DEF Numbers
<1>2. ASSUME NEW s \in SUBSET S, \A x \in s : s \ {x} \in F PROVE SumFunctionOnSet(f, s) = 0
  <2>1. CASE s = {}
    <3>1. SumFunctionOnSet(f, {}) = 0
      BY <1>1, SumRest
    <3> QED BY <2>1, <3>1
  <2>2. CASE s # {}
    <3>1. PICK x \in s : TRUE
      BY <2>2
    <3>2. SumFunctionOnSet(f, s) = f[x] + SumFunctionOnSet(f, s \ {x})
      BY <1>1, SumRest
    <3>3. SumFunctionOnSet(f, s \ {x}) = 0 /\ f[x] = 0
      BY <1>2
    <3> QED BY <3>2, <3>3
  <2> QED BY <2>1, <2>2
<1>3. \A s \in SUBSET S : (\A x \in s : s \ {x} \in F) => s \in F
  BY <1>2
<1> HIDE DEF F
<1>4. SUBSET S \subseteq F
  BY <1>3, SubsetsInduction
<1> QED BY <1>4 DEF F

-----------------------------------------------------------------------------
(* The rows, added up. *)

\* There are finitely many ages.
LEMMA AgesFinite == IsFiniteSet(Ages) /\ 0 \in Ages /\ Window \in Ages
<1>1. Window \in Nat /\ Window >= 0
  BY LimitsOK
<1>2. IsFiniteSet(0..Window)
  BY <1>1, FS_Interval
<1> QED BY <1>1, <1>2 DEF Ages

\* One number more.
LEMMA SumUpTo ==
    ASSUME NEW f, NEW n \in Nat, Numbers(f, 0..(n + 1))
    PROVE  /\ SumFunctionOnSet(f, 0..n) \in Nat
           /\ SumFunctionOnSet(f, 0..(n + 1)) = f[n + 1] + SumFunctionOnSet(f, 0..n)
<1>1. IsFiniteSet(0..n) /\ IsFiniteSet(0..(n + 1))
  BY FS_Interval
<1>2. Numbers(f, 0..n)
  BY DEF Numbers
<1>3. (0..(n + 1)) \ {n + 1} = 0..n /\ n + 1 \in 0..(n + 1)
  OBVIOUS
<1>4. SumFunctionOnSet(f, 0..(n + 1)) = f[n + 1] + SumFunctionOnSet(f, (0..(n + 1)) \ {n + 1})
  BY <1>1, <1>3, SumRest
<1> QED BY <1>1, <1>2, <1>3, <1>4, SumRest

\* Attempts that get older, and at last no longer count, are not more.
LEMMA SumOlder ==
    ASSUME NEW r \in [Ages -> Nat], NEW o \in [Ages -> Nat], o[0] = 0, o[Window] = 0,
           \A a \in 1..(Window - 1) : o[a] = r[a - 1]
    PROVE  SumFunctionOnSet(o, Ages) <= SumFunctionOnSet(r, Ages)
<1> USE LimitsOK
<1> DEFINE Aged(n) == SumFunctionOnSet(o, 0..n) + r[n] = SumFunctionOnSet(r, 0..n)
           N == {n \in Nat : n < Window => Aged(n)}
<1>1. \A n \in 0..Window : /\ Numbers(o, 0..n) /\ Numbers(r, 0..n) /\ IsFiniteSet(0..n)
                           /\ SumFunctionOnSet(o, 0..n) \in Nat /\ SumFunctionOnSet(r, 0..n) \in Nat
                           /\ o[n] \in Nat /\ r[n] \in Nat
  <2> SUFFICES ASSUME NEW n \in 0..Window
               PROVE  /\ Numbers(o, 0..n) /\ Numbers(r, 0..n) /\ IsFiniteSet(0..n)
                      /\ SumFunctionOnSet(o, 0..n) \in Nat /\ SumFunctionOnSet(r, 0..n) \in Nat
                      /\ o[n] \in Nat /\ r[n] \in Nat
    OBVIOUS
  <2>1. Numbers(o, 0..n) /\ Numbers(r, 0..n) /\ o[n] \in Nat /\ r[n] \in Nat
    BY DEF Numbers, Ages
  <2>2. IsFiniteSet(0..n)
    BY FS_Interval
  <2> QED BY <2>1, <2>2, SumRest
<1>2. 0 \in N
  <2> DEFINE Z == 0..0
  <2>1. Z \ {0} = {} /\ 0 \in Z /\ 0 \in 0..Window
    OBVIOUS
  <2>2. Numbers(o, Z) /\ Numbers(r, Z) /\ IsFiniteSet(Z) /\ r[0] \in Nat
    BY <1>1, <2>1
  <2> HIDE DEF Z
  <2>3. SumFunctionOnSet(o, Z) = o[0] + SumFunctionOnSet(o, Z \ {0})
    BY <2>1, <2>2, SumRest
  <2>4. SumFunctionOnSet(r, Z) = r[0] + SumFunctionOnSet(r, Z \ {0})
    BY <2>1, <2>2, SumRest
  <2>5. SumFunctionOnSet(o, {}) = 0 /\ SumFunctionOnSet(r, {}) = 0
    BY <2>2, SumRest
  <2>6. SumFunctionOnSet(o, Z) + r[0] = SumFunctionOnSet(r, Z)
    BY <2>1, <2>2, <2>3, <2>4, <2>5
  <2> QED BY <2>6 DEF Z
<1>3. ASSUME NEW n \in Nat, n \in N, n + 1 < Window PROVE Aged(n + 1)
  <2>0. n \in 0..Window /\ n + 1 \in 0..Window /\ n + 1 \in 1..(Window - 1) /\ n < Window
    BY <1>3
  <2>n. Numbers(o, 0..(n + 1)) /\ Numbers(r, 0..(n + 1))
    BY <1>1, <2>0
  <2>1. SumFunctionOnSet(o, 0..(n + 1)) = o[n + 1] + SumFunctionOnSet(o, 0..n)
    BY <2>n, SumUpTo
  <2>2. SumFunctionOnSet(r, 0..(n + 1)) = r[n + 1] + SumFunctionOnSet(r, 0..n)
    BY <2>n, SumUpTo
  <2>3. o[n + 1] = r[n]
    <3>1. o[n + 1] = r[(n + 1) - 1]
      BY <2>0
    <3> QED BY <3>1
  <2>4. Aged(n)
    BY <1>3, <2>0
  <2>5. r[n] \in Nat /\ r[n + 1] \in Nat /\ SumFunctionOnSet(o, 0..n) \in Nat
    BY <1>1, <2>0
  <2> QED BY <2>1, <2>2, <2>3, <2>4, <2>5
<1>4. Window - 1 \in N
  <2>1. \A n \in Nat : n \in N => n + 1 \in N
    BY <1>3
  <2> HIDE DEF N
  <2>2. Nat \subseteq N
    BY <1>2, <2>1, NumbersInduction
  <2> QED BY <2>2
<1> DEFINE m == Window - 1
<1>5. m \in Nat /\ m \in 0..Window /\ m + 1 = Window /\ Aged(m)
  BY <1>4
<1>6. SumFunctionOnSet(o, 0..Window) = o[Window] + SumFunctionOnSet(o, 0..m)
  <2>1. Numbers(o, 0..(m + 1))
    BY <1>1, <1>5
  <2> HIDE DEF m
  <2> QED BY <1>5, <2>1, SumUpTo
<1>7. SumFunctionOnSet(r, 0..Window) = r[Window] + SumFunctionOnSet(r, 0..m)
  <2>1. Numbers(r, 0..(m + 1))
    BY <1>1, <1>5
  <2> HIDE DEF m
  <2> QED BY <1>5, <2>1, SumUpTo
<1>8. /\ SumFunctionOnSet(o, 0..m) \in Nat /\ SumFunctionOnSet(r, 0..m) \in Nat
      /\ r[m] \in Nat /\ r[Window] \in Nat
  BY <1>1, <1>5
<1> HIDE DEF m
<1> QED BY <1>5, <1>6, <1>7, <1>8 DEF Ages

Ledger == [Sources -> [Ages -> Nat]]

\* A source with fewer attempts of each age has fewer ...
LEMMA CountLess ==
    ASSUME NEW rows \in Ledger, NEW more \in Ledger, NEW s \in Sources
    PROVE  /\ Count(rows, s) \in Nat
           /\ (\A a \in Ages : rows[s][a] <= more[s][a]) => Count(rows, s) <= Count(more, s)
<1>1. Numbers(rows[s], Ages) /\ Numbers(more[s], Ages)
  BY DEF Ledger, Numbers
<1>2. Count(rows, s) \in Nat
  BY <1>1, AgesFinite, SumRest DEF Count
<1>3. ASSUME \A a \in Ages : rows[s][a] <= more[s][a] PROVE Count(rows, s) <= Count(more, s)
  BY <1>1, <1>3, AgesFinite, SumLess DEF Count
<1> QED BY <1>2, <1>3

\* ... and so have all of them together.
LEMMA TotalLess ==
    ASSUME NEW rows \in Ledger, NEW more \in Ledger
    PROVE  /\ Total(rows) \in Nat
           /\ (\A s \in Sources : Count(rows, s) <= Count(more, s)) => Total(rows) <= Total(more)
<1> DEFINE f == [s \in Sources |-> Count(rows, s)]
           g == [s \in Sources |-> Count(more, s)]
<1>1. Numbers(f, Sources) /\ Numbers(g, Sources)
  BY CountLess DEF Numbers
<1>2. Total(rows) = SumFunctionOnSet(f, Sources) /\ Total(more) = SumFunctionOnSet(g, Sources)
  BY DEF Total, SumFunction
<1>3. ASSUME \A s \in Sources : Count(rows, s) <= Count(more, s) PROVE Total(rows) <= Total(more)
  <2>1. \A s \in Sources : f[s] <= g[s]
    BY <1>3
  <2> HIDE DEF f, g
  <2> QED BY <1>1, <1>2, <2>1, SourcesOK, SumLess
<1> HIDE DEF f, g
<1>4. Total(rows) \in Nat
  BY <1>1, <1>2, SourcesOK, SumRest
<1> QED BY <1>3, <1>4

\* An attempt that is counted is one more.
LEMMA CountedMore ==
    ASSUME NEW rows \in Ledger, NEW s \in Sources
    PROVE  /\ Counted(rows, s) \in Ledger
           /\ \A r \in Sources : Count(Counted(rows, s), r) =
                                    IF r = s THEN Count(rows, s) + 1 ELSE Count(rows, r)
           /\ Total(Counted(rows, s)) = Total(rows) + 1
<1> DEFINE more == Counted(rows, s)
<1>1. more \in Ledger /\ \A r \in Sources : r # s => more[r] = rows[r]
  BY RowTypes DEF Ledger, Counted
<1>2. more[s][0] = rows[s][0] + 1 /\ \A a \in Ages \ {0} : more[s][a] = rows[s][a]
  BY AgesFinite DEF Counted, Ledger
<1>3. Numbers(rows[s], Ages) /\ Numbers(more[s], Ages)
  BY <1>1 DEF Ledger, Numbers
<1> HIDE DEF more
<1>4. Count(more, s) = Count(rows, s) + 1
  <2>1. Count(more, s) + rows[s][0] = Count(rows, s) + more[s][0]
    BY <1>2, <1>3, AgesFinite, SumMore DEF Count
  <2>2. rows[s][0] \in Nat /\ Count(more, s) \in Nat /\ Count(rows, s) \in Nat
    BY <1>1, <1>3, AgesFinite, CountLess DEF Numbers
  <2> QED BY <1>2, <2>1, <2>2
<1>5. \A r \in Sources : r # s => Count(more, r) = Count(rows, r)
  BY <1>1 DEF Count
<1>6. Total(more) = Total(rows) + 1
  <2> DEFINE f == [r \in Sources |-> Count(rows, r)]
             g == [r \in Sources |-> Count(more, r)]
  <2>1. Numbers(f, Sources) /\ Numbers(g, Sources)
    BY <1>1, CountLess DEF Numbers
  <2>2. Total(rows) = SumFunctionOnSet(f, Sources) /\ Total(more) = SumFunctionOnSet(g, Sources)
    BY DEF Total, SumFunction
  <2>3. g[s] = f[s] + 1 /\ f[s] \in Nat /\ \A r \in Sources \ {s} : g[r] = f[r]
    BY <1>4, <1>5, CountLess
  <2>4. Total(rows) \in Nat /\ Total(more) \in Nat
    BY <1>1, TotalLess
  <2> HIDE DEF f, g
  <2>5. SumFunctionOnSet(g, Sources) + f[s] = SumFunctionOnSet(f, Sources) + g[s]
    BY <2>1, <2>3, SourcesOK, SumMore
  <2> QED BY <2>2, <2>3, <2>4, <2>5
<1> QED BY <1>1, <1>4, <1>5, <1>6 DEF more

\* Fewer passwords compared, of each source, are within the limits.
LEMMA LimitKept ==
    ASSUME LimitHolds, guesses \in Ledger, guesses' \in Ledger,
           \A s \in Sources : Count(guesses', s) <= Count(guesses, s)
    PROVE  LimitHolds'
<1>1. \A s \in Sources : Count(guesses, s) \in Nat /\ Count(guesses', s) \in Nat
  BY CountLess
<1>2. Total(guesses') <= Total(guesses) /\ Total(guesses) \in Nat /\ Total(guesses') \in Nat
  BY TotalLess
<1>3. \A s \in Sources : Count(guesses', s) <= SourceLimit
  BY <1>1, LimitsOK DEF LimitHolds
<1>4. Total(guesses') <= GlobalLimit
  BY <1>2, LimitsOK DEF LimitHolds
<1>5. Total(guesses)' = Total(guesses') /\ \A s \in Sources : Count(guesses, s)' = Count(guesses', s)
  BY DEF Total, Count
<1> QED BY <1>3, <1>4, <1>5 DEF LimitHolds

\* An attempt is admitted only below the limits, which count the rows of the window; every
\* password compared in it has its row.
LEMMA LimitStep ==
    ASSUME SessionsInv, SessionsInv', LimitHolds, [Next]_vars PROVE LimitHolds'
<1> USE DEF SessionsInv
<1>t. guesses \in Ledger /\ guesses' \in Ledger /\ attempts \in Ledger
  BY DEF TypeOK, Ledger
<1>1. ASSUME \A s \in Sources : \A a \in Ages : guesses'[s][a] <= guesses[s][a]
      PROVE  LimitHolds'
  BY <1>1, <1>t, CountLess, LimitKept
<1>2. CASE UNCHANGED guesses
  BY <1>1, <1>2, <1>t DEF Ledger
<1>3. ASSUME NEW h \in Hashes, SetAdministrator(h) PROVE LimitHolds'
  <2>1. \A s \in Sources : \A a \in Ages : guesses'[s][a] = 0 /\ guesses[s][a] \in Nat
    BY <1>3, <1>t DEF SetAdministrator, NoRows, Nobody, Ledger
  <2> QED BY <1>1, <2>1
<1>4. ASSUME NEW l \in Threads, NEW t \in Tokens, Accept(l, t) PROVE LimitHolds'
  <2>1. \A s \in Sources : \A a \in Ages : guesses'[s][a] \in {0, guesses[s][a]}
                                           /\ guesses[s][a] \in Nat
    BY <1>4, <1>t DEF Accept, Nobody, Ledger
  <2> QED BY <1>1, <2>1
<1>5. ASSUME NEW l \in Threads, Admit(l) PROVE LimitHolds'
  <2> DEFINE s == login[l].source
             seen == Pruned(attempts)
  <2>1. s \in Sources
    BY <1>5 DEF Admit, TypeOK
  <2>2. seen \in Ledger
    BY <1>t, RowTypes DEF Ledger
  <2>3. \A r \in Sources : \A a \in Ages : guesses[r][a] <= seen[r][a]
    BY <1>t, AgesFinite DEF GuessesHaveRows, Pruned, Ledger
  <2>4. guesses' = Counted(guesses, s)
    BY <1>5 DEF Admit
  <2>5. Count(seen, s) < SourceLimit /\ Total(seen) < GlobalLimit
    <3>1. ~(Total(seen) >= GlobalLimit) /\ ~(Count(seen, s) >= SourceLimit)
      BY <1>5 DEF Admit, Limited
    <3>2. Total(seen) \in Nat /\ Count(seen, s) \in Nat
      BY <2>1, <2>2, CountLess, TotalLess
    <3> HIDE DEF seen, s
    <3> QED BY <3>1, <3>2, LimitsOK
  <2> HIDE DEF seen, s
  <2>6. Count(guesses, s) <= Count(seen, s) /\ Total(guesses) <= Total(seen)
    <3>1. \A r \in Sources : Count(guesses, r) <= Count(seen, r)
      BY <1>t, <2>2, <2>3, CountLess
    <3> QED BY <1>t, <2>1, <2>2, <3>1, TotalLess
  <2>7. /\ Total(guesses') = Total(guesses) + 1
        /\ \A r \in Sources :
              Count(guesses', r) = IF r = s THEN Count(guesses, s) + 1 ELSE Count(guesses, r)
    BY <1>t, <2>1, <2>4, CountedMore
  <2>8. /\ Total(guesses) \in Nat /\ Total(seen) \in Nat
        /\ Count(guesses, s) \in Nat /\ Count(seen, s) \in Nat
    BY <1>t, <2>1, <2>2, CountLess, TotalLess
  <2>9. Total(guesses') <= GlobalLimit
    BY <2>5, <2>6, <2>7, <2>8, LimitsOK
  <2>10. \A r \in Sources : Count(guesses', r) <= SourceLimit
    BY <2>5, <2>6, <2>7, <2>8, LimitsOK DEF LimitHolds
  <2>11. Total(guesses)' = Total(guesses') /\ \A r \in Sources : Count(guesses, r)' = Count(guesses', r)
    BY DEF Total, Count
  <2> QED BY <2>9, <2>10, <2>11 DEF LimitHolds
<1>6. CASE Tick
  <2>1. ASSUME NEW s \in Sources PROVE Count(guesses', s) <= Count(guesses, s)
    <3> DEFINE r == guesses[s]
               o == guesses'[s]
    <3>1. r \in [Ages -> Nat] /\ o \in [Ages -> Nat]
      BY <1>t DEF Ledger
    <3>2. o = [Older(guesses)[s] EXCEPT ![Window] = 0]
      BY <1>6 DEF Tick
    <3>3. \A a \in Ages : o[a] = IF a \in {0, Window} THEN 0 ELSE r[a - 1]
      BY <3>2, LimitsOK DEF Older, Ages
    <3>4. o[0] = 0 /\ o[Window] = 0 /\ \A a \in 1..(Window - 1) : o[a] = r[a - 1]
      BY <3>3, LimitsOK DEF Ages
    <3> HIDE DEF r, o
    <3>5. SumFunctionOnSet(o, Ages) <= SumFunctionOnSet(r, Ages)
      BY <3>1, <3>4, SumOlder
    <3> QED BY <3>5 DEF Count, r, o
  <2> QED BY <1>t, <2>1, LimitKept
<1>7. \/ UNCHANGED guesses
      \/ \E h \in Hashes : SetAdministrator(h)
      \/ \E l \in Threads : Admit(l) \/ \E t \in Tokens : Accept(l, t)
      \/ Tick
  BY DEF Next, vars, LoginPage, Logout, Arrive, Refuse, Reject, Restart
<1> QED BY <1>2, <1>3, <1>4, <1>5, <1>6, <1>7

\* In no window are more passwords compared than the limits allow, whatever the threads, the
\* restarts and the successes of other sources: because every comparison is counted before it
\* begins, and a row stays until its age no longer counts.
THEOREM Limits == Spec => []LimitHolds
<1>1. Init => LimitHolds
  <2> SUFFICES ASSUME Init PROVE LimitHolds
    OBVIOUS
  <2>1. ASSUME NEW s \in Sources PROVE Count(guesses, s) = 0
    <3>1. guesses[s] = Nobody
      BY DEF Init, NoRows
    <3>2. \A a \in Ages : Nobody[a] = 0
      BY DEF Nobody
    <3> QED BY <3>1, <3>2, AgesFinite, SumNothing DEF Count
  <2>2. Total(guesses) = 0
    <3> DEFINE f == [s \in Sources |-> Count(guesses, s)]
    <3>1. Total(guesses) = SumFunctionOnSet(f, Sources)
      BY DEF Total, SumFunction
    <3>2. \A s \in Sources : f[s] = 0
      BY <2>1
    <3> HIDE DEF f
    <3> QED BY <3>1, <3>2, SourcesOK, SumNothing
  <2> QED BY <2>1, <2>2, LimitsOK DEF LimitHolds
<1>2. SessionsInv /\ LimitHolds /\ [Next]_vars => LimitHolds'
  BY SessionsStep, LimitStep
<1> QED BY <1>1, <1>2, SessionsInit, SessionsStep, PTL DEF Spec

-----------------------------------------------------------------------------
(* What LockoutEnds rests on: nothing that is tried during a lockout prolongs it. *)

\* A source that is locked out has no more rows that count after any step, whoever else tries,
\* and nor have all together when everyone is.
LockoutIsNotProlonged ==
    [][LET before == Pruned(attempts)
           after == Pruned(attempts')
       IN  /\ \A s \in Sources : Count(before, s) >= SourceLimit => Count(after, s) <= Count(before, s)
           /\ Total(before) >= GlobalLimit => Total(after) <= Total(before)]_vars

\* Every step but the admission of an attempt leaves rows out, or lets them get older.
LEMMA RowsFade ==
    ASSUME SessionsInv, SessionsInv', [Next]_vars, \A l \in Threads : ~Admit(l)
    PROVE  \A s \in Sources : Count(Pruned(attempts'), s) <= Count(Pruned(attempts), s)
<1> DEFINE before == Pruned(attempts)
           after == Pruned(attempts')
<1>1. attempts \in Ledger /\ attempts' \in Ledger
  BY DEF SessionsInv, TypeOK, Ledger
<1>2. before \in Ledger /\ after \in Ledger
  BY <1>1, RowTypes DEF Ledger
<1>3. /\ \A s \in Sources, a \in Ages : before[s][a] = IF a = Window THEN 0 ELSE attempts[s][a]
      /\ \A s \in Sources, a \in Ages : after[s][a] = IF a = Window THEN 0 ELSE attempts'[s][a]
  BY <1>1 DEF Pruned, Ledger
<1>4. CASE Tick
  <2> TAKE s \in Sources
  <2> DEFINE r == before[s]
             o == after[s]
  <2>1. r \in [Ages -> Nat] /\ o \in [Ages -> Nat]
    BY <1>2 DEF Ledger
  <2>2. \A a \in Ages : a # Window => attempts'[s][a] = IF a = 0 THEN 0 ELSE attempts[s][a - 1]
    BY <1>4, LimitsOK DEF Tick, Older, Ages
  <2>3. o[0] = 0 /\ o[Window] = 0 /\ \A a \in 1..(Window - 1) : o[a] = r[a - 1]
    <3>1. o[0] = 0 /\ o[Window] = 0
      BY <1>3, <2>2, AgesFinite
    <3>2. ASSUME NEW a \in 1..(Window - 1) PROVE o[a] = r[a - 1]
      <4>1. a \in Ages /\ a - 1 \in Ages /\ a # Window /\ a - 1 # Window /\ a # 0
        BY <3>2, LimitsOK DEF Ages
      <4> QED BY <1>3, <2>2, <4>1
    <3> QED BY <3>1, <3>2
  <2> HIDE DEF r, o
  <2>4. SumFunctionOnSet(o, Ages) <= SumFunctionOnSet(r, Ages)
    BY <2>1, <2>3, SumOlder
  <2> QED BY <2>4 DEF Count, r, o
<1>5. ASSUME \A s \in Sources, a \in Ages : after[s][a] <= before[s][a]
      PROVE  \A s \in Sources : Count(after, s) <= Count(before, s)
  <2> HIDE DEF after, before
  <2> QED BY <1>2, <1>5, CountLess
<1>6. ASSUME \A s \in Sources, a \in Ages : attempts'[s][a] \in {0, attempts[s][a], before[s][a]}
      PROVE  \A s \in Sources : Count(after, s) <= Count(before, s)
  <2> SUFFICES ASSUME NEW s \in Sources, NEW a \in Ages PROVE after[s][a] <= before[s][a]
    BY <1>5
  <2>1. before[s][a] \in Nat /\ attempts[s][a] \in Nat
    BY <1>1, <1>2 DEF Ledger
  <2> HIDE DEF after, before
  <2> QED BY <1>3, <1>6, <2>1
<1>7. CASE UNCHANGED attempts
  BY <1>6, <1>7
<1>8. CASE \E h \in Hashes : SetAdministrator(h)
  BY <1>6, <1>8 DEF SetAdministrator, NoRows, Nobody
<1>9. CASE \E l \in Threads : Refuse(l)
  BY <1>6, <1>9 DEF Refuse
<1>10. CASE \E l \in Threads, t \in Tokens : Accept(l, t)
  <2>1. \A s \in Sources, a \in Ages : attempts'[s][a] \in {0, attempts[s][a]}
    BY <1>1, <1>10 DEF Accept, Nobody, Ledger
  <2> QED BY <1>6, <2>1
<1> QED
  BY <1>4, <1>7, <1>8, <1>9, <1>10
     DEF Next, vars, LoginPage, Logout, Arrive, Reject, Restart

\* An attempt is admitted for a source that is not locked out, when not everyone is.
LEMMA AdmitSpares ==
    ASSUME SessionsInv, NEW l \in Threads, Admit(l)
    PROVE  /\ ~(Total(Pruned(attempts)) >= GlobalLimit)
           /\ \A s \in Sources : Count(Pruned(attempts), s) >= SourceLimit =>
                 Pruned(attempts')[s] = Pruned(attempts)[s]
<1> DEFINE before == Pruned(attempts)
<1>1. attempts \in Ledger
  BY DEF SessionsInv, TypeOK, Ledger
<1>2. /\ ~(Total(before) >= GlobalLimit) /\ ~(Count(before, login[l].source) >= SourceLimit)
      /\ attempts' = Counted(before, login[l].source)
  BY DEF Admit, Limited
<1>3. ASSUME NEW s \in Sources, s # login[l].source PROVE Pruned(attempts')[s] = before[s]
  <2>1. attempts'[s] = before[s] /\ before[s] = [attempts[s] EXCEPT ![Window] = 0]
    BY <1>1, <1>2, <1>3 DEF Counted, Pruned, Ledger
  <2>2. Pruned(attempts')[s] = [attempts'[s] EXCEPT ![Window] = 0]
    BY DEF Pruned
  <2>3. attempts[s] \in [Ages -> Nat]
    BY <1>1 DEF Ledger
  <2> HIDE DEF before
  <2> QED BY <2>1, <2>2, <2>3
<1> HIDE DEF before
<1>4. \A s \in Sources : Count(before, s) >= SourceLimit => s # login[l].source
  BY <1>2
<1> QED BY <1>2, <1>3, <1>4 DEF before

\* A lockout is never prolonged: by no refused attempt, no other source, no success or restart.
THEOREM LockoutFades == Spec => LockoutIsNotProlonged
<1> DEFINE before == Pruned(attempts)
           after == Pruned(attempts')
           Fades == /\ \A s \in Sources :
                          Count(before, s) >= SourceLimit => Count(after, s) <= Count(before, s)
                    /\ Total(before) >= GlobalLimit => Total(after) <= Total(before)
<1>1. ASSUME SessionsInv, SessionsInv', [Next]_vars PROVE Fades
  <2>1. attempts \in Ledger /\ attempts' \in Ledger
    BY <1>1 DEF SessionsInv, TypeOK, Ledger
  <2>2. before \in Ledger /\ after \in Ledger
    BY <2>1, RowTypes DEF Ledger
  <2>3. CASE \A l \in Threads : ~Admit(l)
    <3>1. \A s \in Sources : Count(after, s) <= Count(before, s)
      BY <1>1, <2>3, RowsFade
    <3> HIDE DEF before, after
    <3> QED BY <2>2, <3>1, TotalLess
  <2>4. ASSUME NEW l \in Threads, Admit(l) PROVE Fades
    <3>1. /\ ~(Total(before) >= GlobalLimit)
          /\ \A s \in Sources : Count(before, s) >= SourceLimit => after[s] = before[s]
      BY <1>1, <2>4, AdmitSpares
    <3>2. \A s \in Sources : Count(before, s) \in Nat
      <4> HIDE DEF before
      <4> QED BY <2>2, CountLess
    <3> HIDE DEF before, after
    <3> QED BY <3>1, <3>2 DEF Count
  <2> QED BY <2>3, <2>4
<1>2. SessionsInv /\ SessionsInv' /\ [Next]_vars => [Fades]_vars
  BY <1>1
<1> QED BY <1>2, SessionsInit, SessionsStep, PTL DEF Spec, LockoutIsNotProlonged

====
