------------------------------ MODULE ToolCreator ------------------------------
(***************************************************************************)
(* problems/tool_creator_challenge: a case is a number of computations,    *)
(* each answered once and the first wrong answer fatal.  The expected      *)
(* answers come from the generator's solvers, which are loops; the users'  *)
(* tools compute what the descriptions define.                             *)
(***************************************************************************)
EXTENDS TurnBasedCase, SequencesExt

CONSTANTS
  Arguments,    \* bound: the n of a task
  QueryCount    \* queries_per_case

(* --- The definitions the descriptions give. --------------------------- *)

TaskTypes == {"fibonacci", "factorial_digit_sum", "power_mod", "collatz_steps", "nth_prime",
              "combinations", "catalan", "tribonacci", "lucas", "partition"}

Linear(first, order) ==   \* each term is the sum of the last `order' ones
  LET term[n \in Nat] ==
        IF n <= order THEN first[n]
        ELSE IF order = 2 THEN term[n - 1] + term[n - 2]
        ELSE term[n - 1] + term[n - 2] + term[n - 3]
  IN term

Factorial[n \in Nat] == IF n = 0 THEN 1 ELSE n * Factorial[n - 1]
DigitSum[n \in Nat] == IF n = 0 THEN 0 ELSE (n % 10) + DigitSum[n \div 10]
Binomial(n, k) == Factorial[n] \div (Factorial[k] * Factorial[n - k])
CollatzSteps[n \in Nat] ==
  IF n = 1 THEN 0 ELSE 1 + CollatzSteps[IF n % 2 = 0 THEN n \div 2 ELSE 3 * n + 1]
Prime(n) == n >= 2 /\ \A d \in 2..(n - 1) : n % d # 0
Partitions(n, largest) ==   \* of n into parts of at most `largest'
  LET count[m \in 0..n, k \in 0..n] ==
        IF m = 0 THEN 1 ELSE IF k = 0 THEN 0
        ELSE count[m, k - 1] + (IF k <= m THEN count[m - k, k] ELSE 0)
  IN count[n, largest]

Definition(type, n) ==
  CASE type = "fibonacci" -> Linear(<<1, 1>>, 2)[n]
    [] type = "factorial_digit_sum" -> DigitSum[Factorial[n]]
    [] type = "power_mod" -> (3 ^ n) % 7
    [] type = "collatz_steps" -> CollatzSteps[n]
    [] type = "nth_prime" ->
         CHOOSE p \in 2..(n * n + 1) : Prime(p) /\ Cardinality({q \in 2..p : Prime(q)}) = n
    [] type = "combinations" -> Binomial(n + 2, 2)
    [] type = "catalan" -> Binomial(2 * n, n) \div (n + 1)
    [] type = "tribonacci" -> Linear(<<0, 0, 1>>, 3)[n + 1]
    [] type = "lucas" -> Linear(<<1, 3>>, 2)[n]
    [] type = "partition" -> Partitions(n, n)

(* --- The solvers. ------------------------------------------------------ *)

Loop(step(_), state, times) == FoldLeft(LAMBDA s, i : step(s), state, [i \in 1..times |-> i])

_solve_fibonacci(n) ==
  IF n <= 2 THEN 1 ELSE Loop(LAMBDA s : <<s[2], s[1] + s[2]>>, <<1, 1>>, n - 2)[2]

_solve_tribonacci(n) ==
  IF n <= 2 THEN <<0, 0, 1>>[n + 1]
  ELSE Loop(LAMBDA s : <<s[2], s[3], s[1] + s[2] + s[3]>>, <<0, 0, 1>>, n - 2)[3]

(* Mutant: one round of the loop too few. *)
LucasShort(n) ==
  IF n <= 2 THEN <<1, 3>>[n] ELSE Loop(LAMBDA s : <<s[2], s[1] + s[2]>>, <<1, 3>>, n - 3)[2]

_solve_lucas(n) ==
  IF n <= 2 THEN <<1, 3>>[n] ELSE Loop(LAMBDA s : <<s[2], s[1] + s[2]>>, <<1, 3>>, n - 2)[2]

(* Trial division by 2, 3 and then i and i + 2 for i = 5, 11, 17, ...      *)
_is_prime(num) ==
  /\ num >= 2
  /\ num >= 4 =>
       /\ num % 2 # 0 /\ num % 3 # 0
       /\ \A i \in {6 * j - 1 : j \in 1..num} :
            i * i <= num => num % i # 0 /\ num % (i + 2) # 0

(* The odd candidates from 3 on, counted when they are prime. *)
_solve_nth_prime(n) ==
  LET nth[count \in Nat, candidate \in Nat] ==
        LET now == IF _is_prime(candidate) THEN count + 1 ELSE count
        IN IF now = n THEN candidate ELSE nth[now, candidate + 2]
  IN IF n = 1 THEN 2 ELSE nth[1, 3]

_solve_partition(n) ==
  LET use(p, k) == Loop(LAMBDA s : [at |-> s.at + 1,
                                    p |-> [s.p EXCEPT ![s.at] = @ + s.p[s.at - k]]],
                        [at |-> k, p |-> p], n - k + 1).p
  IN FoldLeft(use, [i \in 0..n |-> IF i = 0 THEN 1 ELSE 0], [k \in 1..n |-> k])[n]

_solve_collatz_steps(n) ==
  LET steps[m \in Nat, taken \in Nat] ==
        CASE m = 1 -> taken
          [] m # 1 /\ m % 2 = 0 -> steps[m \div 2, taken + 1]
          [] OTHER -> steps[3 * m + 1, taken + 1]
  IN steps[n, 0]

(* The others are one expression over Python's factorial, comb and pow.    *)
_compute_answer(type, n) ==
  CASE type = "fibonacci" -> _solve_fibonacci(n)
    [] type = "collatz_steps" -> _solve_collatz_steps(n)
    [] type = "nth_prime" -> _solve_nth_prime(n)
    [] type = "tribonacci" -> _solve_tribonacci(n)
    [] type = "lucas" -> _solve_lucas(n)
    [] type = "partition" -> _solve_partition(n)
    [] OTHER -> Definition(type, n)

(* Every solver computes its definition, for every argument. *)
SolversRight ==
  \A type \in TaskTypes, n \in Arguments : _compute_answer(type, n) = Definition(type, n)

(* --- The case. --------------------------------------------------------- *)

(* random.sample draws different entries of the pool. *)
Tasks == TaskTypes \X Arguments

CreatorInit ==
  /\ CaseInit
  /\ \E tasks \in {t \in [0..(QueryCount - 1) -> Tasks] :
                     \A i, j \in DOMAIN t : i # j => t[i] # t[j]} :
       env = [tasks |-> tasks, expected |-> [q \in DOMAIN tasks |->
                                               _compute_answer(tasks[q][1], tasks[q][2])],
              submitted |-> {}, correct |-> {}]

GetQueries == Applied(env, FALSE, FALSE, 0)

(* An unknown or repeated query is refused and costs nothing. *)
SubmitRefused(q) ==
  /\ q \notin DOMAIN env.expected \/ q \in env.submitted
  /\ Applied(env, FALSE, FALSE, 0)

(* int(query_id) raises for what is no number. *)
SubmitUnread == Raised

Submit(q, answer) ==
  /\ q \in DOMAIN env.expected \ env.submitted
  /\ LET right == answer = env.expected[q]
         e == [env EXCEPT !.submitted = @ \cup {q},
                          !.correct = IF right THEN @ \cup {q} ELSE @]
         all == e.correct = DOMAIN env.expected
     IN Applied(e, ~right \/ all, right, IF right /\ all THEN 100 ELSE 0)

(* A tool computes what the description says, or something else. *)
Answers(q) == {Definition(env.tasks[q][1], env.tasks[q][2]), -1}

CreatorNext ==
  \/ GetQueries
  \/ \E q \in -1..QueryCount : SubmitRefused(q)
  \/ SubmitUnread
  \/ \E q \in DOMAIN env.tasks : \E answer \in Answers(q) : Submit(q, answer)
  \/ Interrupted(0)

(* The solvers compute what the descriptions define, so that right tools   *)
(* pass and only they do: a case fails on a wrong answer and on nothing    *)
(* else, and passes when every query was answered.                         *)
CreatorEarned ==
  /\ \A q \in DOMAIN env.tasks : env.expected[q] = Definition(env.tasks[q][1], env.tasks[q][2])
  /\ verdict = "passed" => env.submitted = DOMAIN env.expected
  /\ verdict = "failed" => env.correct # env.submitted
=============================================================================
