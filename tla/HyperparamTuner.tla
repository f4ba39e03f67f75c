---------------------------- MODULE HyperparamTuner ----------------------------
(***************************************************************************)
(* problems/ml_hyperparam_tuner: a few trials of training with feedback on *)
(* validation data, then one configuration is judged on the test data.     *)
(***************************************************************************)
EXTENDS TurnBasedCase

CONSTANTS
  Configs,      \* a model's name with its parameters
  BadConfigs,   \* of these, what _validate_params rejects or training fails on
  NoConfig,     \* an empty configuration
  Accuracies,   \* percentages a configuration may reach
  MaxTrials

TunerAssumption ==
  NoConfig \notin Configs /\ Accuracies \subseteq Nat /\ MaxTrials \in Nat

NotSubmitted == "not submitted"
Usable == Configs \ BadConfigs

TunerInit ==
  /\ CaseInit
  /\ \E val, test \in [Usable -> Accuracies] :
       env = [val |-> val, test |-> test, trials_used |-> 0, trained |-> {},
              best_config |-> NoConfig, best_val |-> 0, submitted |-> NotSubmitted]

GetProblemInfo == Applied(env, FALSE, FALSE, 0)

Train(c) ==
  /\ env.trials_used < MaxTrials /\ c \in Usable
  /\ LET better == env.val[c] > env.best_val IN
     Applied([env EXCEPT !.trials_used = @ + 1, !.trained = @ \cup {c},
                         !.best_config = IF better THEN c ELSE @,
                         !.best_val = IF better THEN env.val[c] ELSE @],
             FALSE, FALSE, 0)

(* One trial too many, or a bad configuration, and the judge itself stops. *)
TrainRaises(c) == (env.trials_used >= MaxTrials \/ c \notin Usable) /\ Raised

(* Mutant: the best configuration is kept although one was submitted. *)
PreferBest(c) == IF env.best_config # NoConfig THEN env.best_config ELSE c

SubmittedConfig(c) == IF c = NoConfig THEN env.best_config ELSE c

TestPoints(accuracy) ==
  CASE accuracy >= 95 -> 100
    [] accuracy \in 90..94 -> 80
    [] accuracy \in 85..89 -> 50
    [] accuracy \in 80..84 -> 20
    [] OTHER -> 0

SubmitAnswer(c) ==
  LET config == SubmittedConfig(c)
      e == [env EXCEPT !.submitted = c]
  IN IF config \in Usable
     THEN Applied(e, TRUE, env.test[config] >= 90, TestPoints(env.test[config]))
     ELSE Applied(e, TRUE, FALSE, 0)

UnknownAction == Applied(env, FALSE, FALSE, 0)

TunerNext ==
  \/ GetProblemInfo
  \/ \E c \in Configs : Train(c)
  \/ \E c \in Configs : TrainRaises(c)
  \/ \E c \in Configs \cup {NoConfig} : SubmitAnswer(c)
  \/ UnknownAction
  \/ Interrupted(0)

(* An empty submission stands for the first of the trained configurations  *)
(* with the best validation accuracy, any other for itself; it passes with *)
(* 90% on the test data, which no trial has shown the user.                *)
TunerEarned ==
  /\ env.trials_used <= MaxTrials
  /\ \A c \in env.trained : env.val[c] <= env.best_val
  /\ verdict = "passed" =>
       IF env.submitted = NoConfig
       THEN \E c \in env.trained : env.test[c] >= 90 /\ env.val[c] = env.best_val
       ELSE env.test[env.submitted] >= 90
=============================================================================
