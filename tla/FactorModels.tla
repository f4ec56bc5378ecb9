---------------------------- MODULE FactorModels ----------------------------
(***************************************************************************)
(* Machine-learning factors: training, walk-forward evaluation, the        *)
(* registry of models and its files (src/ist/risk/ml_factors.py), and      *)
(* the requests of the API (src/ist/api/routers/ml_factors.py).            *)
(*                                                                         *)
(* What an estimator learns is which columns and rows it was given, in     *)
(* this order; its scores are any.  The handlers never await, so a request *)
(* is one step.  All models have one name, and all of it happens on one    *)
(* day; functions registered with add_feature, which no request can do,    *)
(* are left out.                                                           *)
(***************************************************************************)
EXTENDS Integers, SequencesExt, Selections

CONSTANTS
  Listings,    \* the feature_columns of requests, empty for none
  Frames,      \* the data of requests: columns and number of rows
  Windows,     \* the walk_forward of requests: train, test and step
  Scores, NaN, \* what models score; the score that compares with none
  SavesModels, \* _save_dir is set
  MaxModels, MaxSaved, MaxTrainings \* bounds: models at a time, files, ids given to trainings

VARIABLES
  models,      \* _models: the factor of each id
  results,     \* _results: the training result of each id
  disk,        \* the saved factors
  trainings,   \* how many ids trainings were given
  said         \* the last answer of predict or walk_forward_optimize

factorVars == <<models, results, disk, trainings, said>>

-----------------------------------------------------------------------------
(* MLFactor                                                                *)

Columns(listed, frame) == IF listed = <<>> THEN frame.columns ELSE listed
Available(columns, frame) ==
  Kept(columns, {i \in DOMAIN columns : columns[i] \in ToSet(frame.columns)})

\* Importances go to the listed columns in their order, whichever of them were available.
Importances(columns, used) == [i \in DOMAIN used |-> [of |-> columns[i], is |-> used[i]]]

\* The last fifth of the rows, rounded up, is for the test.
Trains(n) == n - (n + 4) \div 5

FitRaises(listed, frame, n) ==
  Available(Columns(listed, frame), frame) = <<>> \/ Trains(n) = 0

\* fit on n rows from the first on: the factor, with its result.
Fitted(listed, frame, first, n, id, score) ==
  LET columns == Columns(listed, frame)
      used == Available(columns, frame)
      learnt == first..(first + Trains(n) - 1)
  IN [columns |-> columns, used |-> used, learnt |-> learnt,
      result |-> [id |-> id, columns |-> columns, importances |-> Importances(columns, used),
                  learnt |-> learnt, given |-> first..(first + n - 1),
                  scoredOn |-> (first + Trains(n))..(first + n - 1),
                  score |-> score, fold |-> 0, folds |-> 0, saved |-> FALSE]]

\* sklearn wants the columns it was fitted on, no more and no fewer.
Predicts(factor, frame) == Available(factor.columns, frame) = factor.used

-----------------------------------------------------------------------------
(* WalkForwardSplit and WalkForwardOptimizer                               *)

\* The folds: start + train + test stays within the rows.
Folds(window, rows) ==
  {k \in 1..rows : (k - 1) * window.step + window.train + window.test <= rows}

FoldStart(window, k) == (k - 1) * window.step

get_n_splits(window, rows) ==
  LET starts == rows - window.train - window.test
  IN  (IF starts < 0 THEN 0 ELSE starts) \div window.step + 1

\* Mutant: the test begins with the last row that was given for training.
TestRows_Overlap(window, k) ==
  LET end == FoldStart(window, k) + window.train
  IN  (end - 1)..(end + window.test - 2)

TestRows(window, k) ==
  LET end == FoldStart(window, k) + window.train
  IN  end..(end + window.test - 1)

\* evaluate: the score of a fold is the one on its test rows.
FoldFactor(listed, frame, window, k, score) ==
  LET f == Fitted(listed, frame, FoldStart(window, k), window.train, <<"fold", k>>, score)
  IN [f EXCEPT !.result = [@ EXCEPT !.scoredOn = TestRows(window, k), !.fold = k,
                                    !.folds = Cardinality(Folds(window, frame.rows))]]

Beats(s, t) == s # NaN /\ t # NaN /\ s > t

\* max over the results: the first that none after it beats.
BestFold(score) ==
  LET best[k \in 1..Len(score)] ==
        IF k = 1 THEN 1 ELSE IF Beats(score[k], score[best[k - 1]]) THEN k ELSE best[k - 1]
  IN  best[Len(score)]

-----------------------------------------------------------------------------
(* MLFactorRegistry                                                        *)

Entry(map, id, value) == [i \in DOMAIN map \cup {id} |-> IF i = id THEN value ELSE map[i]]
Less(map, id) == [i \in DOMAIN map \ {id} |-> map[i]]

\* The factor is saved as it is before its result is told the path.
register(factor, result) ==
  /\ Cardinality(DOMAIN models \cup {result.id}) <= MaxModels
  /\ disk' = IF SavesModels THEN disk \cup {factor} ELSE disk
  /\ Cardinality(disk') <= MaxSaved
  /\ LET kept == [result EXCEPT !.saved = @ \/ SavesModels]
     IN /\ results' = Entry(results, result.id, kept)
        /\ models' = Entry(models, result.id,
             IF factor.result = result THEN [factor EXCEPT !.result = kept] ELSE factor)

remove(id) ==
  /\ id \in DOMAIN models
  /\ models' = Less(models, id) /\ results' = Less(results, id)

-----------------------------------------------------------------------------
(* The requests                                                            *)

train_model(listed, frame, score) ==
  /\ trainings < MaxTrainings
  /\ ~FitRaises(listed, frame, frame.rows)
  /\ trainings' = trainings + 1
  /\ LET f == Fitted(listed, frame, 0, frame.rows, <<"training", trainings'>>, score)
     IN  register(f, f.result)
  /\ said' = {}

\* The factor that is registered is the one fitted last.
walk_forward_optimize(listed, frame, window, score) ==
  LET factor(k) == FoldFactor(listed, frame, window, k, score[k])
      best == BestFold(score)
  IN /\ window.step > 0 /\ ~FitRaises(listed, frame, window.train)
     /\ Len(score) > 0 /\ Len(score) = Cardinality(Folds(window, frame.rows))
     /\ register(factor(Len(score)), factor(best).result)
     /\ said' = {[op |-> "walk", id |-> <<"fold", best>>, score |-> score,
                  announced |-> get_n_splits(window, frame.rows)]}
     /\ UNCHANGED trainings

\* No window fits, or a fold raises: nothing is registered.
WalkEndsEmpty(frame, window) ==
  /\ Folds(window, frame.rows) = {} \/ window.step = 0
  /\ said' = {} /\ UNCHANGED <<models, results, disk, trainings>>

predict(id, frame) ==
  /\ id \in DOMAIN models
  /\ said' = {[op |-> "predict", id |-> id, frame |-> frame, ok |-> Predicts(models[id], frame)]}
  /\ UNCHANGED <<models, results, disk, trainings>>

delete_model(id) ==
  remove(id) /\ said' = {} /\ UNCHANGED <<disk, trainings>>

\* The program ends and starts again.
Restart ==
  /\ models' = <<>> /\ results' = <<>> /\ said' = {}
  /\ UNCHANGED <<disk, trainings>>

\* MLFactor.load, and the factor is registered with the result that was saved.
LoadAndRegister(factor) ==
  register(factor, factor.result) /\ said' = {} /\ UNCHANGED trainings

-----------------------------------------------------------------------------
FactorInit ==
  /\ models = <<>> /\ results = <<>> /\ disk = {} /\ trainings = 0 /\ said = {}

FactorNext ==
  \/ \E listed \in Listings, frame \in Frames :
       \/ \E score \in Scores \cup {NaN} : train_model(listed, frame, score)
       \/ \E window \in Windows : \E score \in [1..Cardinality(Folds(window, frame.rows)) -> Scores \cup {NaN}] :
            walk_forward_optimize(listed, frame, window, score)
  \/ \E frame \in Frames, window \in Windows : WalkEndsEmpty(frame, window)
  \/ \E id \in DOMAIN models : delete_model(id) \/ \E frame \in Frames : predict(id, frame)
  \/ Restart
  \/ \E factor \in disk : LoadAndRegister(factor)

FactorSpec == FactorInit /\ [][FactorNext]_factorVars

-----------------------------------------------------------------------------
(* Properties                                                              *)

\* A result that is not the one of the last fold, which is the one that is registered
EarlierFold(result) == result.fold < result.folds

\* Models and results are registered together; a result was scored on rows after all
\* that its model was given, and belongs to the model of its id, unless an earlier fold
\* was the best; its importances are those of the columns they are said to be of, unless
\* listed columns were missing.
ResultsDescribeModels ==
  /\ DOMAIN models = DOMAIN results
  /\ \A id \in DOMAIN models :
       LET f == models[id]
           r == results[id]
       IN /\ r.id = id /\ (f.result = r \/ EarlierFold(r))
          /\ \A s \in r.scoredOn : \A g \in IF r.fold = 0 THEN r.learnt ELSE r.given : g < s
          /\ f.used = f.columns => \A i \in DOMAIN r.importances : r.importances[i].of = r.importances[i].is
  /\ \A f \in disk \cup {models[id] : id \in DOMAIN models} : f.result.learnt = f.learnt

\* The best fold is one that no other beats, unless the first has a score that compares
\* with none; and the folds that are announced are those there are.
BestFoldWins ==
  \A answer \in said : answer.op = "walk" =>
    LET score == answer.score
        r == results[answer.id]
    IN /\ r.score = score[r.fold]
       /\ score[1] = NaN \/ \A k \in DOMAIN score : ~Beats(score[k], r.score)
       /\ answer.announced = Len(score) /\ r.folds = Len(score)

\* A model predicts from the columns it was fitted on, whatever happened to it since;
\* from more it may not.
PredictsAsFitted ==
  \A answer \in said : answer.op = "predict" =>
    LET f == models[answer.id]
        had == ToSet(answer.frame.columns)
    IN /\ answer.ok => ToSet(f.used) \subseteq had
       /\ had = ToSet(f.used) => answer.ok

\* ResultsDescribeModels, BestFoldWins and PredictsAsFitted: what is known of a model
\* is so.
RegistryIsTruthful == ResultsDescribeModels /\ BestFoldWins /\ PredictsAsFitted

\* "Register the best model": the model that is registered is the one whose result is.
BestModelIsRegistered ==
  \A id \in DOMAIN models : models[id].learnt = results[id].learnt
=============================================================================
