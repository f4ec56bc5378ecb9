------------------------------ MODULE Optimizer ------------------------------
(***************************************************************************)
(* Parameter optimization (src/ist/strategy/optimization.py): grid and     *)
(* random search, walk-forward windows and the genetic search.             *)
(*                                                                         *)
(* A backtest of a parameter set always gives the same fitness, or always  *)
(* fails.  Every run of it is a step, for it is foreign code that may      *)
(* raise.                                                                  *)
(***************************************************************************)
EXTENDS Integers, Sequences, FiniteSets, FiniteSetsExt, SequencesExt

CONSTANTS
  Genes, Values,   \* a parameter set gives each gene a value
  Fails,           \* the backtest raises
  Fitnesses,       \* what a backtest may give
  Iterations,      \* n_iterations
  Population, Generations,   \* population_size, generations
  Periods, TrainDays, TestDays, DataDays, \* of walk_forward_optimization
  MaxSearches      \* bound: searches started

ASSUME OptimizerAssumption ==
  /\ Fitnesses \subseteq Int /\ Fails \notin Int /\ \A f \in Fitnesses : f > -999
  /\ Population \in Nat \ {0} /\ Generations \in Nat \ {0} /\ Iterations \in Nat
  /\ Periods \in Nat /\ TrainDays \in Nat \ {0} /\ TestDays \in Nat \ {0} /\ DataDays \in Nat
  /\ MaxSearches \in Nat
  /\ IsFiniteSet([Genes -> Values])

VARIABLES
  fit,       \* what the backtest of each parameter set gives
  results,   \* _results of the ParameterOptimizer
  search,    \* the search under way
  outcome,   \* what the last search returned
  searches   \* how many were started

optimizerVars == <<fit, results, search, outcome, searches>>

Params == [Genes -> Values]
Grid == SetToSeq(Params) \* the order of itertools.product
NoSearch == [op |-> "idle"]
None == [found |-> FALSE]
Worst == -999 \* the fitness of a failed individual

-----------------------------------------------------------------------------
(* ParameterOptimizer                                                      *)

\* A failed backtest is skipped; only a better one replaces the best.
Improve(best, p) ==
  IF fit[p] # Fails /\ (~best.found \/ fit[p] > best.fitness)
    THEN [found |-> TRUE, params |-> p, fitness |-> fit[p]] ELSE best

Recorded(p) == IF fit[p] = Fails THEN <<>> ELSE <<[params |-> p, fitness |-> fit[p]]>>

Start(s) ==
  /\ search = NoSearch /\ searches < MaxSearches
  /\ searches' = searches + 1
  /\ search' = s
  /\ outcome' = None
  /\ UNCHANGED <<fit, results>>

GridSearch == Start([op |-> "grid", tried |-> <<>>, best |-> None])
RandomSearch == Start([op |-> "random", tried |-> <<>>, best |-> None])

Try(p) ==
  /\ results' = results \o Recorded(p)
  /\ search' = [search EXCEPT !.tried = Append(@, p), !.best = Improve(@, p)]
  /\ UNCHANGED <<fit, outcome, searches>>

GridStep ==
  /\ search.op = "grid" /\ Len(search.tried) < Len(Grid)
  /\ Try(Grid[Len(search.tried) + 1])

RandomStep ==
  /\ search.op = "random" /\ Len(search.tried) < Iterations
  /\ \E p \in Params : Try(p)

\* The search returns its best, or raises when every backtest failed.
SearchEnds ==
  /\ \/ search.op = "grid" /\ Len(search.tried) = Len(Grid)
     \/ search.op = "random" /\ Len(search.tried) = Iterations
  /\ outcome' = [op |-> search.op, tried |-> search.tried, best |-> search.best]
  /\ search' = NoSearch
  /\ UNCHANGED <<fit, results, searches>>

\* get_top_results(1): sorted is stable.
TopResult == CHOOSE r \in ToSet(results) : \A s \in ToSet(results) : s.fitness <= r.fitness

-----------------------------------------------------------------------------
(* walk_forward_optimization: its training runs have optimizers of their   *)
(* own, so that nothing is added to the results.                           *)

WalkForward == Start([op |-> "walk", windows |-> <<>>])

WalkStart == IF search.windows = <<>> THEN 0 ELSE Last(search.windows).test[2]

\* The best of the first n of the grid, for its grid search
Searched[n \in 0..Len(Grid)] == IF n = 0 THEN None ELSE Improve(Searched[n - 1], Grid[n])

Window ==
  LET trained == WalkStart + TrainDays
  IN [train |-> <<WalkStart, trained>>, test |-> <<trained, trained + TestDays>>,
      best |-> Searched[Len(Grid)]]

MoreWindows == Len(search.windows) < Periods /\ WalkStart + TrainDays + TestDays <= DataDays

WalkStep ==
  /\ search.op = "walk" /\ MoreWindows
  /\ IF Window.best.found
       THEN /\ search' = [search EXCEPT !.windows = Append(@, Window)]
            /\ UNCHANGED outcome
       ELSE search' = NoSearch /\ outcome' = None
  /\ UNCHANGED <<fit, results, searches>>

WalkEnds ==
  /\ search.op = "walk" /\ ~MoreWindows
  /\ outcome' = [op |-> "walk", windows |-> search.windows]
  /\ search' = NoSearch
  /\ UNCHANGED <<fit, results, searches>>

-----------------------------------------------------------------------------
(* GeneticOptimizer.  A fitness of 0 stands for one not evaluated yet.     *)

Individual(p) == [params |-> p, fitness |-> 0]

Genetic ==
  \E maximize \in BOOLEAN, first \in [1..Population -> Params] :
    Start([op |-> "genetic", maximize |-> maximize, generation |-> 0, best |-> None,
           population |-> [i \in 1..Population |-> Individual(first[i])], next |-> <<>>,
           seen |-> {}])

Evaluated(x) ==
  IF x.fitness # 0 THEN x
  ELSE [x EXCEPT !.fitness = IF fit[x.params] = Fails THEN Worst ELSE fit[x.params]]

Better(maximize, x, y) == IF maximize THEN x > y ELSE x < y

\* The first of the best, as sorted is stable
Leader(maximize, population) ==
  population[Min({i \in DOMAIN population : \A j \in DOMAIN population :
                    ~Better(maximize, population[j].fitness, population[i].fitness)})]

\* The generation is evaluated, and its best goes into the next one.
Evaluate ==
  /\ search.op = "genetic" /\ search.next = <<>> /\ search.generation < Generations
  /\ LET population == [i \in DOMAIN search.population |-> Evaluated(search.population[i])]
         leader == Leader(search.maximize, population)
     IN search' = [search EXCEPT
          !.population = population,
          !.generation = @ + 1,
          !.next = <<leader>>,
          !.seen = @ \cup {population[i].params : i \in DOMAIN population},
          !.best = IF ~@.found \/ Better(search.maximize, leader.fitness, @.fitness)
                     THEN [found |-> TRUE, params |-> leader.params, fitness |-> leader.fitness]
                     ELSE @]
  /\ UNCHANGED <<fit, results, outcome, searches>>

Crossover(p, q) == {c \in Params : \A g \in Genes : c[g] \in {p[g], q[g]}}
Mutations(p) == {[p EXCEPT ![g] = v] : g \in Genes, v \in Values}

\* A tournament of three drawn with replacement may select anyone.  A child that is
\* neither crossed nor mutated is its first parent, fitness included.
Breed ==
  /\ search.op = "genetic" /\ search.next # <<>> /\ Len(search.next) < Population
  /\ \E i, j \in DOMAIN search.population :
       LET x == search.population[i]
           y == search.population[j]
           crossed == {Individual(c) : c \in Crossover(x.params, y.params)}
       IN
       \E child \in {x} \cup crossed
                    \cup {Individual(c) : c \in UNION {Mutations(z.params) : z \in {x} \cup crossed}} :
         search' = [search EXCEPT !.next = Append(@, child)]
  /\ UNCHANGED <<fit, results, outcome, searches>>

\* Mutant: the best of the generation is not kept.
NextGeneration_NoElite ==
  /\ search.op = "genetic" /\ Len(search.next) = Population
  /\ \E c \in Params :
       search' = [search EXCEPT !.population = [search.next EXCEPT ![1] = Individual(c)],
                                !.next = <<>>]
  /\ UNCHANGED <<fit, results, outcome, searches>>

NextGeneration ==
  /\ search.op = "genetic" /\ Len(search.next) = Population
  /\ search' = [search EXCEPT !.population = search.next, !.next = <<>>]
  /\ UNCHANGED <<fit, results, outcome, searches>>

GeneticEnds ==
  /\ search.op = "genetic" /\ search.next = <<>> /\ search.generation = Generations
  /\ outcome' = [op |-> "genetic", maximize |-> search.maximize, best |-> search.best,
                 seen |-> search.seen]
  /\ search' = NoSearch
  /\ UNCHANGED <<fit, results, searches>>

-----------------------------------------------------------------------------

OptimizerInit ==
  /\ fit \in [Params -> Fitnesses \cup {Fails}]
  /\ results = <<>> /\ search = NoSearch /\ outcome = None /\ searches = 0

OptimizerNext ==
  \/ GridSearch \/ RandomSearch \/ GridStep \/ RandomStep \/ SearchEnds
  \/ WalkForward \/ WalkStep \/ WalkEnds
  \/ Genetic \/ Evaluate \/ Breed \/ NextGeneration \/ GeneticEnds

OptimizerSpec == OptimizerInit /\ [][OptimizerNext]_optimizerVars

-----------------------------------------------------------------------------
(* Properties                                                              *)

Works(S) == {p \in S : fit[p] # Fails}
IsBest(p, S, maximize) == \A q \in Works(S) : ~Better(maximize, fit[q], fit[p])

\* A search returns the first of the best parameter sets it tried, and raises only
\* when none of them works; the windows of a walk forward follow one another within
\* the data, each tested after it was trained.  The genetic search never loses the
\* best it has seen, up to a backtest that fails while it minimizes: that one counts
\* as the best (grid_search, random_search, walk_forward_optimization, optimize).
SearchFindsBest ==
  /\ outcome # None =>
       CASE outcome.op \in {"grid", "random"} ->
              LET tried == ToSet(outcome.tried) IN
              /\ outcome.best.found <=> Works(tried) # {}
              /\ outcome.best.found =>
                   LET i == Min({k \in DOMAIN outcome.tried :
                                   /\ outcome.tried[k] \in Works(tried)
                                   /\ IsBest(outcome.tried[k], tried, TRUE)})
                   IN /\ outcome.best.params = outcome.tried[i]
                      /\ fit[TopResult.params] >= outcome.best.fitness
         [] outcome.op = "walk" ->
              \A i \in DOMAIN outcome.windows :
                LET w == outcome.windows[i] IN
                /\ w.train[1] < w.train[2] /\ w.train[2] = w.test[1] /\ w.test[2] <= DataDays
                /\ \A j \in 1..i - 1 : outcome.windows[j].test[2] <= w.train[1]
                /\ IsBest(w.best.params, Params, TRUE)
         [] outcome.op = "genetic" ->
              LET best == outcome.best.params IN
              /\ best \in outcome.seen
              /\ (outcome.maximize /\ Works(outcome.seen) # {}) =>
                   best \in Works(outcome.seen) /\ IsBest(best, outcome.seen, TRUE)
              /\ (~outcome.maximize /\ Works(outcome.seen) = outcome.seen) =>
                   IsBest(best, outcome.seen, FALSE)
  /\ search.op = "genetic" /\ search.best.found /\ search.next = <<>> =>
       search.population[1].params = search.best.params
=============================================================================
