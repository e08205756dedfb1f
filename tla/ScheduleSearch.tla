---------------------------- MODULE ScheduleSearch ----------------------------
(***************************************************************************)
(* One solver call, from the revision's rows to the answer: the builder,   *)
(* then CP-SAT (an exact solver of CpSatEncoding's model, external) or the *)
(* genetic algorithm of scheduler/solvers/genetic.py step by step.  The    *)
(* random generator is nondeterministic choice.  The wall clock is the     *)
(* flag late, which Tick may raise between any two steps; the code reads   *)
(* it where an action's guard does.                                        *)
(***************************************************************************)
EXTENDS ProblemBuilder, CpSatEncoding, Sequences

CONSTANTS
  Job,             \* a sequence of [revision, weights, algorithm, generations];
                   \* generations = 0 means no generation limit
  PopulationSize,
  TournamentSize,
  Elites,          \* int(population_size * elite_fraction)
  RepairAttempts,
  MaxMutations     \* bound: genes one mutation may change

ASSUME SearchAssumption ==
  /\ PopulationSize \in Nat /\ TournamentSize \in 2..PopulationSize
  /\ Elites \in 0..PopulationSize /\ RepairAttempts \in Nat /\ MaxMutations \in Nat
  /\ \A k \in DOMAIN Job :
       /\ RowsOK(Job[k].revision)
       /\ \A part \in {"preference", "section", "instructor", "load"} : Job[k].weights[part] \in Nat

VARIABLES
  job,      \* which job
  problem,  \* the snapshot the engine was given; <<>> before Build
  fitness,  \* the genetic algorithm's fitness_cache, filled for every chromosome
            \* at the start: evaluate is pure, so nothing tells when an entry came
  pc,       \* where the call is
  draft,    \* the chromosome _randomized_greedy is building
  pop,      \* the population, sorted by fitness
  next,     \* the next population, under construction
  best,     \* the incumbent, a set of at most one individual
  gen,      \* generations completed (counted only when they are limited)
  child,    \* the individual _repair works on, a set of at most one
  tries,    \* repair rounds left
  scan,     \* _repair's inner loop, a set of at most one record
  late,     \* the deadline has passed
  seen,     \* first_feasible_seconds is set
  answer    \* the SolverResult, a set of at most one
search == <<draft, pop, next, best, gen, child, tries, scan>>
vars == <<job, problem, fitness, pc, search, late, seen, answer>>

(***************************************************************************)
(* Chromosomes and their fitness.                                          *)
(***************************************************************************)
Chromosomes(p) ==
  { g \in [Events(p) -> UNION { p.event[e].cands : e \in Events(p) }] :
      \A e \in Events(p) : g[e] \in p.event[e].cands }
Vector(g) == { <<e, g[e]>> : e \in DOMAIN g }
Evaluate(p, g) ==
  <<Cardinality(Violations(p, Vector(g))), Score(p, Vector(g))>>
Individual(g) == [genes |-> g, fit |-> fitness[g]]

Less(a, b) == a[1] < b[1] \/ (a[1] = b[1] /\ a[2] < b[2])
Clean(i) == i.fit[1] = 0

\* Python's stable sort by fitness.
Sorted(s) ==
  LET Before(j, i) ==
        \/ Less(s[j].fit, s[i].fit)
        \/ s[j].fit = s[i].fit /\ j < i
      Rank(i) == 1 + Cardinality({ j \in DOMAIN s : Before(j, i) })
  IN [ k \in DOMAIN s |-> s[CHOOSE i \in DOMAIN s : Rank(i) = k] ]

Empty == [e \in {} |-> {}]
Init ==
  /\ job \in DOMAIN Job
  /\ problem = <<>> /\ fitness = <<>>
  /\ pc = "build"
  /\ draft = Empty /\ pop = <<>> /\ next = <<>> /\ best = {}
  /\ gen = 0 /\ child = {} /\ tries = 0 /\ scan = {}
  /\ late = FALSE /\ seen = FALSE /\ answer = {}

Build ==
  /\ pc = "build"
  /\ IF Buildable(Job[job].revision, Job[job].weights)
       THEN /\ problem' = Problem(Job[job].revision, Job[job].weights)
            /\ pc' = IF Job[job].algorithm = "CP_SAT" THEN "solve" ELSE "start"
       ELSE pc' = "refused" /\ UNCHANGED problem
  /\ UNCHANGED <<job, fitness, search, late, seen, answer>>

(***************************************************************************)
(* CP-SAT.  solve interprets what the engine returns and distrusts it.     *)
(***************************************************************************)
Interpret(p, status, X) ==
  [ vector |-> X,
    status |-> IF status \notin {"OPTIMAL", "FEASIBLE"} THEN status
               ELSE IF ~Feasible(p, X) THEN "ERROR"
               ELSE IF Objective(p, X) # Score(p, X) THEN "ERROR"
               ELSE status ]
Solutions(p) == { X \in SUBSET Choice(p) : Satisfies(p, X) }

\* The engine: exact when it finishes, and it may be stopped at any time.
EngineAnswers(p, S) ==
  LET least == Min({ Objective(p, X) : X \in S })
  IN { <<"FEASIBLE", X>> : X \in S }
       \cup { <<"OPTIMAL", X>> : X \in { Y \in S : Objective(p, Y) = least } }
       \cup When(S = {}, {<<"INFEASIBLE", {}>>})
       \cup {<<"UNKNOWN", {}>>}

CpSolve ==
  /\ pc = "solve"
  /\ \E S \in {Solutions(problem)} : \E x \in EngineAnswers(problem, S) :
       /\ answer' = {Interpret(problem, x[1], x[2])}
       /\ seen' = (x[1] \in {"OPTIMAL", "FEASIBLE"} /\ Feasible(problem, x[2]))
  /\ pc' = "done"
  /\ UNCHANGED <<job, problem, fitness, search, late>>

(***************************************************************************)
(* The genetic algorithm: the initial population.                          *)
(***************************************************************************)
StartGenetic ==
  /\ pc = "start"
  /\ fitness' = [g \in Chromosomes(problem) |-> Evaluate(problem, g)]
  /\ pc' = "greedy"
  /\ UNCHANGED <<job, problem, search, late, seen, answer>>

\* Mutated form: group mates count on whatever day they are.
IncrementalConflicts_AnyDay(p, s, e, c) ==
  { x \in Resources(p, e, c) \X DOMAIN s :
      x[1] \in Resources(p, x[2], s[x[2]]) /\ s[x[2]].atoms \cap c.atoms # {} }
    \cup { << <<"distinct_day", p.event[e].group>>, f>> :
             f \in { h \in DOMAIN s : /\ p.event[e].group # NoGroup
                                      /\ p.event[h].group = p.event[e].group } }
IncrementalConflicts(p, s, e, c) ==
  { x \in Resources(p, e, c) \X DOMAIN s :
      x[1] \in Resources(p, x[2], s[x[2]]) /\ s[x[2]].atoms \cap c.atoms # {} }
    \cup { << <<"distinct_day", p.event[e].group>>, f>> :
             f \in { h \in DOMAIN s : /\ p.event[e].group # NoGroup
                                      /\ p.event[h].group = p.event[e].group
                                      /\ Day(s[h]) = Day(c) } }
GreedyCost(p, s, e, c) == <<Cardinality(IncrementalConflicts(p, s, e, c)), c.penalty>>
GreedyChoices(p, s, e) ==
  IF e \in DOMAIN p.lock THEN {p.lock[e]}
  ELSE { c \in p.event[e].cands :
           \A d \in p.event[e].cands : ~Less(GreedyCost(p, s, e, d), GreedyCost(p, s, e, c)) }
Width(p, e) == Cardinality(p.event[e].cands)
With(s, e, c) == [ f \in DOMAIN s \cup {e} |-> IF f = e THEN c ELSE s[f] ]

GreedyPlace ==
  /\ pc = "greedy"
  /\ LET open == Events(problem) \ DOMAIN draft
     IN \E e \in { f \in open : \A h \in open : Width(problem, f) <= Width(problem, h) } :
          \E c \in GreedyChoices(problem, draft, e) : draft' = With(draft, e, c)
  /\ UNCHANGED <<job, problem, fitness, pc, pop, next, best, gen, child, tries, scan, late, seen, answer>>

MinimumInitialSize == Max({2, TournamentSize})
Populate ==
  /\ pc = "greedy" /\ DOMAIN draft = Events(problem)
  /\ LET grown == Append(pop, Individual(draft))
     IN /\ seen' = (seen \/ Clean(Individual(draft)))
        /\ IF Len(grown) < PopulationSize /\ (Len(grown) < MinimumInitialSize \/ ~late)
             THEN pop' = grown /\ UNCHANGED <<pc, best>>
             ELSE /\ pop' = Sorted(grown)
                  /\ best' = {pop'[1]}
                  /\ pc' = "generation"
  /\ draft' = Empty
  /\ UNCHANGED <<job, problem, fitness, next, gen, child, tries, scan, late, answer>>

(***************************************************************************)
(* Generations.                                                            *)
(***************************************************************************)
\* Mutated forms: no elite at all; a loop that looks at the generations only.
EliteCount_NoElite == Elites
GoOn_NoClock == Job[job].generations = 0 \/ gen < Job[job].generations
EliteCount == Max({1, Elites})
GoOn == ~late /\ (Job[job].generations = 0 \/ gen < Job[job].generations)
StartGeneration ==
  /\ pc = "generation" /\ GoOn
  /\ next' = SubSeq(pop, 1, EliteCount)
  /\ pc' = "breed"
  /\ UNCHANGED <<job, problem, fitness, draft, pop, best, gen, child, tries, scan, late, seen, answer>>

Verdict(i) ==
  [ vector |-> Vector(i.genes),
    status |-> IF Feasible(problem, Vector(i.genes)) THEN "FEASIBLE" ELSE "NO_SOLUTION" ]
Finish ==
  /\ pc = "generation" /\ ~GoOn
  /\ answer' = { Verdict(i) : i \in best }
  /\ pc' = "done"
  /\ UNCHANGED <<job, problem, fitness, search, late, seen>>

Winners ==
  { pop[i] : i \in { k \in DOMAIN pop :
      \E S \in kSubset(TournamentSize, DOMAIN pop) :
        k \in S /\ \A j \in S : ~Less(pop[j].fit, pop[k].fit) } }
\* Events of the same sections cross over together.
Crossed(p, left, right) ==
  { [ e \in Events(p) |-> IF p.event[e].sections \in B THEN right[e] ELSE left[e] ] :
      B \in SUBSET { p.event[e].sections : e \in Events(p) } }
Mutated(p, g) ==
  LET free == Events(p) \ DOMAIN p.lock
  IN { h \in Chromosomes(p) :
         /\ \A e \in DOMAIN p.lock : h[e] = p.lock[e]
         /\ Cardinality({ e \in free : h[e] # g[e] }) <= MaxMutations }

Offspring ==
  LET crossed == UNION { Crossed(problem, x[1].genes, x[2].genes) : x \in Winners \X Winners }
  IN { Individual(g) : g \in UNION { Mutated(problem, h) : h \in crossed } }

Breed ==
  /\ pc = "breed" /\ Len(next) < PopulationSize /\ ~late
  /\ \E i \in Offspring :
       child' = {i} /\ seen' = (seen \/ Clean(i))
  /\ tries' = RepairAttempts
  /\ pc' = "repair"
  /\ UNCHANGED <<job, problem, fitness, draft, pop, next, best, gen, scan, late, answer>>

\* Mutated form: one individual too many.
Padded_OneTooMany ==
  [ k \in 1..(PopulationSize + 1) |->
      IF k <= Len(next) THEN next[k] ELSE pop[((k - 1) % Len(pop)) + 1] ]
\* When time is up the next population is filled from the old one.
Padded ==
  [ k \in 1..PopulationSize |->
      IF k <= Len(next) THEN next[k] ELSE pop[((k - 1) % Len(pop)) + 1] ]
CloseGeneration ==
  /\ pc = "breed" /\ (Len(next) = PopulationSize \/ late)
  /\ \E ranked \in {Sorted(Padded)} :
       /\ pop' = ranked
       /\ best' = { IF Less(ranked[1].fit, b.fit) THEN ranked[1] ELSE b : b \in best }
  /\ gen' = IF Job[job].generations = 0 THEN 0 ELSE gen + 1
  /\ next' = <<>>
  /\ pc' = "generation"
  /\ UNCHANGED <<job, problem, fitness, draft, child, tries, scan, late, seen, answer>>

(***************************************************************************)
(* _repair: rounds that move one conflicting event to its best candidate.  *)
(***************************************************************************)
Involved(p, g) ==
  (UNION { { v[3][k] : k \in DOMAIN v[3] } : v \in Violations(p, Vector(g)) }) \ DOMAIN p.lock
Narrowest(p, S) ==
  CHOOSE e \in S : \A f \in S :
    Width(p, e) < Width(p, f) \/ (Width(p, e) = Width(p, f) /\ e <= f)
ScanOf(p, S, c) ==
  LET e == Narrowest(p, S)
  IN [at |-> e, rest |-> S \ {e}, todo |-> p.event[e].cands, top |-> c]

\* _repair returns c, and the caller appends it.
Keep(c) ==
  /\ next' = Append(next, c)
  /\ child' = {} /\ tries' = 0 /\ scan' = {}
  /\ pc' = "breed"

RepairRound ==
  /\ pc = "repair"
  /\ \E c \in child :
       LET S == Involved(problem, c.genes)
       IN IF tries = 0 \/ Clean(c) \/ late \/ S = {}
            THEN Keep(c)
            ELSE /\ scan' = {ScanOf(problem, S, c)}
                 /\ pc' = "scan"
                 /\ UNCHANGED <<next, child, tries>>
  /\ UNCHANGED <<job, problem, fitness, draft, pop, best, gen, late, seen, answer>>

TryCandidate ==
  /\ pc = "scan" /\ ~late
  /\ \E x \in scan, c \in child : \E cand \in x.todo :
       LET trial == Individual([c.genes EXCEPT ![x.at] = cand])
           skip == cand = c.genes[x.at]
       IN /\ scan' = {[x EXCEPT !.todo = @ \ {cand},
                                !.top = IF ~skip /\ Less(trial.fit, @.fit) THEN trial ELSE @]}
          /\ seen' = (seen \/ (~skip /\ Clean(trial)))
  /\ UNCHANGED <<job, problem, fitness, pc, draft, pop, next, best, gen, child, tries, late, answer>>

\* The deadline inside the scan: the round's best candidate is not taken.
ScanLate ==
  /\ pc = "scan" /\ late
  /\ \E x \in scan, c \in child : x.todo # {} /\ Keep(c)
  /\ UNCHANGED <<job, problem, fitness, draft, pop, best, gen, late, seen, answer>>

ScanDone ==
  /\ pc = "scan"
  /\ \E x \in scan, c \in child :
       /\ x.todo = {}
       /\ IF Less(x.top.fit, c.fit)
            THEN /\ child' = {x.top} /\ tries' = tries - 1 /\ scan' = {}
                 /\ pc' = "repair" /\ UNCHANGED next
          ELSE IF x.rest = {} THEN Keep(c)
          ELSE scan' = {ScanOf(problem, x.rest, c)} /\ UNCHANGED <<pc, next, child, tries>>
  /\ UNCHANGED <<job, problem, fitness, draft, pop, best, gen, late, seen, answer>>

Stopped == {"refused", "done"}
Tick ==
  /\ pc \notin Stopped \cup {"build", "solve", "start"} /\ ~late
  /\ late' = TRUE
  /\ UNCHANGED <<job, problem, fitness, pc, search, seen, answer>>
Rest == pc \in Stopped /\ UNCHANGED vars

GeneticStep ==
  \/ GreedyPlace \/ Populate
  \/ StartGeneration \/ Finish \/ Breed \/ CloseGeneration
  \/ RepairRound \/ TryCandidate \/ ScanLate \/ ScanDone
Next == Build \/ CpSolve \/ StartGenetic \/ GeneticStep \/ Tick \/ Rest
\* The algorithm runs in one thread that is never paused for ever, and time passes.
Spec == Init /\ [][Next]_vars /\ WF_vars(GeneticStep) /\ WF_vars(Tick)

(***************************************************************************)
(* Properties.                                                             *)
(***************************************************************************)
IndividualOK(i) == i.genes \in DOMAIN fitness /\ i.fit = fitness[i.genes]
\* Types; in particular every individual is a chromosome with its own fitness.
TypeOK ==
  /\ job \in DOMAIN Job
  /\ pc \in {"build", "solve", "start", "greedy", "generation", "breed", "repair", "scan"} \cup Stopped
  /\ \A k \in DOMAIN pop : IndividualOK(pop[k])
  /\ \A k \in DOMAIN next : IndividualOK(next[k])
  /\ \A i \in best \cup child \cup { x.top : x \in scan } : IndividualOK(i)
  /\ Len(pop) <= PopulationSize /\ Len(next) <= PopulationSize
  /\ tries \in 0..RepairAttempts /\ gen \in Nat
  /\ late \in BOOLEAN /\ seen \in BOOLEAN

Fresh == pc \in {"solve", "start"}

\* The builder's filter and the validator's rules were written twice.  The
\* candidates of an event are exactly the placements, in a room and a window of
\* the revision, that the validator finds no fault with (and that the event's
\* lock names, if it has one).
CandidatesAreExact ==
  Fresh => LET t == Job[job].revision
           IN \A e \in Events(problem) :
                problem.event[e].cands =
                  { c \in { Placement(t, t.meeting[e], x[1], x[2]) :
                              x \in (DOMAIN t.rooms) \X Windows(t, t.meeting[e].duration) } :
                      /\ LocalFaults(problem, e, c) = {}
                      /\ e \in DOMAIN t.pin => t.pin[e] = [room |-> c.room, start |-> c.start] }

\* A problem that reaches an engine satisfies the contract, its locks are the
\* pinned placements, and the locks do not contradict one another.
LocksAreSound ==
  Fresh => LET t == Job[job].revision
           IN /\ Contract(problem)
              /\ DOMAIN problem.lock = DOMAIN t.pin \cap Events(problem)
              /\ \A e \in DOMAIN problem.lock :
                   t.pin[e] = [room |-> problem.lock[e].room, start |-> problem.lock[e].start]
              /\ \A e, f \in DOMAIN problem.lock :
                   e # f => \/ problem.lock[e].atoms \cap problem.lock[f].atoms = {}
                            \/ Resources(problem, e, problem.lock[e]) \cap Resources(problem, f, problem.lock[f]) = {}

\* The greedy construction counts conflicts placement by placement in tables of
\* its own: placing an event adds to the validator's count of conflicts exactly
\* what _incremental_conflict_count said.
IncrementalAgrees ==
  pc = "greedy" =>
    \A e \in Events(problem) \ DOMAIN draft : \A c \in problem.event[e].cands :
      Cardinality(Conflicts(problem, With(draft, e, c)))
        = Cardinality(Conflicts(problem, draft)) + Cardinality(IncrementalConflicts(problem, draft, e, c))

\* Whatever the search holds, and whatever a solver returns as a schedule, leaves
\* every event that the revision locks in the room and at the start of its lock.
Pins(g) ==
  \A e \in DOMAIN Job[job].revision.pin \cap Events(problem) :
    Job[job].revision.pin[e] = [room |-> g[e].room, start |-> g[e].start]
LocksHold ==
  /\ \A i \in best \cup child \cup { pop[k] : k \in DOMAIN pop } \cup { next[k] : k \in DOMAIN next } :
       Pins(i.genes)
  /\ \A a \in answer : a.vector # {} => Pins(Resolved(problem, a.vector))

\* The incumbent never gets worse, a generation worsens no elite rank of the
\* population, and a repair never returns a child that is worse than the one it
\* was given, late or not.
NeverWorse ==
  [][ /\ \A b \in best, c \in best' : ~Less(b.fit, c.fit)
      /\ pc = "breed" /\ pc' = "generation" =>
           \A k \in 1..Max({1, Elites}) : ~Less(pop[k].fit, pop'[k].fit)
      /\ pc \in {"repair", "scan"} =>
           \A b \in child, c \in child' \cup (IF next' = next THEN {} ELSE {next'[Len(next')]}) :
             ~Less(b.fit, c.fit) ]_vars

\* What the answer claims is so: CP-SAT never has to reject its own model's
\* solution, INFEASIBLE means that no schedule of legal placements passes the
\* validator, OPTIMAL that none that passes scores lower, and FEASIBLE that the
\* assignments returned pass.
AnswerIsTrue ==
  \A a \in answer :
    /\ a.status # "ERROR"
    /\ a.status \in {"OPTIMAL", "FEASIBLE"} => Feasible(problem, a.vector)
    /\ a.status \in {"OPTIMAL", "INFEASIBLE"} =>
         \A g \in Chromosomes(problem) :
           Feasible(problem, Vector(g)) =>
             a.status = "OPTIMAL" /\ Score(problem, a.vector) <= Score(problem, Vector(g))

\* Every genetic run ends: the generation loop without a generation limit, the
\* repair rounds and the scans all stop once time is up.
SearchEnds == (pc = "greedy") ~> (pc = "done")

\* genetic.py:148 says of NO_SOLUTION "No feasible solution found within the time
\* limit.": the search has then evaluated no chromosome that passes the validator.
NoSolutionFoundNone ==
  \A a \in answer : a.status = "NO_SOLUTION" => ~seen
==============================================================================
