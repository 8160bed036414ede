---------------------------- MODULE LatentResolver ----------------------------
(***************************************************************************)
(* SSMCompiler.compile_text (pipeline.py) up to code generation: the       *)
(* closure of the facts the analyzer found, the check for schemas nothing  *)
(* defines, LatentResolver.resolve (resolver/engine.py), which decides one *)
(* dimension after the other by asking the engine about each candidate,    *)
(* and the same check on the resolved facts.                               *)
(*                                                                         *)
(* Every closure is computed by the steps of LogicEngine.  A document is   *)
(* compiled twice, by two processes: what one does may depend on the order *)
(* in which it walks a set of facts.                                       *)
(***************************************************************************)
EXTENDS LogicEngine, Integers

CONSTANTS
  Documents,  (* the sets of facts the analyzer may find                   *)
  Schemas,    (* the schema names routes may refer to                      *)
  Artifact(_), RequiresSchema(_), (* the facts about a schema              *)
  DatabaseFacts, (* the facts with predicate Database                      *)
  InvalidFacts,  (* the facts with predicate Invalid                       *)
  Dimensions,    (* the latent dimensions, a sequence sorted by name       *)
  Candidates,    (* per dimension: the sequence of its candidates' facts,  *)
                 (* sorted by identifier                                   *)
  Score(_, _),   (* Score(c, db): the score of a candidate, in hundredths  *)
  None

ASSUME DocumentAssumption == Documents \subseteq SUBSET Fact
ASSUME DimensionAssumption ==
  /\ Len(Dimensions) \in Nat \ {0}
  /\ \A d \in 1 .. Len(Dimensions) :
       Candidates[d] \in Seq(Fact) /\ Len(Candidates[d]) > 0

(* What the rules of builtin_rules and the pools of build_latent_candidates*)
(* are like.  An Invalid fact, or a demand for a schema, follows from one  *)
(* rule without the help of another; the first needs a candidate, the      *)
(* second does without; and every dimension has a candidate that no rule   *)
(* speaks against.                                                         *)
Pool(d) == {Candidates[d][c] : c \in 1 .. Len(Candidates[d])}
AnyCandidate == UNION {Pool(d) : d \in 1 .. Len(Dimensions)}
Demands == {RequiresSchema(s) : s \in Schemas}
Concluded == {m.then : m \in AllInstances}

Unopposed(c) == \A m \in AllInstances : m.then \in InvalidFacts => c \notin m.when

ASSUME RulesAssumption ==
  /\ \A m \in AllInstances :
       /\ m.then \in InvalidFacts \cup Demands => m.when \cap Concluded = {}
       /\ m.then \in InvalidFacts => m.when \cap AnyCandidate # {}
       /\ m.then \in Demands => m.when \cap AnyCandidate = {}
  /\ AnyCandidate \cap (InvalidFacts \cup Demands) = {}
  /\ \A g \in Documents : g \cap (AnyCandidate \cup InvalidFacts) = {}
  /\ \A d \in 1 .. Len(Dimensions) : \E c \in Pool(d) : Unopposed(c)

(* Where two databases of a document put two candidates into another order,*)
(* a rule refuses one of the two.                                          *)
StatedIn(g) == IF g \cap DatabaseFacts = {} THEN {None} ELSE g \cap DatabaseFacts

Opposed(g, c) ==
  \E m \in AllInstances : m.then \in InvalidFacts /\ m.when \subseteq g \cup {c}

SameOrder(c, e, a, b) == Score(c, a) > Score(e, a) <=> Score(c, b) > Score(e, b)

ASSUME ScoresAssumption ==
  \A d \in 1 .. Len(Dimensions) : \A c, e \in Pool(d) :
    /\ \A a \in DatabaseFacts \cup {None} : Score(c, a) \in Int
    /\ \A g \in Documents : \A a, b \in StatedIn(g) :
         SameOrder(c, e, a, b) \/ Opposed(g, c) \/ Opposed(g, e)

VARIABLES
  at,        (* where compile_text is                                      *)
  graph,     (* graph.facts                                                *)
  database,  (* what build_latent_candidates reads as the database         *)
  dim, cand, (* the loops over dimensions and their candidates             *)
  admissible,(* the admissible candidates of the dimension so far          *)
  selected,  (* the winners of the dimensions before                       *)
  previous   (* the outcome of the first of the two processes              *)

vars == <<engine, at, graph, database, dim, cand, admissible, selected, previous>>

-----------------------------------------------------------------------------
Known(S) == {s \in Schemas : Artifact(s) \in S}

(* check_required_artifacts: LOG201 for a schema that is required and has  *)
(* no artifact.                                                            *)
MissingSchemas(S) == {s \in Schemas : RequiresSchema(s) \in S} \ Known(S)

Init ==
  /\ EngineInit
  /\ at = "first"
  /\ graph \in Documents
  /\ database = None
  /\ dim = 1 /\ cand = 1
  /\ admissible = {} /\ selected = << >>
  /\ previous = None

Deciding == <<dim, cand, admissible, selected>>

Ready == phase = "done"

(* closure(facts) is called and the control goes to where its result is    *)
(* used.                                                                   *)
Ask(S, next) == Call(S) /\ at' = next

Compute == EngineStep /\ UNCHANGED <<at, graph, database, Deciding, previous>>

Start ==
  /\ at = "first"
  /\ Ask(graph, "check")
  /\ UNCHANGED <<graph, database, Deciding, previous>>

Results == {"compiled", "schema_missing", "unresolved", "late_schema_missing"}

Outcome(result) == [result |-> result, selected |-> selected]

ASSUME NoneAssumption == None \notin [result : Results, selected : Seq(Fact)]

(* A compilation ends; another process compiles the same document.         *)
Finish(result) ==
  /\ IF previous = None
       THEN /\ previous' = Outcome(result)
            /\ at' = "first"
            /\ selected' = << >>
       ELSE /\ at' = result
            /\ UNCHANGED <<previous, selected>>
  /\ database' = None /\ dim' = 1 /\ cand' = 1 /\ admissible' = {}
  /\ UNCHANGED <<engine, graph>>

(* The first check_required_artifacts.                                     *)
RefuseSchemas ==
  /\ at = "check" /\ Ready
  /\ MissingSchemas(facts) # {}
  /\ Finish("schema_missing")

(* resolve(): its first closure is computed and thrown away.               *)
EnterResolver ==
  /\ at = "check" /\ Ready
  /\ MissingSchemas(facts) = {}
  /\ Ask(graph, "pools")
  /\ UNCHANGED <<graph, database, Deciding, previous>>

(* Candidates for the current dimension are tried one by one.              *)
Resolved(chosen) == graph \cup {chosen[i] : i \in 1 .. Len(chosen)}

Try(d, c, chosen) == Call(Resolved(chosen) \cup {Candidates[d][c]})

(* build_latent_candidates takes the first Database fact of a set of       *)
(* facts: any of them.                                                     *)
BuildPools ==
  /\ at = "pools" /\ Ready
  /\ database' \in StatedIn(graph)
  /\ Try(1, 1, << >>)
  /\ at' = "candidate"
  /\ UNCHANGED <<graph, Deciding, previous>>

(* Faulty variant: what is derived from the candidate is not looked at.    *)
AdmitsUnderived == asserted \cap InvalidFacts = {}

(* check_admissibility.                                                    *)
Admits == facts \cap InvalidFacts = {}

Judged == IF Admits THEN admissible \cup {Candidates[dim][cand]} ELSE admissible

NextCandidate ==
  /\ at = "candidate" /\ Ready
  /\ cand < Len(Candidates[dim])
  /\ admissible' = Judged
  /\ cand' = cand + 1
  /\ Try(dim, cand + 1, selected)
  /\ UNCHANGED <<at, graph, database, dim, selected, previous>>

(* Faulty variant: scores decide before admissibility.                     *)
BestScore(i, pool, open) ==
  \A j \in DOMAIN pool : Score(pool[j], database) <= Score(pool[i], database)

(* The best score among the admissible, the first identifier among equals. *)
Best(db, i, pool, open) ==
  /\ pool[i] \in open
  /\ \A j \in DOMAIN pool :
       pool[j] \in open =>
         \/ Score(pool[i], db) > Score(pool[j], db)
         \/ Score(pool[i], db) = Score(pool[j], db) /\ i <= j

Wins(i, pool, open) == Best(database, i, pool, open)

Collapse ==
  /\ \E i \in DOMAIN Candidates[dim] :
       /\ Wins(i, Candidates[dim], Judged)
       /\ selected' = Append(selected, Candidates[dim][i])
  /\ admissible' = {} /\ cand' = 1
  /\ IF dim < Len(Dimensions)
       THEN dim' = dim + 1 /\ at' = "candidate" /\ Try(dim + 1, 1, selected')
       ELSE /\ dim' = 1
            /\ Ask(Resolved(selected'), "final")
  /\ UNCHANGED <<graph, database, previous>>

(* A dimension without an admissible candidate is refused with RES001.     *)
Decide ==
  /\ at = "candidate" /\ Ready
  /\ cand = Len(Candidates[dim])
  /\ IF Judged = {} THEN Finish("unresolved") ELSE Collapse

(* compile_text closes resolution.facts once more and checks again.        *)
Recheck ==
  /\ at = "final" /\ Ready
  /\ Ask(facts, "recheck")
  /\ UNCHANGED <<graph, database, Deciding, previous>>

Conclude ==
  /\ at = "recheck" /\ Ready
  /\ Finish(IF MissingSchemas(facts) = {} THEN "compiled" ELSE "late_schema_missing")

Stop == at \in Results /\ UNCHANGED vars

Decision ==
  \/ Start \/ RefuseSchemas \/ EnterResolver \/ BuildPools
  \/ NextCandidate \/ Decide \/ Recheck \/ Conclude

Step == Compute \/ Decision

Next == Step \/ Stop

Spec == Init /\ [][Next]_vars /\ WF_vars(Step)

-----------------------------------------------------------------------------
Places == {"first", "check", "pools", "candidate", "final", "recheck"} \cup Results

TypeOK ==
  /\ EngineTypeOK
  /\ at \in Places
  /\ graph \in Documents
  /\ database \in DatabaseFacts \cup {None}
  /\ dim \in 1 .. Len(Dimensions)
  /\ cand \in 1 .. Len(Candidates[dim])
  /\ admissible \subseteq Fact
  /\ Len(selected) <= Len(Dimensions)
  /\ \A d \in DOMAIN selected : \E c \in DOMAIN Candidates[d] : selected[d] = Candidates[d][c]

(* The collapse is deterministic (LatentResolver's docstring): two         *)
(* processes that compile one document select the same candidates, though  *)
(* each may read another of the document's databases and score by it.      *)
SameCollapse ==
  at \in Results => /\ previous.result = at
                  /\ previous.selected = selected

(* What has been selected is admissible as a whole, not only candidate by  *)
(* candidate as the loop went: the resolved facts contain no Invalid(...). *)
(* What a candidate entails never asks for a schema, so a document refused *)
(* for one is refused before anything is resolved; and no document leaves  *)
(* a dimension without a candidate.                                        *)
ResolvedFactsAreValid ==
  /\ at \in {"final", "recheck"} /\ Ready =>
       facts \cap InvalidFacts = {} /\ Resolved(selected) \subseteq facts
  /\ at \notin {"late_schema_missing", "unresolved"}

(* Closures and loops come to an end.                                      *)
CompileEnds == <>(at \in Results)

-----------------------------------------------------------------------------
(* The inductive invariant behind the theorems of LatentResolverProofs.    *)
(* Facts are valid when nothing invalid follows from them.                 *)
Valid(S) == Closure(S) \cap InvalidFacts = {}

Before(chosen, d) == graph \cup {chosen[i] : i \in 1 .. (d - 1)}

Admissible(chosen, d) == {c \in Pool(d) : Valid(Before(chosen, d) \cup {c})}

(* The choice in dimension d is the best one by a database of the document,*)
(* among those that are admissible with the choices before it.             *)
Picked(chosen, d) ==
  \E db \in StatedIn(graph), i \in 1 .. Len(Candidates[d]) :
    chosen[d] = Candidates[d][i] /\ Best(db, i, Candidates[d], Admissible(chosen, d))

Complete(chosen) ==
  /\ chosen \in Seq(Fact) /\ Len(chosen) = Len(Dimensions)
  /\ \A d \in 1 .. Len(chosen) : Picked(chosen, d)

Refused == MissingSchemas(Closure(graph)) # {}

Unresolved == {"first", "check", "pools"}

(* What the engine has been asked last, at each place.                     *)
AskedInv ==
  /\ at \in {"check", "pools"} => asserted = graph
  /\ at = "candidate" => asserted = Resolved(selected) \cup {Candidates[dim][cand]}
  /\ at = "final" => asserted = Resolved(selected)
  /\ at = "recheck" => asserted = Closure(Resolved(selected))

(* How far the loops have come.                                            *)
LoopInv ==
  /\ at \in Unresolved => selected = << >> /\ dim = 1 /\ cand = 1 /\ admissible = {}
  /\ at = "candidate" =>
       /\ Len(selected) = dim - 1
       /\ database \in StatedIn(graph)
       /\ admissible = Admissible(selected, dim)
                         \cap {Candidates[dim][c] : c \in 1 .. (cand - 1)}
  /\ at \in {"final", "recheck"} => Len(selected) = Len(Dimensions)
  /\ at \in {"candidate", "final", "recheck"} => Valid(Resolved(selected))
  /\ at \in {"pools", "candidate", "final", "recheck"} => ~Refused
  /\ \A d \in 1 .. Len(selected) : Picked(selected, d)

(* What the first of the two processes has found, and how far the second   *)
(* one has found the same.                                                 *)
PreviousInv ==
  /\ previous # None =>
       \/ previous.result = "compiled" /\ ~Refused /\ Complete(previous.selected)
       \/ previous.result = "schema_missing" /\ Refused /\ previous.selected = << >>
  /\ previous # None => \A d \in 1 .. Len(selected) : selected[d] = previous.selected[d]
  /\ at \in Results =>
       previous # None /\ previous.result = at /\ previous.selected = selected

ResolverInv ==
  graph \in Documents /\ at \in Places /\ AskedInv /\ LoopInv /\ PreviousInv
=============================================================================
