------------------------------ MODULE LogicEngine ------------------------------
(***************************************************************************)
(* LogicEngine.closure (logic/engine.py): forward chaining over Horn       *)
(* rules, with one proof object per fact.                                  *)
(*                                                                         *)
(* A rule is the set of its ground instances: what _match_rule, _unify and *)
(* _instantiate make of its patterns is an instance whose premises are     *)
(* among the facts.  The code takes the rules in the order of their        *)
(* identifiers and the instances of a rule in the order of their           *)
(* substitutions; here the instances come in any order, so what is shown   *)
(* of the result does not depend on it.                                    *)
(***************************************************************************)
EXTENDS Naturals, Sequences, FiniteSets

CONSTANTS
  Fact,      (* the ground facts                                           *)
  RuleCount, (* how many rules there are; a rule is its place in the order *)
  Instances  (* Instances[i]: the ground instances of rule i               *)

Instance == [when : SUBSET Fact, then : Fact]

ASSUME RuleAssumption ==
  RuleCount \in Nat \ {0} /\ Instances \in [1 .. RuleCount -> SUBSET Instance]

VARIABLES
  phase,    (* "idle", "match", "derive" or "done"                         *)
  asserted, (* initial_facts of the call                                   *)
  facts,    (* the facts found so far                                      *)
  proofs,   (* proof_map without the asserted facts, in insertion order    *)
  rule,     (* the rule of the current round of the inner loop             *)
  matches,  (* what is left of _match_rule's result for it                 *)
  changed   (* a fact has been added in this pass over the rules           *)

engine == <<phase, asserted, facts, proofs, rule, matches, changed>>

-----------------------------------------------------------------------------
AllInstances == UNION {Instances[i] : i \in 1 .. RuleCount}

ClosedUnder(some, S) == \A m \in some : m.when \subseteq S => m.then \in S

Closed(S) == ClosedUnder(AllInstances, S)

(* The least closed set that has some facts.                               *)
Closure(S) == {f \in Fact : \A T \in SUBSET Fact : S \subseteq T /\ Closed(T) => f \in T}

EngineInit ==
  /\ phase = "idle"
  /\ asserted = {} /\ facts = {} /\ proofs = << >>
  /\ rule = 1 /\ matches = {} /\ changed = FALSE

(* closure(initial_facts); the caller has taken the previous result.       *)
Call(initial) ==
  /\ phase \in {"idle", "done"}
  /\ phase' = "match"
  /\ asserted' = initial
  /\ facts' = initial
  /\ proofs' = << >>
  /\ rule' = 1 /\ matches' = {} /\ changed' = FALSE

(* _match_rule: a snapshot, taken before the first fact of it is added.    *)
Match ==
  /\ phase = "match"
  /\ matches' = {m \in Instances[rule] : m.when \subseteq facts}
  /\ phase' = "derive"
  /\ UNCHANGED <<asserted, facts, proofs, rule, changed>>

(* Faulty variant: only the first match of a rule is looked at.            *)
DeriveFirst ==
  /\ phase = "derive"
  /\ \E m \in matches :
       /\ matches' = {}
       /\ IF m.then \in facts
            THEN UNCHANGED <<facts, proofs, changed>>
            ELSE /\ facts' = facts \cup {m.then}
                 /\ changed' = TRUE
                 /\ proofs' = Append(proofs, [claim |-> m.then, support |-> m.when])
  /\ UNCHANGED <<phase, asserted, rule>>

(* Faulty variant: a fact found by two rules is recorded twice.            *)
DeriveTwice ==
  /\ phase = "derive"
  /\ \E m \in matches :
       /\ matches' = matches \ {m}
       /\ facts' = facts \cup {m.then}
       /\ changed' = (changed \/ m.then \notin facts)
       /\ proofs' = Append(proofs, [claim |-> m.then, support |-> m.when])
  /\ UNCHANGED <<phase, asserted, rule>>

(* One match: its conclusion, if it is new, is added with its proof.       *)
Derive ==
  /\ phase = "derive"
  /\ \E m \in matches :
       /\ matches' = matches \ {m}
       /\ IF m.then \in facts
            THEN UNCHANGED <<facts, proofs, changed>>
            ELSE /\ facts' = facts \cup {m.then}
                 /\ changed' = TRUE
                 /\ proofs' = Append(proofs, [claim |-> m.then, support |-> m.when])
  /\ UNCHANGED <<phase, asserted, rule>>

NextRule ==
  /\ phase = "derive" /\ matches = {} /\ rule < RuleCount
  /\ rule' = rule + 1
  /\ phase' = "match"
  /\ UNCHANGED <<asserted, facts, proofs, matches, changed>>

(* Faulty variant: the flag is not reset, so no pass is the last one.      *)
EndPassUnreset ==
  /\ phase = "derive" /\ matches = {} /\ rule = RuleCount
  /\ IF changed THEN phase' = "match" /\ rule' = 1
                ELSE phase' = "done" /\ UNCHANGED rule
  /\ UNCHANGED <<asserted, facts, proofs, matches, changed>>

(* A pass that added nothing is the last one.                              *)
EndPass ==
  /\ phase = "derive" /\ matches = {} /\ rule = RuleCount
  /\ IF changed THEN phase' = "match" /\ rule' = 1 /\ changed' = FALSE
                ELSE phase' = "done" /\ UNCHANGED <<rule, changed>>
  /\ UNCHANGED <<asserted, facts, proofs, matches>>

EngineStep == Match \/ Derive \/ NextRule \/ EndPass

(* A call with any facts: asserted' says with which.                       *)
AnyCall == asserted' \subseteq Fact /\ Call(asserted')

EngineNext == EngineStep \/ AnyCall

EngineSpec == EngineInit /\ [][EngineNext]_engine

-----------------------------------------------------------------------------
Proof == [claim : Fact, support : SUBSET Fact]

EngineTypeOK ==
  /\ phase \in {"idle", "match", "derive", "done"}
  /\ asserted \subseteq Fact
  /\ facts \subseteq Fact
  /\ proofs \in Seq(Proof)
  /\ rule \in 1 .. RuleCount
  /\ matches \subseteq Instances[rule]
  /\ changed \in BOOLEAN

(* What closure() returns holds the asserted facts and is closed under the *)
(* rules: no order of rules and matches, and no early end of the passes,   *)
(* leaves a conclusion out.                                                *)
ClosureIsClosed == phase = "done" => asserted \subseteq facts /\ Closed(facts)

(* And it is the least such set: at no time is there a fact that some      *)
(* closed set with the asserted facts could do without.                    *)
ClosureIsLeast ==
  \A S \in SUBSET Fact : asserted \subseteq S /\ Closed(S) => facts \subseteq S

(* The proof trace is grounded: each derived fact has exactly one proof,   *)
(* by an instance of a rule whose premises were asserted or proved before  *)
(* it, so no fact supports itself through others.                          *)
ProvedBefore(i) == asserted \cup {proofs[j].claim : j \in 1 .. (i - 1)}

ProofsAreGrounded ==
  /\ facts = asserted \cup {proofs[i].claim : i \in 1 .. Len(proofs)}
  /\ \A i \in 1 .. Len(proofs) :
       /\ \E m \in AllInstances : m.then = proofs[i].claim /\ m.when = proofs[i].support
       /\ proofs[i].support \subseteq ProvedBefore(i)
       /\ proofs[i].claim \notin ProvedBefore(i)
=============================================================================
