------------------------- MODULE LatentResolverProofs -------------------------
(***************************************************************************)
(* First what LogicEngine.closure guarantees, for any facts, any rules and *)
(* any order in which the matches of a rule are used.  Then the resolver,  *)
(* which runs the engine as LogicEngine specifies it: so what is shown of  *)
(* closure() holds of every closure that compile_text computes, for any    *)
(* rules, documents and candidates.  Last, what its decisions come to.     *)
(***************************************************************************)
EXTENDS LatentResolver, TLAPS

USE DEF engine

-----------------------------------------------------------------------------
(* The types are inductive.                                                *)

(* The types hold before the first call.                                   *)
LEMMA InitTypes == EngineInit => EngineTypeOK
<1> SUFFICES ASSUME EngineInit PROVE EngineTypeOK
  OBVIOUS
<1>1. << >> \in Seq(Proof) /\ 1 \in 1 .. RuleCount
  BY RuleAssumption
<1> QED
  BY <1>1 DEF EngineInit, EngineTypeOK

(* Every step of the engine keeps the types.                               *)
LEMMA NextTypes == EngineTypeOK /\ [EngineNext]_engine => EngineTypeOK'
<1> SUFFICES ASSUME EngineTypeOK, [EngineNext]_engine PROVE EngineTypeOK'
  OBVIOUS
<1> USE RuleAssumption DEF EngineTypeOK
<1>1. CASE AnyCall
  <2>1. << >> \in Seq(Proof) /\ 1 \in 1 .. RuleCount
    OBVIOUS
  <2> QED
    BY <1>1, <2>1 DEF AnyCall, Call
<1>2. CASE Match
  BY <1>2 DEF Match
<1>3. CASE Derive
  <2>1. PICK m \in matches :
          /\ matches' = matches \ {m}
          /\ IF m.then \in facts
               THEN UNCHANGED <<facts, proofs, changed>>
               ELSE /\ facts' = facts \cup {m.then}
                    /\ changed' = TRUE
                    /\ proofs' = Append(proofs, [claim |-> m.then, support |-> m.when])
    BY <1>3 DEF Derive
  <2>2. m \in Instance
    BY <2>1
  <2>3. [claim |-> m.then, support |-> m.when] \in Proof
    BY <2>2 DEF Instance, Proof
  <2>4. m.then \in Fact
    BY <2>2 DEF Instance
  <2>5. proofs' \in Seq(Proof)
    BY <2>1, <2>3
  <2> QED
    BY <1>3, <2>1, <2>4, <2>5 DEF Derive
<1>4. CASE NextRule
  <2>1. rule' \in 1 .. RuleCount
    BY <1>4 DEF NextRule
  <2>2. matches' = {}
    BY <1>4 DEF NextRule
  <2> QED
    BY <1>4, <2>1, <2>2, Zenon DEF NextRule
<1>5. CASE EndPass
  <2>1. 1 \in 1 .. RuleCount
    OBVIOUS
  <2>2. matches' = {} /\ rule' \in 1 .. RuleCount
    BY <1>5, <2>1 DEF EndPass
  <2>3. phase' \in {"match", "done"} /\ changed' \in BOOLEAN
    BY <1>5, Zenon DEF EndPass
  <2> QED
    BY <1>5, <2>2, <2>3, Zenon DEF EndPass
<1>6. CASE UNCHANGED engine
  BY <1>6
<1> QED
  BY <1>1, <1>2, <1>3, <1>4, <1>5, <1>6 DEF EngineNext, EngineStep

(* Every reachable state of the engine is well typed.                      *)
THEOREM EngineTypes == EngineSpec => []EngineTypeOK
  BY InitTypes, NextTypes, PTL DEF EngineSpec

-----------------------------------------------------------------------------
(* What one derivation does, named once for the invariants below.          *)

(* A derivation takes one match, and adds its fact with a proof if it is   *)
(* new.                                                                    *)
LEMMA DeriveEffect ==
  ASSUME EngineTypeOK, Derive
  PROVE  \E m \in matches :
           /\ m \in Instances[rule]
           /\ matches' = matches \ {m}
           /\ m.then \in facts'
           /\ \/ m.then \in facts /\ UNCHANGED <<facts, proofs, changed>>
              \/ /\ m.then \notin facts
                 /\ facts' = facts \cup {m.then}
                 /\ changed' = TRUE
                 /\ proofs' = Append(proofs, [claim |-> m.then, support |-> m.when])
  BY DEF Derive, EngineTypeOK

(* No fact is there without need.  A conclusion joins the facts of a match *)
(* taken when its premises were among them: MatchesHold keeps that.        *)

MatchesHold == phase = "derive" => \A m \in matches : m.when \subseteq facts

LeastInv == MatchesHold /\ ClosureIsLeast

(* Every step keeps the closure least.                                     *)
LEMMA LeastStep ==
  EngineTypeOK /\ LeastInv /\ [EngineNext]_engine => LeastInv'
<1> SUFFICES ASSUME EngineTypeOK, LeastInv, [EngineNext]_engine PROVE LeastInv'
  OBVIOUS
<1> USE DEF LeastInv, MatchesHold, ClosureIsLeast
<1>1. CASE AnyCall
  BY <1>1 DEF AnyCall, Call
<1>2. CASE Match
  BY <1>2 DEF Match
<1>3. CASE Derive
  <2>1. PICK m \in matches :
          /\ m \in Instances[rule]
          /\ matches' = matches \ {m}
          /\ \/ m.then \in facts /\ UNCHANGED <<facts, proofs, changed>>
             \/ m.then \notin facts /\ facts' = facts \cup {m.then}
    BY <1>3, DeriveEffect
  <2>2. phase = "derive" /\ phase' = phase /\ asserted' = asserted
    BY <1>3 DEF Derive
  <2>3. m.when \subseteq facts
    BY <2>2
  <2>4. m \in AllInstances
    BY <2>1 DEF EngineTypeOK, AllInstances
  <2>5. MatchesHold'
    BY <2>1, <2>2
  <2>6. ASSUME NEW S \in SUBSET Fact, asserted \subseteq S, Closed(S)
        PROVE  facts' \subseteq S
    <3>1. facts \subseteq S
      BY <2>6
    <3>2. m.then \in S
      BY <2>3, <2>4, <2>6, <3>1 DEF Closed, ClosedUnder
    <3> QED
      BY <2>1, <3>1, <3>2
  <2> QED
    BY <2>2, <2>5, <2>6
<1>4. CASE NextRule
  BY <1>4 DEF NextRule
<1>5. CASE EndPass
  BY <1>5 DEF EndPass
<1>6. CASE UNCHANGED engine
  BY <1>6
<1> QED
  BY <1>1, <1>2, <1>3, <1>4, <1>5, <1>6 DEF EngineNext, EngineStep

(* Whatever closed set holds the asserted facts holds all that the engine  *)
(* has derived, at every step of LogicEngine.closure.                      *)
THEOREM Least == EngineSpec => []ClosureIsLeast
<1>1. EngineInit => LeastInv
  BY DEF EngineInit, LeastInv, MatchesHold, ClosureIsLeast
<1>2. LeastInv => ClosureIsLeast
  BY DEF LeastInv
<1> QED
  BY <1>1, <1>2, LeastStep, EngineTypes, PTL DEF EngineSpec

-----------------------------------------------------------------------------
(* As long as a pass has added nothing, the rules it has been through are  *)
(* satisfied, and so are the matches of the current one that it has used.  *)

PassInv ==
  /\ asserted \subseteq facts
  /\ phase \in {"match", "derive"} /\ ~changed =>
       \A i \in 1 .. (rule - 1) : ClosedUnder(Instances[i], facts)
  /\ phase = "derive" /\ ~changed => ClosedUnder(Instances[rule] \ matches, facts)
  /\ phase = "done" => Closed(facts)

(* Every step keeps what a pass has done so far.                           *)
LEMMA PassStep ==
  EngineTypeOK /\ PassInv /\ [EngineNext]_engine => PassInv'
<1> SUFFICES ASSUME EngineTypeOK, PassInv, [EngineNext]_engine PROVE PassInv'
  OBVIOUS
<1> USE RuleAssumption
<1>1. CASE AnyCall
  BY <1>1 DEF AnyCall, Call, PassInv
<1>2. CASE Match
  <2>1. ClosedUnder(Instances[rule] \ matches', facts)
    BY <1>2 DEF Match, ClosedUnder
  <2> QED
    BY <1>2, <2>1 DEF Match, PassInv, EngineTypeOK
<1>3. CASE Derive
  <2>1. PICK m \in matches :
          /\ m \in Instances[rule]
          /\ matches' = matches \ {m}
          /\ \/ m.then \in facts /\ UNCHANGED <<facts, proofs, changed>>
             \/ facts' = facts \cup {m.then} /\ changed' = TRUE
    BY <1>3, DeriveEffect
  <2>2. phase = "derive" /\ phase' = phase /\ asserted' = asserted /\ rule' = rule
    BY <1>3 DEF Derive
  <2>3. CASE facts' = facts \cup {m.then} /\ changed' = TRUE
    BY <2>2, <2>3 DEF PassInv
  <2>4. CASE m.then \in facts /\ UNCHANGED <<facts, proofs, changed>>
    <3>1. ~changed => ClosedUnder(Instances[rule] \ matches', facts)
      BY <2>1, <2>2, <2>4 DEF PassInv, ClosedUnder
    <3> QED
      BY <2>2, <2>4, <3>1 DEF PassInv
  <2> QED
    BY <2>1, <2>3, <2>4
<1>4. CASE NextRule
  <2>1. ~changed => ClosedUnder(Instances[rule], facts)
    BY <1>4 DEF NextRule, PassInv, ClosedUnder
  <2>2. ~changed => \A i \in 1 .. (rule' - 1) : ClosedUnder(Instances[i], facts)
    <3>1. \A i \in 1 .. (rule' - 1) : i \in 1 .. (rule - 1) \/ i = rule
      BY <1>4 DEF NextRule, EngineTypeOK
    <3> QED
      BY <1>4, <2>1, <3>1 DEF NextRule, PassInv
  <2> QED
    BY <1>4, <2>2 DEF NextRule, PassInv
<1>5. CASE EndPass
  <2>1. CASE changed
    BY <1>5, <2>1 DEF EndPass, PassInv
  <2>2. CASE ~changed
    <3>1. ClosedUnder(Instances[rule], facts)
      BY <1>5, <2>2 DEF EndPass, PassInv, ClosedUnder
    <3>2. \A i \in 1 .. RuleCount : ClosedUnder(Instances[i], facts)
      <4>1. rule = RuleCount /\ phase = "derive"
        BY <1>5 DEF EndPass
      <4>2. \A i \in 1 .. RuleCount : i \in 1 .. (rule - 1) \/ i = rule
        BY <4>1 DEF EngineTypeOK
      <4> QED
        BY <2>2, <3>1, <4>1, <4>2 DEF PassInv
    <3>3. Closed(facts)
      BY <3>2 DEF Closed, ClosedUnder, AllInstances
    <3> QED
      BY <1>5, <2>2, <3>3 DEF EndPass, PassInv
  <2> QED
    BY <2>1, <2>2
<1>6. CASE UNCHANGED engine
  BY <1>6 DEF PassInv, ClosedUnder, Closed
<1> QED
  BY <1>1, <1>2, <1>3, <1>4, <1>5, <1>6 DEF EngineNext, EngineStep

(* What LogicEngine.closure returns is closed under every rule.            *)
THEOREM ClosedWhenDone == EngineSpec => []ClosureIsClosed
<1>1. EngineInit => PassInv
  BY DEF EngineInit, PassInv
<1>2. PassInv => ClosureIsClosed
  BY DEF PassInv, ClosureIsClosed
<1> QED
  BY <1>1, <1>2, PassStep, EngineTypes, PTL DEF EngineSpec

-----------------------------------------------------------------------------
(* The proof trace.                                                        *)

(* The elements of a sequence with one more.                               *)
LEMMA AppendKeeps ==
  ASSUME NEW S, NEW s \in Seq(S), NEW e \in S
  PROVE  /\ Len(Append(s, e)) = Len(s) + 1
         /\ \A i \in 1 .. Len(s) : Append(s, e)[i] = s[i]
         /\ Append(s, e)[Len(s) + 1] = e
  OBVIOUS

(* Every step keeps the proofs grounded.                                   *)
LEMMA GroundedStep ==
  EngineTypeOK /\ MatchesHold /\ ProofsAreGrounded /\ [EngineNext]_engine
    => ProofsAreGrounded'
<1> SUFFICES ASSUME EngineTypeOK, MatchesHold, ProofsAreGrounded, [EngineNext]_engine
             PROVE  ProofsAreGrounded'
  OBVIOUS
<1>1. CASE AnyCall
  <2>1. asserted' = facts' /\ proofs' = << >>
    BY <1>1 DEF AnyCall, Call
  <2>2. Len(proofs') = 0
    BY <2>1
  <2> QED
    BY <2>1, <2>2 DEF ProofsAreGrounded
<1>2. CASE Derive
  <2>1. PICK m \in matches :
          /\ m \in Instances[rule]
          /\ \/ UNCHANGED <<facts, proofs>>
             \/ /\ m.then \notin facts
                /\ facts' = facts \cup {m.then}
                /\ proofs' = Append(proofs, [claim |-> m.then, support |-> m.when])
    BY <1>2, DeriveEffect
  <2>2. asserted' = asserted /\ m.when \subseteq facts
    BY <1>2 DEF Derive, MatchesHold
  <2>3. CASE UNCHANGED <<facts, proofs>>
    BY <2>2, <2>3 DEF ProofsAreGrounded, ProvedBefore
  <2>4. CASE /\ m.then \notin facts
             /\ facts' = facts \cup {m.then}
             /\ proofs' = Append(proofs, [claim |-> m.then, support |-> m.when])
    <3> DEFINE n == Len(proofs)
               e == [claim |-> m.then, support |-> m.when]
    <3>1. m \in AllInstances /\ m \in Instance
      BY <2>1, RuleAssumption DEF EngineTypeOK, AllInstances
    <3>2. e \in Proof /\ proofs \in Seq(Proof) /\ n \in Nat
      BY <3>1 DEF Instance, Proof, EngineTypeOK
    <3>3. /\ Len(proofs') = n + 1
          /\ \A i \in 1 .. n : proofs'[i] = proofs[i]
          /\ proofs'[n + 1] = e
      BY <2>4, <3>2, AppendKeeps
    <3>4. \A i \in 1 .. (n + 1) : ProvedBefore(i)' = ProvedBefore(i)
      BY <2>2, <3>2, <3>3 DEF ProvedBefore
    <3>5. ProvedBefore(n + 1) = facts
      BY <3>2 DEF ProvedBefore, ProofsAreGrounded
    <3>6. facts' = asserted' \cup {proofs'[i].claim : i \in 1 .. Len(proofs')}
      <4>1. facts = asserted \cup {proofs[i].claim : i \in 1 .. n}
        BY DEF ProofsAreGrounded
      <4>2. {proofs'[i].claim : i \in 1 .. (n + 1)}
              = {proofs[i].claim : i \in 1 .. n} \cup {m.then}
        <5>1. 1 .. (n + 1) = (1 .. n) \cup {n + 1}
          BY <3>2
        <5>2. proofs'[n + 1].claim = m.then
          BY <3>3
        <5> QED
          BY <3>3, <5>1, <5>2
      <4> QED
        BY <2>2, <2>4, <3>3, <4>1, <4>2
    <3>7. ASSUME NEW i \in 1 .. Len(proofs')
          PROVE  /\ \E k \in AllInstances :
                      k.then = proofs'[i].claim /\ k.when = proofs'[i].support
                 /\ proofs'[i].support \subseteq ProvedBefore(i)'
                 /\ proofs'[i].claim \notin ProvedBefore(i)'
      <4>1. CASE i \in 1 .. n
        <5>1. proofs'[i] = proofs[i] /\ ProvedBefore(i)' = ProvedBefore(i)
          BY <3>2, <3>3, <3>4, <4>1
        <5> QED
          BY <4>1, <5>1 DEF ProofsAreGrounded
      <4>2. CASE i = n + 1
        <5>1. proofs'[i] = e /\ ProvedBefore(i)' = facts
          BY <3>2, <3>3, <3>4, <3>5, <4>2
        <5> QED
          BY <2>2, <2>4, <3>1, <5>1
      <4> QED
        BY <3>2, <3>3, <4>1, <4>2
    <3> QED
      BY <3>6, <3>7 DEF ProofsAreGrounded
  <2> QED
    BY <2>1, <2>3, <2>4
<1>3. CASE Match \/ NextRule \/ EndPass \/ UNCHANGED engine
  <2>1. UNCHANGED <<asserted, facts, proofs>>
    BY <1>3 DEF Match, NextRule, EndPass
  <2> QED
    BY <2>1 DEF ProofsAreGrounded, ProvedBefore
<1> QED
  BY <1>1, <1>2, <1>3 DEF EngineNext, EngineStep

(* Each derived fact has one proof, whose premises were proved before it:  *)
(* the trace LogicEngine.closure returns has no circular argument.         *)
THEOREM Grounded == EngineSpec => []ProofsAreGrounded
<1>1. EngineInit => LeastInv /\ ProofsAreGrounded
  <2>1. EngineInit => LeastInv
    BY DEF EngineInit, LeastInv, MatchesHold, ClosureIsLeast
  <2>2. EngineInit => ProofsAreGrounded
    <3> SUFFICES ASSUME EngineInit PROVE ProofsAreGrounded
      OBVIOUS
    <3>1. facts = asserted /\ proofs = << >> /\ Len(proofs) = 0
      BY DEF EngineInit
    <3> QED
      BY <3>1 DEF ProofsAreGrounded
  <2> QED
    BY <2>1, <2>2
<1>2. LeastInv => MatchesHold
  BY DEF LeastInv
<1> QED
  BY <1>1, <1>2, LeastStep, GroundedStep, EngineTypes, PTL DEF EngineSpec

-----------------------------------------------------------------------------
(* The closure of a set of facts.                                          *)

(* The conclusion of an instance is a fact.                                *)
LEMMA InstancesConclude ==
  ASSUME NEW m \in AllInstances
  PROVE  m.then \in Fact /\ m.when \subseteq Fact
  BY RuleAssumption DEF AllInstances, Instance

(* It has the facts, is closed, and is in every set that has and is.       *)
LEMMA ClosureIs ==
  ASSUME NEW S \in SUBSET Fact
  PROVE  /\ Closure(S) \in SUBSET Fact /\ S \subseteq Closure(S) /\ Closed(Closure(S))
         /\ \A T \in SUBSET Fact : S \subseteq T /\ Closed(T) => Closure(S) \subseteq T
<1>1. ASSUME NEW m \in AllInstances, m.when \subseteq Closure(S)
      PROVE  m.then \in Closure(S)
  <2>1. ASSUME NEW T \in SUBSET Fact, S \subseteq T, Closed(T) PROVE m.then \in T
    <3>1. m.when \subseteq T
      BY <1>1, <2>1 DEF Closure
    <3> QED
      BY <2>1, <3>1 DEF Closed, ClosedUnder
  <2> QED
    BY <2>1, InstancesConclude DEF Closure
<1>2. Closed(Closure(S))
  BY <1>1 DEF Closed, ClosedUnder
<1> QED
  BY <1>2 DEF Closure

(* More facts have no smaller closure.                                     *)
LEMMA ClosureGrows ==
  ASSUME NEW S \in SUBSET Fact, NEW T \in SUBSET Fact, S \subseteq T
  PROVE  Closure(S) \subseteq Closure(T)
<1>1. S \subseteq Closure(T) /\ Closed(Closure(T)) /\ Closure(T) \in SUBSET Fact
  BY ClosureIs
<1> QED
  BY <1>1, ClosureIs

(* Closing once more adds nothing.                                         *)
LEMMA ClosureTwice ==
  ASSUME NEW S \in SUBSET Fact
  PROVE  Closure(Closure(S)) = Closure(S)
<1>1. Closure(S) \in SUBSET Fact /\ Closed(Closure(S))
  BY ClosureIs
<1>2. Closure(S) \subseteq Closure(Closure(S))
  BY <1>1, ClosureIs
<1>3. Closure(Closure(S)) \subseteq Closure(S)
  BY <1>1, ClosureIs
<1> QED
  BY <1>2, <1>3

(* What is in it and was not given follows by a rule from what is in it.   *)
LEMMA ClosureDerives ==
  ASSUME NEW S \in SUBSET Fact, NEW f \in Closure(S), f \notin S
  PROVE  \E m \in AllInstances : m.then = f /\ m.when \subseteq Closure(S)
<1> SUFFICES ASSUME ~ \E m \in AllInstances : m.then = f /\ m.when \subseteq Closure(S)
             PROVE  FALSE
  OBVIOUS
<1> DEFINE T == Closure(S) \ {f}
<1>1. /\ Closure(S) \in SUBSET Fact /\ S \subseteq Closure(S) /\ Closed(Closure(S))
      /\ \A U \in SUBSET Fact : S \subseteq U /\ Closed(U) => Closure(S) \subseteq U
  BY ClosureIs
<1>2. Closed(T)
  <2> SUFFICES ASSUME NEW m \in AllInstances, m.when \subseteq T PROVE m.then \in T
    BY DEF Closed, ClosedUnder
  <2>1. m.then \in Closure(S)
    BY <1>1 DEF Closed, ClosedUnder
  <2> QED
    BY <2>1
<1>3. T \in SUBSET Fact /\ S \subseteq T
  BY <1>1
<1> QED
  BY <1>1, <1>2, <1>3

(* When no rule helps with its premises, a rule concludes from what was    *)
(* given.                                                                  *)
LEMMA ClosureFlat ==
  ASSUME NEW S \in SUBSET Fact, NEW f \in Closure(S), f \notin S,
         \A m \in AllInstances :
           m.then = f => m.when \cap {k.then : k \in AllInstances} = {}
  PROVE  \E m \in AllInstances : m.then = f /\ m.when \subseteq S
<1>1. PICK m \in AllInstances : m.then = f /\ m.when \subseteq Closure(S)
  BY ClosureDerives
<1>2. ASSUME NEW g \in m.when PROVE g \in S
  <2>1. g \in Closure(S) /\ g \notin {k.then : k \in AllInstances}
    BY <1>1
  <2> QED
    BY <2>1, ClosureDerives
<1> QED
  BY <1>1, <1>2

(* What LogicEngine.closure returns is the closure of what it was given.   *)
LEMMA DoneIsClosure ==
  ASSUME EngineTypeOK, ClosureIsClosed, ClosureIsLeast, phase = "done"
  PROVE  facts = Closure(asserted)
<1>1. asserted \in SUBSET Fact /\ facts \in SUBSET Fact
  BY DEF EngineTypeOK
<1>2. asserted \subseteq facts /\ Closed(facts)
  BY DEF ClosureIsClosed
<1>3. Closure(asserted) \subseteq facts
  BY <1>1, <1>2, ClosureIs
<1>4. facts \subseteq Closure(asserted)
  BY <1>1, ClosureIs DEF ClosureIsLeast
<1> QED
  BY <1>3, <1>4

(* After every call of LogicEngine.closure, in whatever order it has taken *)
(* rules and matches, its result is the closure of its argument.           *)
THEOREM ReturnsClosure == EngineSpec => [](phase = "done" => facts = Closure(asserted))
  BY DoneIsClosure, EngineTypes, ClosedWhenDone, Least, PTL

-----------------------------------------------------------------------------
(* What the resolver hands to the engine: facts of the document and of     *)
(* candidates.                                                             *)

Control ==
  /\ graph \subseteq Fact
  /\ dim \in 1 .. Len(Dimensions)
  /\ cand \in 1 .. Len(Candidates[dim])
  /\ selected \in Seq(Fact)

ControlVars == <<graph, dim, cand, selected>>

(* Every dimension has candidates, and they are facts.                     *)
LEMMA PoolFacts ==
  ASSUME NEW d \in 1 .. Len(Dimensions)
  PROVE  /\ Len(Candidates[d]) \in Nat /\ 1 \in 1 .. Len(Candidates[d])
         /\ DOMAIN Candidates[d] = 1 .. Len(Candidates[d])
         /\ \A c \in 1 .. Len(Candidates[d]) : Candidates[d][c] \in Fact
  BY DimensionAssumption

(* There is a first dimension.                                             *)
LEMMA FirstDimension == 1 \in 1 .. Len(Dimensions)
  BY DimensionAssumption

(* What has been resolved are facts.                                       *)
LEMMA ResolvedFacts ==
  ASSUME Control, NEW chosen \in Seq(Fact)
  PROVE  Resolved(chosen) \subseteq Fact
  BY DEF Resolved, Control

(* A call with facts is a step of the engine.                              *)
LEMMA CallIsAnyCall ==
  ASSUME NEW S \in SUBSET Fact, Call(S)
  PROVE  AnyCall
  BY DEF Call, AnyCall

(* The control holds before the first dimension.                           *)
LEMMA InitControl == Init => Control
<1> SUFFICES ASSUME Init PROVE Control
  OBVIOUS
<1>1. << >> \in Seq(Fact)
  OBVIOUS
<1> QED
  BY <1>1, FirstDimension, PoolFacts, DocumentAssumption DEF Init, Control

(* A step of compile_text computes, or calls the engine with facts, or     *)
(* leaves it alone; and it keeps its loops in their ranges.                *)
LEMMA DecisionStep ==
  ASSUME EngineTypeOK, Control, Decision
  PROVE  (AnyCall \/ UNCHANGED engine) /\ Control'
<1>1. CASE Start
  <2>1. UNCHANGED ControlVars
    BY <1>1 DEF Start, Deciding, ControlVars
  <2>2. Call(graph) /\ graph \in SUBSET Fact
    BY <1>1 DEF Start, Ask, Control
  <2> QED
    BY <2>1, <2>2, CallIsAnyCall DEF Control, ControlVars
<1>2. CASE EnterResolver
  <2>1. UNCHANGED ControlVars
    BY <1>2 DEF EnterResolver, Deciding, ControlVars
  <2>2. Call(graph) /\ graph \in SUBSET Fact
    BY <1>2 DEF EnterResolver, Ask, Control
  <2> QED
    BY <2>1, <2>2, CallIsAnyCall DEF Control, ControlVars
<1>3. CASE Recheck
  <2>1. UNCHANGED ControlVars
    BY <1>3 DEF Recheck, Deciding, ControlVars
  <2>2. Call(facts) /\ facts \in SUBSET Fact
    BY <1>3 DEF Recheck, Ask, EngineTypeOK
  <2> QED
    BY <2>1, <2>2, CallIsAnyCall DEF Control, ControlVars
<1>4. CASE BuildPools
  <2>1. UNCHANGED ControlVars
    BY <1>4 DEF BuildPools, Deciding, ControlVars
  <2>2. << >> \in Seq(Fact) /\ Candidates[1][1] \in Fact
    BY FirstDimension, PoolFacts
  <2>3. Resolved(<< >>) \cup {Candidates[1][1]} \in SUBSET Fact
    BY <2>2, ResolvedFacts
  <2>4. Call(Resolved(<< >>) \cup {Candidates[1][1]})
    BY <1>4 DEF BuildPools, Try
  <2> QED
    BY <2>1, <2>3, <2>4, CallIsAnyCall DEF Control, ControlVars
<1>5. CASE NextCandidate
  <2>1. /\ cand < Len(Candidates[dim]) /\ cand' = cand + 1
        /\ graph' = graph /\ dim' = dim /\ selected' = selected
        /\ Call(Resolved(selected) \cup {Candidates[dim][cand + 1]})
    BY <1>5 DEF NextCandidate, Try
  <2>2. cand + 1 \in 1 .. Len(Candidates[dim])
    BY <2>1, PoolFacts DEF Control
  <2>3. Candidates[dim][cand + 1] \in Fact /\ selected \in Seq(Fact)
    BY <2>2, PoolFacts DEF Control
  <2>4. Resolved(selected) \cup {Candidates[dim][cand + 1]} \in SUBSET Fact
    BY <2>3, ResolvedFacts
  <2> QED
    BY <2>1, <2>2, <2>4, CallIsAnyCall DEF Control
<1>6. ASSUME Collapse
      PROVE  (AnyCall \/ UNCHANGED engine) /\ Control'
  <2>1. PICK i \in DOMAIN Candidates[dim] :
          selected' = Append(selected, Candidates[dim][i])
    BY <1>6 DEF Collapse
  <2>2. Candidates[dim][i] \in Fact /\ selected \in Seq(Fact)
    BY <2>1, PoolFacts DEF Control
  <2>3. selected' \in Seq(Fact)
    BY <2>1, <2>2
  <2>4. graph' = graph /\ cand' = 1
    BY <1>6 DEF Collapse
  <2>5. CASE dim < Len(Dimensions)
    <3>1. dim' = dim + 1 /\ Call(Resolved(selected') \cup {Candidates[dim + 1][1]})
      BY <1>6, <2>5 DEF Collapse, Try
    <3>2. dim + 1 \in 1 .. Len(Dimensions)
      BY <2>5, DimensionAssumption DEF Control
    <3>3. Resolved(selected') \cup {Candidates[dim + 1][1]} \in SUBSET Fact
      BY <2>3, <3>2, PoolFacts, ResolvedFacts
    <3>4. 1 \in 1 .. Len(Candidates[dim + 1])
      BY <3>2, PoolFacts
    <3> QED
      BY <2>3, <2>4, <3>1, <3>2, <3>3, <3>4, CallIsAnyCall DEF Control
  <2>6. CASE ~(dim < Len(Dimensions))
    <3>1. dim' = 1 /\ Call(Resolved(selected'))
      BY <1>6, <2>6 DEF Collapse, Ask
    <3>2. Resolved(selected') \in SUBSET Fact
      BY <2>3, ResolvedFacts
    <3> QED
      BY <2>3, <2>4, <3>1, <3>2, FirstDimension, PoolFacts, CallIsAnyCall DEF Control
  <2> QED
    BY <2>5, <2>6
<1>7. ASSUME NEW result, Finish(result)
      PROVE  (AnyCall \/ UNCHANGED engine) /\ Control'
  <2>1. selected' \in Seq(Fact)
    <3>1. << >> \in Seq(Fact)
      OBVIOUS
    <3> QED
      BY <1>7, <3>1 DEF Finish, Control
  <2>2. graph' = graph /\ dim' = 1 /\ cand' = 1 /\ UNCHANGED engine
    BY <1>7 DEF Finish
  <2> QED
    BY <2>1, <2>2, FirstDimension, PoolFacts DEF Control
<1>8. CASE RefuseSchemas
  BY <1>7, <1>8 DEF RefuseSchemas
<1>9. CASE Decide
  BY <1>6, <1>7, <1>9 DEF Decide
<1>10. CASE Conclude
  BY <1>7, <1>10 DEF Conclude
<1> QED
  BY <1>1, <1>2, <1>3, <1>4, <1>5, <1>8, <1>9, <1>10 DEF Decision

(* Every step of the resolver is a step of the engine, or none, and keeps  *)
(* the control.                                                            *)
LEMMA ResolverStep ==
  EngineTypeOK /\ Control /\ [Next]_vars => [EngineNext]_engine /\ Control'
<1> SUFFICES ASSUME EngineTypeOK, Control, [Next]_vars
             PROVE  [EngineNext]_engine /\ Control'
  OBVIOUS
<1>1. CASE Compute
  BY <1>1 DEF Compute, EngineNext, Control, Deciding
<1>2. CASE Decision
  BY <1>2, DecisionStep DEF EngineNext
<1>3. CASE UNCHANGED vars
  BY <1>3 DEF vars, Control
<1> QED
  BY <1>1, <1>2, <1>3 DEF Next, Step, Stop

-----------------------------------------------------------------------------
(* SSMCompiler.compile_text, seen through the engine's variables, is a run *)
(* of LogicEngine.                                                         *)
THEOREM ResolverRunsEngine == Spec => EngineSpec
<1>1. Init => EngineInit /\ Control /\ EngineTypeOK
  BY InitControl, InitTypes DEF Init
<1>2. EngineTypeOK /\ Control /\ [Next]_vars => EngineTypeOK' /\ Control'
  BY ResolverStep, NextTypes
<1> QED
  BY <1>1, <1>2, ResolverStep, PTL DEF Spec, EngineSpec

(* Every closure that compile_text uses is closed under the rules.         *)
THEOREM ResolverClosures == Spec => []ClosureIsClosed
  BY ResolverRunsEngine, ClosedWhenDone, PTL

(* Every proof trace that compile_text carries on is grounded.             *)
THEOREM ResolverProofs == Spec => []ProofsAreGrounded
  BY ResolverRunsEngine, Grounded, PTL

-----------------------------------------------------------------------------
(* What the rules and the pools give.                                      *)
(* Nothing invalid follows from a document.                                *)
LEMMA GraphIsValid ==
  ASSUME graph \in Documents
  PROVE  Valid(graph)
<1> SUFFICES ASSUME NEW f \in Closure(graph), f \in InvalidFacts PROVE FALSE
  BY DEF Valid
<1>1. graph \in SUBSET Fact /\ f \notin graph /\ graph \cap AnyCandidate = {}
  BY DocumentAssumption, RulesAssumption
<1>2. \A m \in AllInstances :
        m.then = f => m.when \cap {k.then : k \in AllInstances} = {}
  BY RulesAssumption DEF Concluded
<1>3. PICK m \in AllInstances : m.then = f /\ m.when \subseteq graph
  BY <1>1, <1>2, ClosureFlat
<1>4. m.when \cap AnyCandidate # {}
  BY <1>3, RulesAssumption
<1> QED
  BY <1>1, <1>3, <1>4

(* A candidate no rule speaks against leaves valid facts valid.            *)
LEMMA UnopposedIsValid ==
  ASSUME NEW S \in SUBSET Fact, Valid(S), NEW c \in Fact, c \in AnyCandidate,
         Unopposed(c)
  PROVE  Valid(S \cup {c})
<1> SUFFICES ASSUME NEW f \in Closure(S \cup {c}), f \in InvalidFacts PROVE FALSE
  BY DEF Valid
<1>1. S \subseteq Closure(S) /\ Closed(Closure(S))
  BY ClosureIs
<1>2. f \notin S \cup {c}
  BY <1>1, RulesAssumption DEF Valid
<1>3. \A m \in AllInstances :
        m.then = f => m.when \cap {k.then : k \in AllInstances} = {}
  BY RulesAssumption DEF Concluded
<1>4. PICK m \in AllInstances : m.then = f /\ m.when \subseteq S \cup {c}
  BY <1>2, <1>3, ClosureFlat
<1>5. m.when \subseteq Closure(S)
  BY <1>1, <1>4 DEF Unopposed
<1>6. f \in Closure(S)
  BY <1>1, <1>4, <1>5 DEF Closed, ClosedUnder
<1> QED
  BY <1>6 DEF Valid

(* A candidate a rule refuses in the document makes facts with it invalid. *)
LEMMA OpposedIsInvalid ==
  ASSUME NEW S \in SUBSET Fact, graph \subseteq S, NEW c \in Fact, Opposed(graph, c)
  PROVE  ~Valid(S \cup {c})
<1>1. PICK m \in AllInstances : m.then \in InvalidFacts /\ m.when \subseteq graph \cup {c}
  BY DEF Opposed
<1>2. S \cup {c} \subseteq Closure(S \cup {c}) /\ Closed(Closure(S \cup {c}))
  BY ClosureIs
<1>3. m.then \in Closure(S \cup {c})
  BY <1>1, <1>2 DEF Closed, ClosedUnder
<1> QED
  BY <1>1, <1>3 DEF Valid

(* Candidates demand no schema that the document does not.                 *)
LEMMA NoneMissing ==
  ASSUME graph \in Documents, ~Refused, NEW S \in SUBSET Fact, S \subseteq AnyCandidate
  PROVE  MissingSchemas(Closure(graph \cup S)) = {}
<1>1. graph \in SUBSET Fact /\ graph \cup S \in SUBSET Fact
  BY DocumentAssumption
<1>2. graph \subseteq Closure(graph) /\ Closed(Closure(graph))
      /\ Closure(graph) \subseteq Closure(graph \cup S)
  BY <1>1, ClosureIs, ClosureGrows
<1>3. ASSUME NEW f \in Closure(graph \cup S), f \in Demands PROVE f \in Closure(graph)
  <2>1. CASE f \in graph
    BY <1>2, <2>1
  <2>2. CASE f \notin graph
    <3>1. f \notin graph \cup S
      BY <1>3, <2>2, RulesAssumption
    <3>2. \A m \in AllInstances :
            m.then = f => m.when \cap {k.then : k \in AllInstances} = {}
      BY <1>3, RulesAssumption DEF Concluded
    <3>3. PICK m \in AllInstances : m.then = f /\ m.when \subseteq graph \cup S
      BY <1>1, <3>1, <3>2, ClosureFlat
    <3>4. m.when \subseteq Closure(graph)
      BY <1>2, <1>3, <3>3, RulesAssumption
    <3> QED
      BY <1>2, <3>3, <3>4 DEF Closed, ClosedUnder
  <2> QED
    BY <2>1, <2>2
<1>4. ASSUME NEW s \in Schemas, RequiresSchema(s) \in Closure(graph \cup S)
      PROVE  Artifact(s) \in Closure(graph \cup S)
  <2>1. RequiresSchema(s) \in Closure(graph)
    BY <1>3, <1>4 DEF Demands
  <2>2. Artifact(s) \in Closure(graph)
    BY <2>1 DEF Refused, MissingSchemas, Known
  <2> QED
    BY <1>2, <2>2
<1> QED
  BY <1>4 DEF MissingSchemas, Known

-----------------------------------------------------------------------------
(* The winner does not depend on the database that is read.                *)
LEMMA SameWinner ==
  ASSUME graph \in Documents, NEW d \in 1 .. Len(Dimensions), NEW open,
         \A c \in open : ~Opposed(graph, c),
         NEW a \in StatedIn(graph), NEW b \in StatedIn(graph),
         NEW i \in 1 .. Len(Candidates[d]), NEW j \in 1 .. Len(Candidates[d]),
         Best(a, i, Candidates[d], open), Best(b, j, Candidates[d], open)
  PROVE  Candidates[d][i] = Candidates[d][j]
<1> DEFINE c == Candidates[d][i]
           e == Candidates[d][j]
<1>1. c \in Pool(d) /\ e \in Pool(d)
  BY DEF Pool
<1>2. i \in DOMAIN Candidates[d] /\ j \in DOMAIN Candidates[d]
  BY PoolFacts
<1>3. c \in open /\ e \in open
  BY DEF Best
<1>4. Score(c, a) > Score(e, a) \/ (Score(c, a) = Score(e, a) /\ i <= j)
  BY <1>2, <1>3 DEF Best
<1>5. Score(e, b) > Score(c, b) \/ (Score(e, b) = Score(c, b) /\ j <= i)
  BY <1>2, <1>3 DEF Best
<1>6. /\ Score(c, a) \in Int /\ Score(e, a) \in Int
      /\ Score(c, b) \in Int /\ Score(e, b) \in Int
  <2>1. a \in DatabaseFacts \cup {None} /\ b \in DatabaseFacts \cup {None}
    BY DEF StatedIn
  <2> QED
    BY <1>1, <2>1, ScoresAssumption
<1>7. SameOrder(c, e, a, b) /\ SameOrder(e, c, a, b)
  BY <1>1, <1>3, ScoresAssumption
<1> HIDE DEF c, e
<1>8. i = j
  BY <1>4, <1>5, <1>6, <1>7 DEF SameOrder
<1> QED
  BY <1>8

(* Two processes that chose the same before choose the same next.          *)
LEMMA SamePick ==
  ASSUME graph \in Documents, NEW d \in 1 .. Len(Dimensions),
         NEW chosen, NEW other, Before(chosen, d) \in SUBSET Fact,
         \A k \in 1 .. (d - 1) : chosen[k] = other[k],
         Picked(chosen, d), Picked(other, d)
  PROVE  chosen[d] = other[d]
<1>1. Before(chosen, d) = Before(other, d)
  BY DEF Before
<1>2. Admissible(chosen, d) = Admissible(other, d)
  BY <1>1 DEF Admissible
<1>3. PICK a \in StatedIn(graph), i \in 1 .. Len(Candidates[d]) :
        /\ chosen[d] = Candidates[d][i]
        /\ Best(a, i, Candidates[d], Admissible(chosen, d))
  BY DEF Picked
<1>4. PICK b \in StatedIn(graph), j \in 1 .. Len(Candidates[d]) :
        /\ other[d] = Candidates[d][j]
        /\ Best(b, j, Candidates[d], Admissible(chosen, d))
  BY <1>2 DEF Picked
<1>5. ASSUME NEW c \in Admissible(chosen, d) PROVE ~Opposed(graph, c)
  <2>1. graph \subseteq Before(chosen, d)
    BY DEF Before
  <2>2. c \in Fact /\ Valid(Before(chosen, d) \cup {c})
    BY PoolFacts DEF Admissible, Pool
  <2> QED
    BY <2>1, <2>2, OpposedIsInvalid
<1> DEFINE open == Admissible(chosen, d)
<1>6. Best(a, i, Candidates[d], open) /\ Best(b, j, Candidates[d], open)
  BY <1>3, <1>4
<1>7. \A c \in open : ~Opposed(graph, c)
  BY <1>5
<1> HIDE DEF open
<1>8. Candidates[d][i] = Candidates[d][j]
  BY <1>6, <1>7, SameWinner
<1> QED
  BY <1>3, <1>4, <1>8

-----------------------------------------------------------------------------
(* What every step needs: types, a closure that is right, and the control. *)
Basics == EngineTypeOK /\ ClosureIsClosed /\ ClosureIsLeast /\ Control

(* The engine has answered with the closure of what it was asked.          *)
LEMMA Answered ==
  ASSUME Basics, Ready
  PROVE  facts = Closure(asserted) /\ asserted \in SUBSET Fact /\ facts \in SUBSET Fact
<1>1. facts = Closure(asserted)
  BY DoneIsClosure DEF Basics, Ready
<1> QED
  BY <1>1 DEF Basics, EngineTypeOK

(* What has been resolved: the document and a candidate of each dimension  *)
(* decided.                                                                *)
LEMMA ResolvedIs ==
  ASSUME Basics, ResolverInv
  PROVE  /\ Resolved(selected) \in SUBSET Fact /\ graph \in SUBSET Fact
         /\ \A d \in 1 .. (Len(selected) + 1) :
              Before(selected, d) \in SUBSET Fact
         /\ Before(selected, Len(selected) + 1) = Resolved(selected)
<1>1. graph \in SUBSET Fact /\ selected \in Seq(Fact)
  BY DEF Basics, Control
<1>2. Len(selected) \in Nat /\ \A k \in 1 .. Len(selected) : selected[k] \in Fact
  BY <1>1
<1>3. Resolved(selected) \in SUBSET Fact
  BY <1>1, <1>2 DEF Resolved
<1>4. ASSUME NEW d \in 1 .. (Len(selected) + 1) PROVE Before(selected, d) \in SUBSET Fact
  <2>1. \A k \in 1 .. (d - 1) : k \in 1 .. Len(selected)
    BY <1>2
  <2> QED
    BY <1>1, <1>2, <2>1 DEF Before
<1>5. (Len(selected) + 1) - 1 = Len(selected)
  BY <1>2
<1>6. Before(selected, Len(selected) + 1) = Resolved(selected)
  BY <1>5 DEF Before, Resolved
<1> QED
  BY <1>1, <1>3, <1>4, <1>6

(* The choices made are candidates.                                        *)
LEMMA SelectedAreCandidates ==
  ASSUME Basics, ResolverInv, Len(selected) <= Len(Dimensions)
  PROVE  {selected[i] : i \in 1 .. Len(selected)} \subseteq AnyCandidate \cap Fact
<1>1. selected \in Seq(Fact) /\ Len(selected) \in Nat /\ Len(Dimensions) \in Nat
  BY DimensionAssumption DEF Basics, Control
<1>2. ASSUME NEW d \in 1 .. Len(selected) PROVE selected[d] \in AnyCandidate \cap Fact
  <2>1. d \in 1 .. Len(Dimensions)
    BY <1>1
  <2>2. PICK i \in 1 .. Len(Candidates[d]) : selected[d] = Candidates[d][i]
    BY DEF ResolverInv, LoopInv, Picked
  <2>3. selected[d] \in Pool(d)
    BY <2>2 DEF Pool
  <2> QED
    BY <1>1, <2>1, <2>3 DEF AnyCandidate
<1> QED
  BY <1>2

(* A compilation ends with what the one before it ended with.              *)
LEMMA FinishStep ==
  ASSUME Basics, ResolverInv, NEW result, Finish(result),
         \/ result = "compiled" /\ ~Refused /\ Complete(selected)
         \/ result = "schema_missing" /\ Refused /\ selected = << >>
  PROVE  ResolverInv'
<1>1. /\ graph' = graph /\ graph \in Documents /\ result \in Results
      /\ dim' = 1 /\ cand' = 1 /\ admissible' = {}
  BY DEF Finish, ResolverInv, Results
<1>2. Refused' <=> Refused
  BY <1>1 DEF Refused
<1>3. ASSUME NEW chosen, NEW d PROVE Picked(chosen, d)' <=> Picked(chosen, d)
  BY <1>1 DEF Picked, Admissible, Before, StatedIn, Valid
<1>4. ASSUME NEW chosen PROVE Complete(chosen)' <=> Complete(chosen)
  BY <1>3 DEF Complete
<1>5. CASE previous = None
  <2>1. previous' = Outcome(result) /\ at' = "first" /\ selected' = << >>
    BY <1>5 DEF Finish
  <2>2. previous'.result = result /\ previous'.selected = selected
    BY <2>1 DEF Outcome
  <2>3. previous' # None
    <3>1. Outcome(result) \in [result : Results, selected : Seq(Fact)]
      BY <1>1 DEF Outcome, Basics, Control
    <3> QED
      BY <2>1, <3>1, NoneAssumption
  <2>4. Len(selected') = 0 /\ 1 .. Len(selected') = {}
    BY <2>1
  <2>5. LoopInv'
    BY <1>1, <2>1, <2>4 DEF LoopInv, Unresolved
  <2>6. AskedInv'
    BY <2>1 DEF AskedInv
  <2>7. PreviousInv'
    <3>1. \/ result = "compiled" /\ ~Refused' /\ Complete(previous.selected)'
          \/ result = "schema_missing" /\ Refused' /\ previous'.selected = << >>
      <4>1. Complete(selected) => Complete(previous.selected)'
        BY <1>1, <1>3, <2>2 DEF Complete
      <4> QED
        BY <1>2, <2>2, <4>1
    <3> QED
      BY <2>1, <2>2, <2>4, <3>1 DEF PreviousInv, Results
  <2> QED
    BY <1>1, <2>1, <2>5, <2>6, <2>7 DEF ResolverInv, Places
<1>6. CASE previous # None
  <2>1. at' = result /\ previous' = previous /\ selected' = selected
    BY <1>6 DEF Finish
  <2>2. previous.result = result /\ previous.selected = selected
    <3>1. \/ previous.result = "compiled" /\ ~Refused /\ Complete(previous.selected)
          \/ previous.result = "schema_missing" /\ Refused /\ previous.selected = << >>
      BY <1>6 DEF ResolverInv, PreviousInv
    <3>2. CASE Refused
      BY <3>1, <3>2
    <3>3. CASE ~Refused
      <4>1. Complete(previous.selected) /\ Complete(selected)
        BY <3>1, <3>3
      <4>2. \A d \in 1 .. Len(selected) : selected[d] = previous.selected[d]
        BY <1>6 DEF ResolverInv, PreviousInv
      <4>3. previous.selected = selected
        BY <4>1, <4>2 DEF Complete
      <4> QED
        BY <3>1, <3>3, <4>3
    <3> QED
      BY <3>2, <3>3
  <2>3. LoopInv'
    <3>1. \A d \in 1 .. Len(selected) : Picked(selected, d)'
      BY <1>3, <2>1 DEF ResolverInv, LoopInv
    <3> QED
      BY <1>1, <2>1, <3>1 DEF LoopInv, Results, Unresolved
  <2>4. AskedInv'
    BY <1>1, <2>1 DEF AskedInv, Results
  <2>5. PreviousInv'
    <3>1. \/ previous.result = "compiled" /\ ~Refused' /\ Complete(previous.selected)'
          \/ previous.result = "schema_missing" /\ Refused' /\ previous.selected = << >>
      <4>1. Complete(previous.selected) => Complete(previous.selected)'
        BY <1>1, <1>3, <2>1 DEF Complete
      <4> QED
        BY <1>2, <1>6, <4>1 DEF ResolverInv, PreviousInv
    <3> QED
      BY <1>6, <2>1, <2>2, <3>1 DEF PreviousInv
  <2> QED
    BY <1>1, <2>1, <2>3, <2>4, <2>5 DEF ResolverInv, Places
<1> QED
  BY <1>5, <1>6

(* What only depends on the document stays as it is.                       *)
LEMMA SameDocument ==
  ASSUME graph' = graph
  PROVE  /\ Refused' <=> Refused
         /\ \A chosen, d : Picked(chosen, d)' <=> Picked(chosen, d)
         /\ \A chosen, d : Admissible(chosen, d)' = Admissible(chosen, d)
         /\ \A S : Valid(S)' <=> Valid(S)
         /\ StatedIn(graph)' = StatedIn(graph)
<1>1. \A chosen, d : Admissible(chosen, d)' = Admissible(chosen, d)
  BY DEF Admissible, Before, Valid
<1>2. StatedIn(graph)' = StatedIn(graph)
  BY DEF StatedIn
<1>3. \A chosen, d : Picked(chosen, d)' <=> Picked(chosen, d)
  BY <1>1, <1>2 DEF Picked
<1> QED
  BY <1>1, <1>2, <1>3 DEF Refused, Valid

(* As long as what has been selected stays, so does what was found.        *)
LEMMA PreviousKept ==
  ASSUME ResolverInv, graph' = graph, previous' = previous, selected' = selected,
         at' \notin Results
  PROVE  PreviousInv'
<1>1. (Refused' <=> Refused) /\ \A chosen, d : Picked(chosen, d)' <=> Picked(chosen, d)
  BY SameDocument
<1>2. Complete(previous.selected) => Complete(previous.selected)'
  BY <1>1 DEF Complete
<1> QED
  BY <1>1, <1>2 DEF ResolverInv, PreviousInv

(* And so do the choices.                                                  *)
LEMMA SelectedKept ==
  ASSUME ResolverInv, graph' = graph, selected' = selected
  PROVE  /\ graph' \in Documents
         /\ \A d \in 1 .. Len(selected') : Picked(selected, d)'
         /\ Resolved(selected)' = Resolved(selected)
<1>1. \A d \in 1 .. Len(selected) : Picked(selected, d)
  BY DEF ResolverInv, LoopInv
<1>2. \A d \in 1 .. Len(selected') : Picked(selected, d)'
  BY <1>1, SameDocument
<1> QED
  BY <1>2 DEF ResolverInv, Resolved

(* The steps up to the first candidate.                                    *)
LEMMA OpeningStep ==
  ASSUME Basics, ResolverInv, Start \/ EnterResolver \/ BuildPools
  PROVE  ResolverInv'
<1>1. /\ graph' = graph /\ selected' = selected /\ previous' = previous
      /\ dim' = dim /\ cand' = cand /\ admissible' = admissible
  BY DEF Start, EnterResolver, BuildPools, Deciding
<1>2. /\ at \in Unresolved /\ selected = << >> /\ dim = 1 /\ cand = 1 /\ admissible = {}
      /\ Len(selected) = 0 /\ Resolved(selected) = graph
  <2>1. at \in Unresolved
    BY DEF Start, EnterResolver, BuildPools, Unresolved
  <2>2. selected = << >> /\ dim = 1 /\ cand = 1 /\ admissible = {}
    BY <2>1 DEF ResolverInv, LoopInv
  <2>3. Len(selected) = 0
    BY <2>2
  <2> QED
    BY <2>1, <2>2, <2>3 DEF Resolved
<1>3. graph' \in Documents /\ \A d \in 1 .. Len(selected') : Picked(selected, d)'
  BY <1>1, SelectedKept
<1>4. CASE Start
  <2>1. at' = "check" /\ asserted' = graph
    BY <1>4 DEF Start, Ask, Call
  <2>2. PreviousInv'
    BY <1>1, <2>1, PreviousKept DEF Results
  <2> QED
    BY <1>1, <1>2, <1>3, <2>1, <2>2
    DEF ResolverInv, Places, AskedInv, LoopInv, Unresolved
<1>5. CASE EnterResolver
  <2>1. at = "check" /\ at' = "pools" /\ asserted' = graph /\ Ready
        /\ MissingSchemas(facts) = {}
    BY <1>5 DEF EnterResolver, Ask, Call
  <2>2. asserted = graph
    BY <2>1 DEF ResolverInv, AskedInv
  <2>3. ~Refused'
    <3>1. ~Refused
      BY <2>1, <2>2, Answered DEF Refused
    <3> QED
      BY <1>1, <3>1, SameDocument
  <2>4. PreviousInv'
    BY <1>1, <2>1, PreviousKept DEF Results
  <2> QED
    BY <1>1, <1>2, <1>3, <2>1, <2>3, <2>4
    DEF ResolverInv, Places, AskedInv, LoopInv, Unresolved
<1>6. CASE BuildPools
  <2>1. /\ at = "pools" /\ at' = "candidate"
        /\ asserted' = Resolved(<< >>) \cup {Candidates[1][1]}
        /\ database' \in StatedIn(graph)
    BY <1>6 DEF BuildPools, Try, Call
  <2>2. PreviousInv'
    BY <1>1, <2>1, PreviousKept DEF Results
  <2>3. AskedInv'
    BY <1>1, <1>2, <2>1 DEF AskedInv, Resolved
  <2>4. ~Refused' /\ Valid(Resolved(selected))'
    <3>1. ~Refused /\ Valid(graph)
      BY <2>1, GraphIsValid DEF ResolverInv, LoopInv
    <3>2. Resolved(selected)' = graph
      BY <1>1, <1>2 DEF Resolved
    <3> QED
      BY <1>1, <3>1, <3>2, SameDocument DEF Valid
  <2>5. database' \in StatedIn(graph)'
    BY <1>1, <2>1
  <2>6. {Candidates[dim'][c] : c \in 1 .. (cand' - 1)} = {}
    BY <1>1, <1>2
  <2>7. LoopInv'
    BY <1>1, <1>2, <1>3, <2>1, <2>4, <2>5, <2>6 DEF LoopInv, Unresolved
  <2> QED
    BY <1>3, <2>1, <2>2, <2>3, <2>7 DEF ResolverInv, Places
<1> QED
  BY <1>4, <1>5, <1>6

(* A candidate is admitted when it is admissible with the choices made.    *)
LEMMA JudgedIs ==
  ASSUME Basics, ResolverInv, at = "candidate", Ready
  PROVE  Judged = Admissible(selected, dim) \cap {Candidates[dim][c] : c \in 1 .. cand}
<1> DEFINE x == Candidates[dim][cand]
           tried == {Candidates[dim][c] : c \in 1 .. (cand - 1)}
<1>1. /\ asserted = Resolved(selected) \cup {x} /\ Len(selected) = dim - 1
      /\ admissible = Admissible(selected, dim) \cap tried
  BY DEF ResolverInv, AskedInv, LoopInv
<1>2. dim \in Nat /\ cand \in Nat /\ cand >= 1 /\ cand \in 1 .. Len(Candidates[dim])
  BY PoolFacts DEF Basics, Control
<1>3. facts = Closure(Resolved(selected) \cup {x})
  BY <1>1, Answered
<1>4. Before(selected, dim) = Resolved(selected)
  <2>1. dim = Len(selected) + 1
    BY <1>1, <1>2
  <2> QED
    BY <2>1, ResolvedIs
<1>5. Admits <=> x \in Admissible(selected, dim)
  <2>1. x \in Pool(dim)
    BY <1>2 DEF Pool
  <2> QED
    BY <1>3, <1>4, <2>1 DEF Admits, Admissible, Valid
<1>6. {Candidates[dim][c] : c \in 1 .. cand} = tried \cup {x}
  <2>1. 1 .. cand = (1 .. (cand - 1)) \cup {cand}
    BY <1>2
  <2> QED
    BY <2>1
<1> HIDE DEF x, tried
<1>7. Judged = IF Admits THEN admissible \cup {x} ELSE admissible
  BY DEF Judged, x
<1> QED
  BY <1>1, <1>5, <1>6, <1>7

(* The next candidate of a dimension.                                      *)
LEMMA CandidateStep ==
  ASSUME Basics, ResolverInv, NextCandidate
  PROVE  ResolverInv'
<1>1. /\ graph' = graph /\ selected' = selected /\ previous' = previous
      /\ dim' = dim /\ cand' = cand + 1 /\ admissible' = Judged /\ at = "candidate"
      /\ at' = "candidate" /\ database' = database /\ Ready
      /\ asserted' = Resolved(selected) \cup {Candidates[dim][cand + 1]}
  BY DEF NextCandidate, Try, Call
<1>2. graph' \in Documents /\ (\A d \in 1 .. Len(selected') : Picked(selected, d)')
      /\ Resolved(selected)' = Resolved(selected)
  BY <1>1, SelectedKept
<1>3. PreviousInv'
  BY <1>1, PreviousKept DEF Results
<1>4. cand' - 1 = cand
  BY <1>1, PoolFacts DEF Basics, Control
<1>5. admissible' = Admissible(selected, dim)'
                      \cap {Candidates[dim'][c] : c \in 1 .. (cand' - 1)}
  BY <1>1, <1>4, JudgedIs, SameDocument
<1>6. /\ ~Refused' /\ Valid(Resolved(selected))' /\ database' \in StatedIn(graph)'
      /\ Len(selected') = dim' - 1
  <2>1. ~Refused /\ Valid(Resolved(selected)) /\ database \in StatedIn(graph)
        /\ Len(selected) = dim - 1
    BY <1>1 DEF ResolverInv, LoopInv
  <2> QED
    BY <1>1, <1>2, <2>1, SameDocument DEF Valid
<1>7. LoopInv'
  BY <1>1, <1>2, <1>5, <1>6 DEF LoopInv, Unresolved
<1>8. AskedInv'
  BY <1>1, <1>2 DEF AskedInv
<1> QED
  BY <1>1, <1>2, <1>3, <1>7, <1>8 DEF ResolverInv, Places

(* Every dimension leaves a candidate.                                     *)
LEMMA SomeAdmissible ==
  ASSUME Basics, ResolverInv, at = "candidate"
  PROVE  Admissible(selected, dim) # {}
<1>1. dim \in 1 .. Len(Dimensions) /\ Len(selected) = dim - 1 /\ Valid(Resolved(selected))
  BY DEF Basics, Control, ResolverInv, LoopInv
<1>2. PICK c \in Pool(dim) : Unopposed(c)
  BY <1>1, RulesAssumption
<1>3. c \in Fact /\ c \in AnyCandidate
  BY <1>1, PoolFacts DEF Pool, AnyCandidate
<1>4. Before(selected, dim) = Resolved(selected) /\ Resolved(selected) \in SUBSET Fact
  <2>1. dim = Len(selected) + 1
    BY <1>1
  <2> QED
    BY <2>1, ResolvedIs
<1>5. Valid(Before(selected, dim) \cup {c})
  BY <1>1, <1>2, <1>3, <1>4, UnopposedIsValid
<1> QED
  BY <1>2, <1>5 DEF Admissible

(* What was found stays when the choices go on as they were made before.   *)
LEMMA PreviousFollowed ==
  ASSUME ResolverInv, graph' = graph, previous' = previous, at' \notin Results,
         previous # None => \A d \in 1 .. Len(selected') : selected'[d] = previous.selected[d]
  PROVE  PreviousInv'
<1>1. (Refused' <=> Refused) /\ \A chosen, d : Picked(chosen, d)' <=> Picked(chosen, d)
  BY SameDocument
<1>2. Complete(previous.selected) => Complete(previous.selected)'
  BY <1>1 DEF Complete
<1> QED
  BY <1>1, <1>2 DEF ResolverInv, PreviousInv

(* One more choice: the facts before each dimension stay what they were.   *)
LEMMA OneMoreChoice ==
  ASSUME Basics, ResolverInv, at = "candidate",
         NEW i \in 1 .. Len(Candidates[dim]),
         Best(database, i, Candidates[dim], Admissible(selected, dim)),
         NEW chosen, chosen = Append(selected, Candidates[dim][i])
  PROVE  /\ chosen \in Seq(Fact) /\ Len(chosen) = dim
         /\ \A d \in 1 .. dim : Before(chosen, d) \in SUBSET Fact
         /\ \A d \in 1 .. dim : Picked(chosen, d)
         /\ \A d \in 1 .. (dim - 1) : chosen[d] = selected[d]
         /\ Valid(Resolved(chosen))
<1> DEFINE x == Candidates[dim][i]
<1>1. /\ dim \in 1 .. Len(Dimensions) /\ selected \in Seq(Fact) /\ x \in Fact
      /\ Len(selected) = dim - 1 /\ database \in StatedIn(graph)
      /\ \A d \in 1 .. Len(selected) : Picked(selected, d)
  BY PoolFacts DEF Basics, Control, ResolverInv, LoopInv
<1>2. /\ chosen \in Seq(Fact) /\ Len(chosen) = dim /\ chosen[dim] = x
      /\ \A d \in 1 .. (dim - 1) : chosen[d] = selected[d]
  BY <1>1
<1>3. ASSUME NEW d \in 1 .. dim
      PROVE  Before(chosen, d) = Before(selected, d) /\ Before(chosen, d) \in SUBSET Fact
  <2>1. \A k \in 1 .. (d - 1) : k \in 1 .. (dim - 1)
    BY <1>1
  <2>2. Before(chosen, d) = Before(selected, d)
    BY <1>2, <2>1 DEF Before
  <2>3. d \in 1 .. (Len(selected) + 1)
    BY <1>1
  <2> QED
    BY <2>2, <2>3, ResolvedIs
<1>4. ASSUME NEW d \in 1 .. dim PROVE Admissible(chosen, d) = Admissible(selected, d)
  BY <1>3 DEF Admissible
<1>5. Picked(chosen, dim)
  <2>1. dim \in 1 .. dim
    BY <1>1
  <2>2. Admissible(chosen, dim) = Admissible(selected, dim)
    BY <1>4, <2>1
  <2>3. chosen[dim] = Candidates[dim][i]
    BY <1>2
  <2> QED
    BY <1>1, <2>2, <2>3 DEF Picked
<1>6. ASSUME NEW d \in 1 .. (dim - 1) PROVE Picked(chosen, d)
  <2>1. d \in 1 .. dim /\ d \in 1 .. Len(selected)
    BY <1>1
  <2>2. Picked(selected, d) /\ chosen[d] = selected[d]
    BY <1>1, <1>2, <2>1
  <2>3. Admissible(chosen, d) = Admissible(selected, d)
    BY <1>4, <2>1
  <2> QED
    BY <2>2, <2>3 DEF Picked
<1>7. \A d \in 1 .. dim : Picked(chosen, d)
  <2>1. \A d \in 1 .. dim : d = dim \/ d \in 1 .. (dim - 1)
    BY <1>1
  <2> QED
    BY <1>5, <1>6, <2>1
<1>8. Resolved(chosen) = Before(selected, dim) \cup {x}
  <2>1. 1 .. Len(chosen) = (1 .. (dim - 1)) \cup {dim}
    BY <1>1, <1>2
  <2>2. {chosen[k] : k \in 1 .. Len(chosen)} = {selected[k] : k \in 1 .. (dim - 1)} \cup {x}
    BY <1>2, <2>1
  <2> QED
    BY <2>2 DEF Resolved, Before
<1>9. Valid(Resolved(chosen))
  BY <1>8 DEF Best, Admissible
<1> QED
  BY <1>2, <1>3, <1>7, <1>9

(* A dimension collapses to its best admissible candidate, which is the    *)
(* one the process before took.                                            *)
LEMMA CollapseStep ==
  ASSUME Basics, ResolverInv, at = "candidate", Ready, cand = Len(Candidates[dim]),
         Collapse
  PROVE  ResolverInv'
<1>1. /\ dim \in 1 .. Len(Dimensions) /\ Len(Dimensions) \in Nat
      /\ Len(selected) = dim - 1 /\ database \in StatedIn(graph) /\ ~Refused
      /\ graph \in Documents
  BY DimensionAssumption DEF Basics, Control, ResolverInv, LoopInv
<1>2. Judged = Admissible(selected, dim)
  <2>1. Admissible(selected, dim) \subseteq {Candidates[dim][c] : c \in 1 .. cand}
    BY DEF Admissible, Pool
  <2> QED
    BY <2>1, JudgedIs
<1>3. PICK i \in 1 .. Len(Candidates[dim]) :
        /\ Best(database, i, Candidates[dim], Admissible(selected, dim))
        /\ selected' = Append(selected, Candidates[dim][i])
  BY <1>1, <1>2, PoolFacts DEF Collapse, Wins
<1>4. PICK chosen : chosen = selected'
  OBVIOUS
<1>5. /\ chosen \in Seq(Fact) /\ Len(chosen) = dim
      /\ \A d \in 1 .. dim : Before(chosen, d) \in SUBSET Fact
      /\ \A d \in 1 .. dim : Picked(chosen, d)
      /\ \A d \in 1 .. (dim - 1) : chosen[d] = selected[d]
      /\ Valid(Resolved(chosen))
  BY <1>3, <1>4, OneMoreChoice
<1>6. /\ graph' = graph /\ database' = database /\ previous' = previous
      /\ admissible' = {} /\ cand' = 1
  BY DEF Collapse
<1>7. ASSUME previous # None PROVE \A d \in 1 .. dim : chosen[d] = previous.selected[d]
  <2>1. /\ Complete(previous.selected)
        /\ \A d \in 1 .. (dim - 1) : selected[d] = previous.selected[d]
    BY <1>1, <1>7 DEF ResolverInv, PreviousInv
  <2>2. \A d \in 1 .. (dim - 1) : chosen[d] = previous.selected[d]
    BY <1>5, <2>1
  <2>3. dim \in 1 .. dim /\ \A d \in 1 .. dim : d = dim \/ d \in 1 .. (dim - 1)
    BY <1>1
  <2>4. Picked(previous.selected, dim) /\ Picked(chosen, dim)
        /\ Before(chosen, dim) \in SUBSET Fact
    BY <1>1, <1>5, <2>1, <2>3 DEF Complete
  <2>5. chosen[dim] = previous.selected[dim]
    BY <1>1, <2>2, <2>4, SamePick
  <2> QED
    BY <2>2, <2>3, <2>5
<1>8. at' \in {"candidate", "final"}
  BY DEF Collapse, Ask
<1>9. PreviousInv'
  BY <1>4, <1>5, <1>6, <1>7, <1>8, PreviousFollowed DEF Results
<1>10. /\ ~Refused' /\ Valid(Resolved(selected))' /\ database' \in StatedIn(graph)'
       /\ (\A d \in 1 .. Len(selected) : Picked(selected, d))'
  <2>1. Valid(Resolved(selected))'
    BY <1>4, <1>5, <1>6 DEF Valid, Resolved
  <2>2. ASSUME NEW d \in 1 .. dim PROVE Picked(selected, d)'
    <3>1. Before(selected, d)' = Before(chosen, d)
      BY <1>4, <1>6 DEF Before
    <3>2. Admissible(selected, d)' = Admissible(chosen, d)
      BY <3>1 DEF Admissible, Valid
    <3>3. PICK db \in StatedIn(graph), j \in 1 .. Len(Candidates[d]) :
            /\ chosen[d] = Candidates[d][j]
            /\ Best(db, j, Candidates[d], Admissible(chosen, d))
      BY <1>5 DEF Picked
    <3> QED
      BY <1>4, <1>6, <3>2, <3>3 DEF Picked, StatedIn
  <2>3. Len(selected') = dim
    BY <1>4, <1>5
  <2>4. (\A d \in 1 .. Len(selected) : Picked(selected, d))'
    BY <2>2, <2>3
  <2> QED
    BY <1>1, <1>6, <2>1, <2>4, SameDocument
<1>11. CASE dim < Len(Dimensions)
  <2>1. /\ dim' = dim + 1 /\ at' = "candidate"
        /\ asserted' = Resolved(selected') \cup {Candidates[dim + 1][1]}
    BY <1>11 DEF Collapse, Try, Call
  <2>2. Resolved(selected') = Resolved(selected)'
    BY <1>6 DEF Resolved
  <2>3. AskedInv'
    BY <1>6, <2>1, <2>2 DEF AskedInv
  <2>4. Len(selected') = dim' - 1
    BY <1>1, <1>4, <1>5, <2>1
  <2>5. {Candidates[dim'][c] : c \in 1 .. (cand' - 1)} = {}
    BY <1>6
  <2>6. LoopInv'
    BY <1>6, <1>10, <2>1, <2>4, <2>5 DEF LoopInv, Unresolved
  <2> QED
    BY <1>1, <1>6, <1>9, <2>1, <2>3, <2>6 DEF ResolverInv, Places
<1>12. CASE ~(dim < Len(Dimensions))
  <2>1. at' = "final" /\ asserted' = Resolved(selected')
    BY <1>12 DEF Collapse, Ask, Call
  <2>2. Resolved(selected') = Resolved(selected)'
    BY <1>6 DEF Resolved
  <2>3. AskedInv'
    BY <2>1, <2>2 DEF AskedInv
  <2>4. Len(selected') = Len(Dimensions)
    BY <1>1, <1>4, <1>5, <1>12
  <2>5. LoopInv'
    BY <1>10, <2>1, <2>4 DEF LoopInv, Unresolved
  <2> QED
    BY <1>1, <1>6, <1>9, <2>1, <2>3, <2>5 DEF ResolverInv, Places
<1> QED
  BY <1>11, <1>12

(* No dimension is refused.                                                *)
LEMMA DecideStep ==
  ASSUME Basics, ResolverInv, Decide
  PROVE  ResolverInv'
<1>1. at = "candidate" /\ Ready /\ cand = Len(Candidates[dim])
  BY DEF Decide
<1>2. Judged = Admissible(selected, dim)
  <2>1. Admissible(selected, dim) \subseteq {Candidates[dim][c] : c \in 1 .. cand}
    BY <1>1 DEF Admissible, Pool
  <2> QED
    BY <1>1, <2>1, JudgedIs
<1>3. Judged # {}
  BY <1>1, <1>2, SomeAdmissible
<1> QED
  BY <1>1, <1>3, CollapseStep DEF Decide

(* A document is refused for the schemas that its closure lacks.           *)
LEMMA RefuseStep ==
  ASSUME Basics, ResolverInv, RefuseSchemas
  PROVE  ResolverInv'
<1>1. at = "check" /\ Ready /\ MissingSchemas(facts) # {} /\ Finish("schema_missing")
  BY DEF RefuseSchemas
<1>2. facts = Closure(asserted) /\ asserted = graph /\ selected = << >>
  BY <1>1, Answered DEF ResolverInv, AskedInv, LoopInv, Unresolved
<1>3. Refused
  BY <1>1, <1>2 DEF Refused
<1> QED
  BY <1>1, <1>2, <1>3, FinishStep

(* The resolved facts are closed once more.                                *)
LEMMA RecheckStep ==
  ASSUME Basics, ResolverInv, Recheck
  PROVE  ResolverInv'
<1>1. /\ at = "final" /\ at' = "recheck" /\ Ready /\ asserted' = facts
      /\ graph' = graph /\ selected' = selected /\ previous' = previous
  BY DEF Recheck, Ask, Call, Deciding
<1>2. facts = Closure(Resolved(selected))
  BY <1>1, Answered DEF ResolverInv, AskedInv
<1>3. graph' \in Documents /\ (\A d \in 1 .. Len(selected') : Picked(selected, d)')
      /\ Resolved(selected)' = Resolved(selected)
  BY <1>1, SelectedKept
<1>4. PreviousInv'
  BY <1>1, PreviousKept DEF Results
<1>5. LoopInv'
  <2>1. ~Refused /\ Valid(Resolved(selected)) /\ Len(selected) = Len(Dimensions)
    BY <1>1 DEF ResolverInv, LoopInv
  <2>2. ~Refused' /\ Valid(Resolved(selected))'
    BY <1>1, <1>3, <2>1, SameDocument DEF Valid
  <2> QED
    BY <1>1, <1>3, <2>1, <2>2 DEF LoopInv, Unresolved
<1>6. AskedInv'
  BY <1>1, <1>2, <1>3 DEF AskedInv
<1> QED
  BY <1>1, <1>3, <1>4, <1>5, <1>6 DEF ResolverInv, Places

(* What is found last: the closure of what has been resolved, valid and    *)
(* with every schema it demands.                                           *)
LEMMA ResolvedIsWhole ==
  ASSUME Basics, ResolverInv, at \in {"final", "recheck"}, Ready
  PROVE  /\ facts \cap InvalidFacts = {} /\ Resolved(selected) \subseteq facts
         /\ MissingSchemas(facts) = {}
<1>1. Resolved(selected) \in SUBSET Fact
  BY ResolvedIs
<1>2. facts = Closure(Resolved(selected))
  <2>1. facts = Closure(asserted)
    BY Answered
  <2> QED
    BY <1>1, <2>1, ClosureTwice DEF ResolverInv, AskedInv
<1>3. /\ ~Refused /\ Valid(Resolved(selected)) /\ graph \in Documents
      /\ Len(selected) = Len(Dimensions)
  BY DEF ResolverInv, LoopInv
<1>4. Len(selected) <= Len(Dimensions)
  BY <1>3, DimensionAssumption
<1> DEFINE S == {selected[i] : i \in 1 .. Len(selected)}
<1>5. S \subseteq AnyCandidate /\ S \in SUBSET Fact
  BY <1>4, SelectedAreCandidates
<1>6. Resolved(selected) = graph \cup S
  BY DEF Resolved
<1> HIDE DEF S
<1>7. MissingSchemas(facts) = {}
  BY <1>2, <1>3, <1>5, <1>6, NoneMissing
<1>8. Resolved(selected) \subseteq facts
  BY <1>1, <1>2, ClosureIs
<1> QED
  BY <1>2, <1>3, <1>7, <1>8 DEF Valid

(* What has been resolved is never refused for a schema.                   *)
LEMMA ConcludeStep ==
  ASSUME Basics, ResolverInv, Conclude
  PROVE  ResolverInv'
<1>1. at = "recheck" /\ Ready
      /\ Finish(IF MissingSchemas(facts) = {} THEN "compiled" ELSE "late_schema_missing")
  BY DEF Conclude
<1>2. Finish("compiled")
  BY <1>1, ResolvedIsWhole
<1>3. ~Refused /\ Complete(selected)
  BY <1>1 DEF ResolverInv, LoopInv, Complete, Basics, Control
<1> QED
  BY <1>2, <1>3, FinishStep

(* The engine's own steps change nothing the resolver has done.            *)
LEMMA ComputeStep ==
  ASSUME Basics, ResolverInv,
         asserted' = asserted, UNCHANGED <<at, graph, database, Deciding, previous>>
  PROVE  ResolverInv'
<1>1. /\ at' = at /\ graph' = graph /\ database' = database /\ previous' = previous
      /\ dim' = dim /\ cand' = cand /\ admissible' = admissible /\ selected' = selected
  BY DEF Deciding
<1>2. Admissible(selected, dim)' = Admissible(selected, dim)
      /\ Resolved(selected)' = Resolved(selected) /\ Unresolved' = Unresolved
  BY <1>1 DEF Admissible, Before, Valid, Resolved, Unresolved
<1>3. (Refused' <=> Refused) /\ (\A chosen, d : Picked(chosen, d)' <=> Picked(chosen, d))
      /\ (\A S : Valid(S)' <=> Valid(S)) /\ StatedIn(graph)' = StatedIn(graph)
  BY <1>1, SameDocument
<1>4. AskedInv'
  BY <1>1, <1>2 DEF ResolverInv, AskedInv
<1>5. (\A d \in 1 .. Len(selected) : Picked(selected, d))'
  BY <1>1, SelectedKept
<1>6. Valid(Resolved(selected))' <=> Valid(Resolved(selected))
  BY <1>2 DEF Valid
<1>7. LoopInv'
  BY <1>1, <1>2, <1>3, <1>5, <1>6 DEF ResolverInv, LoopInv
<1>8. PreviousInv'
  <2>1. Complete(previous.selected)' <=> Complete(previous.selected)
    BY <1>1, <1>3 DEF Complete
  <2> QED
    BY <1>1, <1>3, <2>1 DEF ResolverInv, PreviousInv
<1> QED
  BY <1>1, <1>4, <1>7, <1>8 DEF ResolverInv

(* The resolver's invariant holds before the first dimension.              *)
LEMMA ResolverInit == Init => ResolverInv
<1> SUFFICES ASSUME Init PROVE ResolverInv
  OBVIOUS
<1>1. /\ graph \in Documents /\ at = "first" /\ selected = << >> /\ dim = 1 /\ cand = 1
      /\ admissible = {} /\ previous = None
  BY DEF Init
<1>2. Len(selected) = 0
  BY <1>1
<1>3. AskedInv
  BY <1>1 DEF AskedInv
<1>4. LoopInv
  BY <1>1, <1>2 DEF LoopInv, Unresolved
<1>5. PreviousInv
  BY <1>1 DEF PreviousInv, Results
<1> QED
  BY <1>1, <1>3, <1>4, <1>5 DEF ResolverInv, Places

(* And every step keeps it.                                                *)
LEMMA ResolverKept == Basics /\ ResolverInv /\ [Next]_vars => ResolverInv'
<1> SUFFICES ASSUME Basics, ResolverInv, [Next]_vars PROVE ResolverInv'
  OBVIOUS
<1>1. CASE Compute
  <2>1. asserted' = asserted
    BY <1>1 DEF Compute, EngineStep, Match, Derive, NextRule, EndPass
  <2> QED
    BY <1>1, <2>1, ComputeStep DEF Compute
<1>2. CASE Decision
  BY <1>2, OpeningStep, RefuseStep, CandidateStep, DecideStep, RecheckStep, ConcludeStep
  DEF Decision
<1>3. CASE UNCHANGED vars
  BY <1>3, ComputeStep DEF vars, engine, Deciding
<1> QED
  BY <1>1, <1>2, <1>3 DEF Next, Step, Stop

-----------------------------------------------------------------------------
(* At every moment of two compilations of a document, by any rules and     *)
(* pools that are like the built-in ones, each choice so far is the best   *)
(* admissible one by a database of the document, what has been resolved is *)
(* valid, and the second process has chosen what the first one did.        *)
THEOREM ResolverInvariant == Spec => [](Basics /\ ResolverInv)
<1>1. Init => EngineTypeOK /\ Control
  BY InitControl, InitTypes DEF Init
<1>2. EngineTypeOK /\ Control /\ [Next]_vars => EngineTypeOK' /\ Control'
  BY ResolverStep, NextTypes
<1>3. Spec => [](EngineTypeOK /\ Control)
  BY <1>1, <1>2, PTL DEF Spec
<1>4. Spec => []ClosureIsLeast
  BY ResolverRunsEngine, Least, PTL
<1>5. Spec => []Basics
  BY <1>3, <1>4, ResolverClosures, PTL DEF Basics
<1> QED
  BY <1>5, ResolverInit, ResolverKept, PTL DEF Spec

(* The collapse is deterministic: whichever of the document's databases    *)
(* build_latent_candidates reads, two processes end in the same way with   *)
(* the same candidates.                                                    *)
THEOREM OneCollapse == Spec => []SameCollapse
<1>1. Basics /\ ResolverInv => SameCollapse
  BY DEF ResolverInv, PreviousInv, SameCollapse
<1> QED
  BY <1>1, ResolverInvariant, PTL

(* Candidates that were admitted one by one are valid together; and a      *)
(* document is refused before anything is resolved, or not at all.         *)
THEOREM ValidResolution == Spec => []ResolvedFactsAreValid
<1>1. ASSUME Basics, ResolverInv PROVE ResolvedFactsAreValid
  <2>1. at \notin {"late_schema_missing", "unresolved"}
    BY <1>1 DEF ResolverInv, PreviousInv, Results
  <2> QED
    BY <1>1, <2>1, ResolvedIsWhole DEF ResolvedFactsAreValid
<1> QED
  BY <1>1, ResolverInvariant, PTL
=============================================================================
