------------------------------ MODULE TraceLog ------------------------------
(***************************************************************************)
(* The trace file of a run (auto_research/trace.py): what TraceRecorder    *)
(* writes line by line, what load_trace accepts, and how                   *)
(* determinism_census and compare_traces read several traces.              *)
(*                                                                         *)
(* A trace is the sequence of its lines; times and the kind of a span are  *)
(* left out (the offline build only records memory_op spans, which count   *)
(* as effectful).  Inputs and outputs stand for their SHA-256.             *)
(***************************************************************************)
EXTENDS Naturals, FiniteSets, Sequences

Header(id, input) == [t |-> "header", trace |-> id, input |-> input]

Span(id, number, name, input, output, failed) ==
  [t |-> "span", trace |-> id, span |-> number, parent |-> 0, name |-> name,
   input |-> input, output |-> output, failed |-> failed]

TaskOutput(id, status) == [t |-> "task_output", trace |-> id, status |-> status]

(* What a process that is killed leaves of the line it was writing.        *)
TornLine == [t |-> "torn"]

LinesOf(trace, type) == {i \in DOMAIN trace : trace[i].t = type}
Whole(trace) == trace # <<>> /\ LinesOf(trace, "torn") = {}
HasOutput(trace) == LinesOf(trace, "task_output") # {}

(* load_trace: a header, then spans and at most one task output of the same*)
(* trace; span numbers are unique and a parent stands before its children. *)
Loads(trace) ==
  /\ trace # <<>>
  /\ trace[1].t = "header"
  /\ \A i \in 2..Len(trace) :
       /\ trace[i].t \in {"span", "task_output"}
       /\ trace[i].trace = trace[1].trace
  /\ \A i, j \in LinesOf(trace, "span") :
       i # j => trace[i].span # trace[j].span
  /\ \A i \in LinesOf(trace, "span") :
       trace[i].parent # 0 =>
         \E j \in LinesOf(trace, "span") : j < i /\ trace[j].span = trace[i].parent
  /\ Cardinality(LinesOf(trace, "task_output")) <= 1

(* The spans of a loaded trace, sorted by their numbers.                   *)
Place(trace, i) ==
  Cardinality({j \in LinesOf(trace, "span") : trace[j].span <= trace[i].span})

SpansOf(trace) ==
  LET lines == LinesOf(trace, "span")
  IN  [n \in 1..Cardinality(lines) |->
         trace[CHOOSE i \in lines : Place(trace, i) = n]]

(* The name and the input of a span, and what came of it.                  *)
Signature(span) == <<span.name, span.input>>
Outcome(span) == <<span.failed, span.output>>

(* determinism_census: the class of a signature, over all its spans.       *)
SpanSet(traces) ==
  UNION {{<<t, i>> : i \in LinesOf(t, "span")} : t \in traces}

Observations(traces, signature) ==
  {o \in SpanSet(traces) : Signature(o[1][o[2]]) = signature}

ClassOf(traces, signature) ==
  LET seen == Observations(traces, signature)
      spans == {o[1][o[2]] : o \in seen}
  IN  IF Cardinality(seen) < 2 THEN "UNWITNESSED"
      ELSE IF /\ \A s \in spans : ~s.failed
              /\ Cardinality({s.output : s \in spans}) = 1
             THEN "WITNESSED_DETERMINISTIC"
             ELSE "WITNESSED_DIVERGENT"

Census(traces) ==
  [s \in {Signature(o[1][o[2]]) : o \in SpanSet(traces)} |-> ClassOf(traces, s)]

Divergent(traces) ==
  \E s \in DOMAIN Census(traces) : Census(traces)[s] = "WITNESSED_DIVERGENT"

(* Faulty variant: only the spans both have are compared.                  *)
EquivalentSoFar(baseline, candidate) ==
  LET b == SpansOf(baseline)
      c == SpansOf(candidate)
  IN  \A i \in DOMAIN b \cap DOMAIN c :
        Signature(b[i]) = Signature(c[i]) /\ Outcome(b[i]) = Outcome(c[i])

(* compare_traces: as many spans, and at each place the same call with the *)
(* same outcome.  The task outputs are not compared.                       *)
Equivalent(baseline, candidate) ==
  LET b == SpansOf(baseline)
      c == SpansOf(candidate)
  IN  /\ Len(b) = Len(c)
      /\ \A i \in DOMAIN b :
           Signature(b[i]) = Signature(c[i]) /\ Outcome(b[i]) = Outcome(c[i])
=============================================================================
