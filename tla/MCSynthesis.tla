----------------------------- MODULE MCSynthesis -----------------------------
(***************************************************************************)
(* Lines of a prompt: what the code's word lists find in them.             *)
(***************************************************************************)
EXTENDS Synthesis

Sentence(words) == [section |-> {}, bullet |-> FALSE, name |-> "", says |-> words]
Bullet(heading, name, words) ==
  [section |-> {heading}, bullet |-> TRUE, name |-> name, says |-> words]

MCLines ==
  << Sentence({"inventory", "product", "stock", "manage"}),
     Sentence({"postgres", "po"}),
     Sentence({"in-memory"}),
     Sentence({"no authentication"}),
     Sentence({"jwt"}),
     Sentence({"multi-tenant", "tenant"}),
     Sentence({"leave", "hr", "employee", "approval"}),
     Sentence({"stock", "threshold", "hr"}),
     Sentence({"crud", "update", "delete", "create"}),
     Bullet("roles", "Manager", {"manager", "manage"}),
     Bullet("entities", "Booking", {}),
     Bullet("integrations", "Payments", {"stripe", "payment processing", "payment"}),
     Sentence({"webhook", "notify"}),
     Sentence({"expense", "claim"}),
     Sentence({"ticket", "helpdesk"}),
     Sentence({"audit trail", "audit"}),
     Sentence({"saas"}),
     Bullet("integrations", "Ledger", {}),
     Sentence({"crm", "deal", "lead"}),
     Sentence({"report", "po"}) >>

(* Every pair of lines, and three with the first.                          *)
MCPrompts ==
  {{i, j} : i, j \in DOMAIN MCLines}
  \cup {{1, i, j} : i, j \in DOMAIN MCLines} \cup {{}}
MCDrafted ==
  {p \in MCPrompts : Cardinality(p) = 1 \/ (Cardinality(p) = 2 /\ p \cap {6, 8} # {})}
=============================================================================
