CONSTANTS
  Lines <- MCLines
  Prompts <- MCPrompts
  Drafted <- MCDrafted
SPECIFICATION Spec
INVARIANTS
  GuaranteesAreBuilt
