CONSTANTS
  Lines <- MCLines
  Prompts <- MCPrompts
  Drafted <- MCDrafted
SPECIFICATION Spec
INVARIANTS
  OfflineConforms
  OnlyIntegrityStopsCompiler
  StatusTellsBlocking
  LateRefusals
  AcceptedKeepsCanon
  StatedReachesApp
  ImportsResolve
