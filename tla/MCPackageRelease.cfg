SPECIFICATION ReleaseSpec
CONSTANTS
  lib = lib
  app = app
  Packages = {lib, app}
  Edges <- TwoEdges
  Contracted = {lib}
  Delivers = {app}
  Requires <- CaretOnLib
  FirstVersion <- StartAt01
  FirstProduct <- ProductAt01
  FirstInherited = {app}
  Answers <- CompatibleOrBreaking
  ProductAnswers <- CompatibleOrBreaking
  Authored = {lib, app}
  LockUsers = {lib}
  Unreliable = {lib}
  MaxChanges = 2
  MaxHistory = 4
INVARIANTS
  PublishedOnce
  BreakingIsVisible
  ReleasedIsValidated
  DevelopCloses
CHECK_DEADLOCK FALSE
