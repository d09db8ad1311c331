SPECIFICATION MCSpec
CONSTANTS
  Null = Null
  c1 = c1
  c2 = c2
  u1 = u1
  u2 = u2
  lib = lib
  app = app
  h1 = h1
  h2 = h2
  Cohorts = {c1, c2}
  Uploads = {u1, u2}
  Large = {}
  Packages = {lib, app}
  Checkers = {h1}
  Deciders = {h2}
  Authors = {h1}
  Place <- MCPlace
  Recipes <- MCRecipes
  Meta <- MCMeta
  Parent <- MCParent
  MaxRevision = 1
  MaxBuilds = 1
  MaxChanges = 1
CHECK_DEADLOCK FALSE
INVARIANTS
    StagedIsSound
PROPERTIES
    AdvancedOnCurrentEvidence
    ScopeIsAdopted
