CONSTANTS
  NumAxes = 2
  Mapped = {1}
  MaxSetpoints = 3
  Kinds = {"all", "single"}
SPECIFICATION FairSpec
INVARIANT TypeOK
PROPERTIES PhantomSources SettlesOnLast
