SPECIFICATION Spec
CONSTANTS
  s1 = s1
  s2 = s2
  o1 = o1
  o2 = o2
  o3 = o3
  a1 = a1
  stable = stable
  Null = Null
  h1 = h1
  h2 = h2
  edge = edge
  quarantine = quarantine
  Releases = {s1, s2, o1, o2, o3}
  OprReleases = {o1, o2, o3}
  Handlers = {h1, h2}
  Actors = {a1}
  Channels = {edge}
  Stable = stable
  OprChannels = {stable, quarantine}
  Targets = {"x", "a"}
  Native <- MCNative
  Channel <- MCChannel
  Target <- MCTarget
  First <- MCFirst
  FirstTeam = {a0}
  a0 = a0
  Ready = {s2, o3}
  MaxFaults = 1
  MaxRenew = 3
CHECK_DEADLOCK FALSE
SYMMETRY Symmetric
INVARIANTS
    PublishedIsSound
    RepositoriesAreSound
PROPERTIES
    ActivatedInScope
    ImplementsSwitch
