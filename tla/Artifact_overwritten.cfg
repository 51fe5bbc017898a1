CONSTANTS
  c1 = c1
  c2 = c2
  e1 = e1
  e2 = e2
  r1 = r1
  r2 = r2
  Caller = {c1, c2}
  Evidence = {e1, e2}
  NoEvidence = NoEvidence
  Ref = {r1, r2}
  NoRef = NoRef
  Stored = {r1}
  Scenes <- MCScenes
  Samples <- MCSamples
  Qualities <- MCQualities
  Streams <- MCStreams
  MaxFaults = 1
SPECIFICATION Spec
INVARIANT ArtifactKept
