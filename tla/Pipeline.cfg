SPECIFICATION PipelineSpec
CONSTANTS
  t1 = t1
  t2 = t2
  h1 = h1
  h2 = h2
  h3 = h3
  f1 = f1
  f2 = f2
  c1 = c1
  c2 = c2
  c3 = c3
  leaf = leaf
  id1 = id1
  id2 = id2
  id3 = id3
  Tag = {t1, t2}
  FullHash = {h1, h2, h3}
  FmtHash = {f1, f2}
  NoFormat = NoFormat
  Content = {c1, c2, c3}
  Bytecode = {leaf}
  Callee <- MCCallee
  BuildId = {id1, id2, id3}
  Proc = {p1, p2}
  Db = {d1}
  Image <- MCImage
  NoEvent = NoEvent
SYMMETRY ProcSymmetry
INVARIANTS PipelineTypeOK PassMeansNoConflict CountIsBracketed VerifiedStaysPresent UnverifiedWasMissing RejectionHasItsCause
