SPECIFICATION FairSpec
CONSTANTS
  t1 = t1
  t2 = t2
  t3 = t3
  h1 = h1
  h2 = h2
  h3 = h3
  h4 = h4
  f1 = f1
  f2 = f2
  c1 = c1
  c2 = c2
  c3 = c3
  leaf = leaf
  call1 = call1
  call2 = call2
  outer1 = outer1
  outer2 = outer2
  retext = retext
  twin = twin
  id0 = id0
  id1 = id1
  id2 = id2
  id3 = id3
  id4 = id4
  Tag = {t1, t2, t3}
  FullHash = {h1, h2, h3, h4}
  FmtHash = {f1, f2}
  NoFormat = NoFormat
  Content = {c1, c2, c3}
  Bytecode = {leaf, call1, call2}
  Callee <- MCCallee
  BuildId = {id0, id1, id2, id3, id4}
  Proc = {p1, p2}
  Db = {d1}
  Build = {outer1, outer2, retext, twin}
  Emitted <- Emitted_
  BuildIdOf <- BuildIdOf_
  MergeId = id0

INVARIANTS TypeOK KeysStayUnique NothingDangles SuccessIsDurable IInv
PROPERTIES AppendOnly SerialSpec LocksAreReleased
