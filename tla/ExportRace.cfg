SPECIFICATION ExportSpec
CONSTANTS
  t1 = t1
  t2 = t2
  h1 = h1
  h2 = h2
  h3 = h3
  f1 = f1
  f2 = f2
  c1 = c1
  c2 = c2
  leaf = leaf
  call1 = call1
  id1 = id1
  id2 = id2
  id3 = id3
  x1 = x1
  Tag = {t1, t2}
  FullHash = {h1, h2, h3}
  FmtHash = {f1, f2}
  NoFormat = NoFormat
  Content = {c1, c2}
  Bytecode = {leaf, call1}
  Callee <- MCCallee
  BuildId = {id1, id2, id3}
  Proc = {p1, p2}
  Db = {d1}
  Image <- MCImage
  Path = {x1}
  ExportOf <- MCExportOf
SYMMETRY ProcSymmetry
INVARIANTS IngestsExport
