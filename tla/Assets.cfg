SPECIFICATION Spec

CONSTANTS
  Requests = {r1, r2}
  Names = {a, b}
  good = good
  bad = bad
  Images <- MCImages
  Proper <- MCProper
  Size <- MCSize
  Quota = 3
  Default = Default
  Templates = {t}
  Partial = Partial
  Nothing = Nothing

SYMMETRY Symmetry

INVARIANTS
  TypeOK
  ServedChecked
  BlocksServed

PROPERTIES
  StoredChecked
  QuotaKept
  OwnContent
