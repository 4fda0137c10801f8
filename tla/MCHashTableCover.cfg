SPECIFICATION Spec
CONSTANTS
  a = a
  b = b
  d = d
  Key = {a, b, d}
  Value = {v, w}
  NoValue = NoValue
  DefaultKey = d
  DefaultValue = v
  Hash <- HashDef
  Sizes = {1, 2, 4}
  Buckets = {1, 4}
  MinUsed <- MinUsedDef
  MaxUsed = 4
PROPERTY
  ExistingKeyRefused
