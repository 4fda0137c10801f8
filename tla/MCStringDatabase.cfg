SPECIFICATION Spec
CONSTANTS
  t1 = t1
  t2 = t2
  a = a
  b = b
  c = c
  Thread = {t1, t2}
  Slot = {a, b, c}
  Owner <- OwnerDef
  Text = {x, y}
  Empty = Empty
  BlockSize = 2
  MaxForgotten = 1
INVARIANTS
  TypeOK
  EqualNames
  InUseDrift
PROPERTIES
  ViewsStay
