SPECIFICATION Spec
CONSTANTS
  v1 = v1
  v2 = v2
  t1 = t1
  s1 = s1
  s2 = s2
  s3 = s3
  Null = Null
  Values = {v1, v2}
  Users = {v1, v2}
  Tags = {t1}
  Slots = {s1, s2, s3}
  MaxIndex = 1
  MaxOps = 2
INVARIANTS
  TypeOK
  ListsExact
  NoDangling
  ReplaceComplete
PROPERTIES
  LoopsEnd
