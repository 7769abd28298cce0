SPECIFICATION Spec
CONSTANTS
  m1 = m1
  m2 = m2
  c1 = c1
  Makers = {m1}
  Cleaners = {c1}
  Names <- MCNames
  Order <- MCOrder
  bin_name <- MCbin_name
PROPERTY
  CleanRemovesOnlyLinks
CHECK_DEADLOCK FALSE
