SPECIFICATION FairLifeSpec
CONSTANTS
  Secret = {key1, key2}
  Address = {here, there}
INVARIANTS
  LifeTypeOK
  RoutesApart
PROPERTIES
  ServiceComesBack
