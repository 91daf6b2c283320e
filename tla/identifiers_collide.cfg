SPECIFICATION IdSpec
CONSTANTS
  Word = 2147483647
  Byte = 256
  CharSets = {100}
  Multipliers = {5, 7}
  Lengths = {3}
  Salts = {3}
  DefaultSalt = 123567369
  Numbers = {5728, 85728, 85729}
  MaxCodes = 2
INVARIANT CodesUnique
