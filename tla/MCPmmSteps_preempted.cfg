SPECIFICATION StepsSpec
CONSTANTS
  Caller = {c1, c2}
  Unmasked = {c1, c2}
  WordBits = 3
  total_pages = 7
  reserved_pages = 2
  MaxCount = 3
  Width = 8
INVARIANTS NoSharedPage
