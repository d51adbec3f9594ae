CONSTANTS
  c1 = c1
  c2 = c2
  n1 = n1
  n2 = n2
  n3 = n3
  RefOf <- MCRefOf
  Listing <- MCListing
  CoreTokens = {c1, c2}
  NextTokens = {n1, n2, n3}
  m1 = m1
  m2 = m2
  native = native
  stable = stable
  Messengers = {m1, m2}
  Methods = {native, stable}
  CoreQuotes <- MCCoreQuotes
  NextQuotes <- MCNextQuotes
  NoToken = notoken
  None = none
  Amounts = {a1}
  BadAmount = bad
  MaxToggles = 2
  MaxQuotes = 2
  MaxEdits = 1
SPECIFICATION SendSpec
CHECK_DEADLOCK FALSE
INVARIANT SentTokensAreHeld
