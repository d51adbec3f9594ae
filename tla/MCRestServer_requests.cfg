SPECIFICATION Spec
CONSTANTS
  Amounts = {2}
  Fees = {1, 2}
  MaxMessengers = 2
  Readers = {r1, r2, r3}
  MaxVersion = 3
  Tokens <- MCTokens
  EvmChains <- MCEvmChains
  FirstLists <- MCFirstLists
  MaxRelistings = 2
INVARIANT TokenNotMissed
INVARIANT QuoteIsOneAmount
PROPERTY KeptMapsSettle
