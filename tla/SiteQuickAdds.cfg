CONSTANTS
  good = good  long = long  did = did  handle = handle  b1 = b1  b2 = b2
  None = None
  Word = {good, long}
  Uri = {did}
  NormalUri <- OneForm
  Locale = {en}
  Offers <- ThreeOffers
  Browser = {b1}
  MaxTags = 2
  MaxWrites = 3
  MaxFaults = 0
SPECIFICATION Spec
PROPERTIES QuickAddsKeepWords
