CONSTANTS
  good = good  long = long  did = did  handle = handle  b1 = b1  b2 = b2
  None = None
  Word = {good, long}
  Uri = {did, handle}
  NormalUri <- ManyForms
  Locale = {en, pt}
  Offers <- TwoWords
  Browser = {b1}
  MaxTags = 1
  MaxWrites = 2
  MaxFaults = 1
SPECIFICATION FairSpec
INVARIANTS OneRecordPerSubject
PROPERTIES Settles
