SPECIFICATION Spec
CONSTANTS
  NoKey = NoKey
  EmptyKey = EmptyKey
  NoName = NoName
  None = None
  source = source
  exe = exe
  other = other
  short = short
  long = long
  wrong = wrong
  word = word
  Sources = {source}
  Foreign <- MCForeign
  Others = {other}
  DefaultName <- MCDefaultName
  Texts = {short, long, wrong}
  LegalTexts = {short, long}
  CodeOf <- MCCodeOf
  Keys <- MCKeys
  Salts = {2, 5}
  KeyOf <- MCKeyOf
  KeyStream <- MCKeyStream
  Mac <- MCMac
  Magic <- MCMagic
  Marker = 9
  MaxCode = 3
INVARIANTS
  OpensAsMade
