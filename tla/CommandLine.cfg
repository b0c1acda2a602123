CONSTANTS
  Lines <- AllLines
  Script <- AllScripts
  Asked <- AllAsked
SPECIFICATION Spec
INVARIANTS
  TypeOK
  OwnPage
  OkMeansTransferred
  OnlyAsked
PROPERTY OthersKept
