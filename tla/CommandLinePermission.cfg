CONSTANTS
  Lines <- AllLines
  Script <- AllScripts
  Asked <- AllAsked
SPECIFICATION Spec
INVARIANT WriteOkMeansPermitted
