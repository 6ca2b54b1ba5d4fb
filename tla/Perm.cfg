SPECIFICATION Spec
CONSTANTS
  FileModes <- MCFileModes
  HumanTexts <- MCHumanTexts
  OctalTexts <- MCOctalTexts
  Accounts <- MCAccounts
  Capacities <- MCCapacities
  NameBuffer = 5
  SizeLimit = 32
INVARIANTS RoundTrips AcceptsPrintable TypesAgree
