SPECIFICATION Spec
CONSTANTS
  Inputs <- MCInputs
  Answers <- MCAnswers
  Codes <- MCCodes
  Numbers <- MCNumbers
  ByteOf <- MCByteOf
  UrlParts <- MCUrlParts
  MaxHops = 1
INVARIANTS
  TypeOK
  UrlAsComposed
  MessageUnderstood
  CredentialsDecode
  FieldsAsSent
  HeaderWhenComplete
  TerminatedByMalformed
PROPERTIES
  CredentialsKept
CHECK_DEADLOCK FALSE
