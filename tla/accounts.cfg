SPECIFICATION Spec
CONSTANTS
  None = None
  Emails = {e1}
  Callers = {c1, c2}
  ApiKeys = {k1}
  DbMayFail = TRUE
  KcMayFail = TRUE
  MayCrash = TRUE
  MaxPasswords = 3
  MaxTokens = 2
INVARIANTS
  VerifiedIsVouched
  
  StrandedOnlyByFailure
  ResetLinkOnce
  PasswordsNeverReturn
  RevokedKeyRefused
