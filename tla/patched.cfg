SPECIFICATION Spec
CONSTANTS
  Refs = {latest, v2}
  Latest = latest
  Shas = {sha1, sha2}
  None = none
  Progressive = TRUE
  Total = 3
  Limit <- PatchLimit
INVARIANT HeldIsUntouched
