SPECIFICATION Spec
CONSTANTS
  u1 = u1  u2 = u2  Users = {u1, u2}  NoUser = NoUser
  Char <- MCChar  Lower <- MCLower  Upper <- MCUpper  Digit = {"0"}
  Asks <- MCAsks  Keys <- MCKeys  MaxLength = 3
  Reserved <- MCReserved  Stats <- MCStats  GeneratedIds <- MCGenerated  Domain <- MCDomain
INVARIANT OpenOnUrl
