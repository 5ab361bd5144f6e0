SPECIFICATION Spec
CONSTANTS
  Identity = {g1, g2}
  Pubkey = {k1, k2}
  UserId = {u1, u2, u3}
  Handler = {h1, h2}
  NoUser = NoUser
SYMMETRY Symmetry
INVARIANTS
  LinksAreProven
  ToldIsLinked
PROPERTIES
  ImplementsDirectory
