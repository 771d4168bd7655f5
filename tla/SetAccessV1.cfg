SPECIFICATION Spec
CONSTANTS
  Size = 3
  k1 = k1
  k2 = k2
  Keys <- MCKeys
  Zero = zero
  Doors = {d}
  Inputs <- MCInputs
SYMMETRY Symmetry
PROPERTY
  SetAccessGrants
