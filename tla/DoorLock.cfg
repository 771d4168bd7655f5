SPECIFICATION Spec
INVARIANT
  AcceptedOpens
