SPECIFICATION Spec
CONSTANT MaxTip = 1
INVARIANT SearchIsAuthorized
