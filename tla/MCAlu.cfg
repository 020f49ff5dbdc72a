SPECIFICATION Spec
CONSTANTS
  BYTE = 4
INVARIANTS DivisionExact ProductHalves BitsMoveTo CountsAgree OrdersAgree
CHECK_DEADLOCK FALSE
