SPECIFICATION Spec
CONSTANTS
  Calls = {inline}
  Transfers = {}
  Background = {}
  Pending = {}
  Blocking = {}
  Silent = {}
  NoCall = NoCall
  Quiescible = FALSE
  MaxDials = 3
  MaxFlips = 0
PROPERTY StaleResultsDropped
