SPECIFICATION Spec
CONSTANTS
  Calls = {transfer, task, pending}
  Transfers = {transfer}
  Background = {task, pending}
  Pending = {pending}
  Blocking = {transfer}
  Silent = {}
  NoCall = NoCall
  Quiescible = TRUE
  MaxDials = 2
  MaxFlips = 1
INVARIANTS TasksAreInHand
PROPERTIES CallsAnswered ImplementsGate
