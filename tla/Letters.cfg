CONSTANTS
  inbox = inbox
  lead = lead
  worker = worker
  Thread = {inbox, lead, worker}
  Opener <- MCOpener
  Home = inbox
  MaxLetters = 2
  Events = 3
SPECIFICATION Spec
INVARIANTS NothingDropped OneWordSettles TwoBodies
PROPERTIES DoneForGood ReadsEnough Settled
CHECK_DEADLOCK FALSE
