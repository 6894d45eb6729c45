CONSTANTS
  inbox = inbox
  lead = lead
  worker = worker
  Thread = {inbox, lead, worker}
  Opener <- MCOpener
  Home = inbox
  MaxLetters = 2
  Events = 3
SPECIFICATION Spec
PROPERTIES PassiveWakesNobody
CHECK_DEADLOCK FALSE
