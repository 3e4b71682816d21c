\* Two logs, one of which may be replaced, and one crash.
CONSTANTS
  Files = {f, g}
  Lines = {event, junk}
  Events = {event}
  None = None
  MaxLines = 2
  MaxTotal = 2
  Replaced = {f}
  MaxRewrites = 1
  MaxCrashes = 1
SPECIFICATION Spec
INVARIANTS TypeOK NothingSkipped AnsweredBehind PointerOfThisRun
PROPERTIES InOrder Delivered
