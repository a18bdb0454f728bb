SPECIFICATION Spec
CONSTANTS
  Rows = {r1, r2}
  Values = {x, y}
  Blank = Blank
  Filled = Filled
  Approved = approved
  Rejected = rejected
  Cancelled = cancelled
  Absent = Absent
  New = New
  Omitted = Omitted
  NoForm = NoForm
  Idle = Idle
  Asked = Asked
  Behaviours <- MCBehaviours
  MaxSaves = 2
  FormSaves = 1
  MaxTurns = 2
  FormTurns = 1
  Start <- MCStart
  r1 = r1
  x = x
INVARIANTS TypeOK ListSettlesFresh
PROPERTIES SavesOwnRow UntouchedAsListed FailureTold UntouchedKept StoredAsShown RefusalStands ImplementsFreshList SavedThenShown SavesEnd
