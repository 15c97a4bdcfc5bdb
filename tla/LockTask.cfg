SPECIFICATION FairSpec
CONSTANTS
  PageSize = 8
  Pages = 2
  Half = {0, 1, Blank}
  Blank = Blank
  Card <- Cards
  Slots = 3
  TableCell = 9
INVARIANTS LockTypeOK FreeSlotsLast FlashTypeOK WriteStoresData OtherCellsKept
PROPERTIES ImplementsCardLock DoorCloses
