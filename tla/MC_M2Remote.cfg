\* One call of DESTROY_many: once it has returned only late deliveries of
\* timed-out requests remain, so the model may stop.
CONSTANTS
  s1 = s1
  s2 = s2
  NoValue = NoValue
  Value = Value
  Beans = {b1, b2}
  FlagBit <- MCFlagBit
  TargetArrays <- MCTargetArrays
  ListReplies <- MCListReplies
SPECIFICATION Spec
INVARIANTS PackedOperationsDistinct DestroySucceedsOnlyIfGone ListResultOfLastPage
CHECK_DEADLOCK FALSE
