SPECIFICATION Spec
CONSTANTS
  Tags <- TwoTags
  NoTag = NoTag
  Short = {61, 178}
  Long = {180, 300}
  Cuts = {5, 70, 119}
  Pauses = {0, 255}
  Counter = {0, 65446}
  Starts = {0, 11, 60}
  MaxUpsets = 2
INVARIANTS
  TypeOK
  SecondTelegramIsRead
  InStep
