\* Nine pages of two units, of which one is lost; blocks of one to four pages.
\* Pictures that fill part of a row of the memory, or several; a stride that is refused,
\* and strides and heights that some map cannot lay out.
SPECIFICATION Helpers
CONSTANTS
  PageSize = 2
  MaxHeight = 10
  RegionAddr = 3
  RegionSize = 18
  Requests <- AnySize
  Strides = {20, 24, 32, 1040, 2048}
  Heights = {16, 17, 144, 257, 1088}
  Base = 65536
  Frames = 2
  Radix = 8
  Names <- SomeNames
  Films <- SomeFilms
INVARIANTS
  SearchTrees
  TagsTell
  BlocksApart
  StreamTells
PROPERTIES
  IsPageAllocator
CHECK_DEADLOCK FALSE
