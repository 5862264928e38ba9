\* bmfs.c:659: create() finds an area with enough free blocks.
SPECIFICATION BmfsSpec
CONSTANTS
  f1 = f1
  f2 = f2
  f3 = f3
  x = x
  y = y
  FileName <- MCFileName
  Datum <- MCDatum
  Records = 3
  Wrap = 256
  Kilo = 4
  SizeArgs <- MCSizeArgs
  ShortSizes = {0, 3}
  MaxSizes = {1, 3}
  DiskBound = 6
INVARIANT FilesAreDisjoint
