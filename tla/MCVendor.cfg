SPECIFICATION FairSpec
CONSTANTS
  u1 = u1
  u2 = u2
  whole = whole
  sub = sub
  top = top
  x = x
  y = y
  Urls = {u1, u2}
  MaxRev = 2
  Subdirs = {whole, sub}
  Paths = {top, x, y}
  Root = top
  Patches = {1, 2}
  Descs <- MCDescs
  None = None
  Broken = Broken
  Partial = Partial
  MaxTrouble = 4
PROPERTIES SuccessMeansPinned LockComesLast CommitsItsOwn Recovers
