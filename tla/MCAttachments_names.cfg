\* Up to four files in any order, of two base names.
CONSTANTS
  ax = ax
  bx = bx
  by = by
  x = x
  y = y
  Path <- MCPath
  Name <- MCName
  basename <- MCBasename
  NoFile = NoFile
  Earlier = Earlier
  MaxChosen = 4
SPECIFICATION Spec
INVARIANT FirstChosenSaved
CHECK_DEADLOCK FALSE
