SPECIFICATION Spec
CONSTANTS
  fr = fr
  fa = fa
  fp = fp
  fc = fc
  fd = fd
  fe = fe
  Fns <- SixFns
  Keys = {"k", "j"}
  Values = {1, 2}
  Unset = unset
  NoFile = nofile
  NoLayout = nolayout
  Layouts <- TwoLayouts
  RootName = root
  MaxDepth = 5
  Programs <- Sharing
INVARIANTS SharedMeansEqual
