SPECIFICATION Spec
CONSTANTS
  i1 = i1
  i2 = i2
  i3 = i3
  i4 = i4
  Writer = {w1, w2}
  Text = {t1, t2}
  NoText = NoText
  Inode = {i1, i2, i3, i4}
  NoInode = NoInode
  Partial = Partial
  Exclusive = FALSE
SYMMETRY InodeSymmetry
INVARIANTS
  ReadersSeeWholeText
