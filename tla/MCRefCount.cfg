\* Three threads with two references each, a counter that overflows beyond three.
CONSTANTS
  Threads = {t1, t2, t3}
  NoThread = NoThread
  Slots = {s1, s2}
  RefMax = 3
  Saturated = 8
  Modulus = 16
SPECIFICATION Spec
SYMMETRY Symmetry
INVARIANTS CountExact PoisonSticks ReleasedUnowned LastPutReleases
