\* Gets and puts on a dead counter, by several threads at once.
CONSTANTS
  Threads = {t1, t2, t3, t4}
  NoThread = NoThread
  Slots = {s1}
  RefMax = 7
  Saturated = 16
  Modulus = 32
SPECIFICATION MisuseSpec
INVARIANT ReleasedOnce
