SPECIFICATION FairSpec
CONSTANTS
  Consumers = {c1, c2}
  Producers = {p1, p2}
  Timed = {c2}
  Broadcasters = {p2}
  Rounds = 1
  SeqMod = 4
INVARIANTS ReturnsWithMutex NoLostSignal
PROPERTY EverybodyFinishes
