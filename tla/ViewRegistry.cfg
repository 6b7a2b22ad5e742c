\* Three concurrent views and copies over two shards: safety and progress
CONSTANTS
  View = {v1, v2, v3}
  SHARDS = 2
  ElemSize <- MCElemSize
  PlainSpan <- MCPlainSpan
  AtomicSpan <- MCAtomicSpan
SPECIFICATION FairSpec
INVARIANTS
  TypeOK
  PlainAtomicExclusion
  NoMixedSize
  CopyRaceFree
  LiveCountExact
  NoLeakedEntry
PROPERTIES
  CallsReturn
