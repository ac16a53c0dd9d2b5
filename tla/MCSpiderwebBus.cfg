\* Three messages among three nodes: up to three threads.  A graph that keeps
\* two lessons, of up to two attempts at two intents.
SPECIFICATION KnowledgeSpec
CONSTANTS
  Nodes = {n1, n2, n3}
  MaxEnvelopes = 3
  GraphLimit = 2
  Attempts = 2
SYMMETRY Symmetry
INVARIANTS
  ParentsPrecede
  FabricAgrees
  SharedNodesIntersect
  EvidenceBacksSuccess
PROPERTIES
  KnowledgeIsSound
  BackpressureSticks
CHECK_DEADLOCK FALSE
