CONSTANTS
  None = None
  w1 = w1
  r1 = r1
  r2 = r2
  p1 = p1
  p2 = p2
  Keys = {"opus", "default"}
  Asked = {"opus", "unknown"}
  Default = "default"
  VllmKeys = {"vllm"}
  Floor <- MCFloor
  Sources <- MCSources
  Versions = {"v1"}
  Documents <- MCDocuments
  Publishers = {p1, p2}
  Workers = {w1}
  Requests = {r1, r2}
  WorkerOf <- MCWorkerOf
  Payloads <- MCPayloads
  Settings <- MCSettings
  MaxOutput = 1
  MTok = 3
  PixelsPerToken = 2
  MaxPublications = 2
SYMMETRY MCSymmetry
SPECIFICATION Spec
INVARIANT FrozenIsStored
PROPERTY BoundCovers
CHECK_DEADLOCK FALSE
