SPECIFICATION Spec
CONSTANTS
  u1 = u1
  u2 = u2
  d1 = d1
  d2 = d2
  o1 = o1
  o2 = o2
  None = None
  Up <- UpFrames
  Down <- DownFrames
  Own <- OwnFrames
  MaxChain = 2
  Modulus = 2
SYMMETRY Frames
INVARIANTS
  TypeOK
  SentFramesOnce
  ReceivedFramesOnce
  OwnFramesOnce
  SendsLedger
  ReceivesLedger
PROPERTIES
  LostAdvertisements
