INIT Init
NEXT Next
CONSTANTS
  Base = 128
  WordSize = 3
  LongSize = 2
  LengthSize = 2
  AddressSize = 3
  HashSize = 5
  MaxLoad = 20
  MaxInteger = 200000
  NullAddress <- NullText
  HashBits = 5
  Sha <- ToySha
  MaxNonce = 30
  DefaultPayload <- TsPayload
  Thrown = Thrown
  NotGiven = NotGiven
  KeySize = 6
  SignatureSize = 2
  Ed25519 <- ToyEd25519
  Quote <- ToyQuote
  MaxSafe = 60000
  IsIcon <- ToyIcon
INVARIANTS
  NumbersSound
  StreamsSound
  VMObjectsSound
  ScriptsSound
  TransactionsVerify
  EnvelopesSound
  TokenDataSound
CHECK_DEADLOCK FALSE
