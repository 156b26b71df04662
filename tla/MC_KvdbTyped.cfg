CONSTANTS
  nil = nil
  NoValue = nil
  PropValueMax <- MCPropValueMax
  Buffers <- MCBuffers
  Texts <- MCAllTexts
  Sizes <- MCSizes
  Defaults <- MCDefaults
  Int32Bits = 8
  LongBits = 8
  Int64Bits = 16
  Int32s <- MCInt32s
  Int64s <- MCInt64s
  IntDefaults <- MCIntDefaults
INIT Init
NEXT Next
INVARIANT TypedRoundTrip CodecMatchesReference IntReadIsExact
