CONSTANTS
  F32 <- MC32
  F64 <- MC64
  F128 <- MC128
  W = 4
  LongBits = 8
SPECIFICATION Spec
INVARIANTS ArithmeticRounds DifferencesClose OrdersValues ConversionsExact MultiWordExact
