SPECIFICATION AccessSpec
CONSTANTS
  Instr <- MCInstr
  Regs <- MCRegs
  CsrStore <- MCCsrStore
  CsrZero <- MCCsrZero
  Windows <- MCWindows
  WordRegs <- MCWordRegs
  ByteRegs <- MCByteRegs
  Saved <- MCSaved
  Junk <- MCJunk
  Contents <- MCContents
  MaxPc = 4
INVARIANT
  DecodedIsMeant
PROPERTY
  ImplementsIsa
CHECK_DEADLOCK FALSE
