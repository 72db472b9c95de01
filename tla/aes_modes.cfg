SPECIFICATION Spec
CONSTANTS
    BLOCKLEN = 3
    Top = 1
    Xor <- MCXor
    Cipher <- MCCipher
    InvCipher <- MCInvCipher
    IVs <- MCIVs
    Texts <- MCTexts
    MaxPieces = 4
INVARIANTS
    TypeOK
    RoundTrip
    CbcStandard
    KeystreamFresh
