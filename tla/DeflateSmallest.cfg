SPECIFICATION Spec
CONSTANTS
    MAX_CODE_LEN = 4
    BYTE = 3
    LEN_BITS = 3
    BLOCK_TOKENS = 34
    LENGTH_BASE <- MCLengthBase
    LENGTH_EXTRA <- MCLengthExtra
    DIST_BASE <- MCDistBase
    DIST_EXTRA <- MCDistExtra
    FixedLit <- MCFixedLit
    FixedDist <- MCFixedDist
    HLIT_BITS = 2
    HDIST_BITS = 2
    HCLEN_BITS = 2
    CL_BITS = 2
    CL_ORDER <- MCClOrder
    MIN_HCLEN = 5
    MIN_REPEAT = 3
    REPEAT_BITS = 1
    ZEROS_BITS = 1
    LONG_BITS = 1
    MAGIC = 5
    FRAME_MAGIC = 3
    VERSION = 0
    PACK_MIN_RUN = 3
    RLE_MIN_RUN = 4
    CodecIds <- MCCodecIds
    Framed <- MCFramed
    MaxFramed = 5
    MaxTokens = 3
    crc32 <- MCCrc
    Raw <- MCRaw
    Files <- MCFiles
    Damageable <- MCDamageable
INVARIANT
    SmallestChosen
CHECK_DEADLOCK FALSE
