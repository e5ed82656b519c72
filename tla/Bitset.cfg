SPECIFICATION BitsetSpec
CONSTANTS ChunkSize = 16
          WordBits = 2
INVARIANTS BitsetTypeOK
PROPERTY ImplementsAllocator
