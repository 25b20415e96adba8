\* All kinds of packets, reads that end anywhere.
CONSTANTS
    HeaderSize = 2
    MaxSize = 3
    MaxRead = 4
    Packet <- SomePackets
    MaxIn = 3
    MaxOut = 1
SPECIFICATION FairSpec
INVARIANTS TypeOK WriteBufferStays
PROPERTIES InboundFIFO OutboundFIFO Served Flushed HangUpNoticed Released
CHECK_DEADLOCK FALSE
