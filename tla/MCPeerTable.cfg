CONSTANTS
    Addrs = {"a", "b"}
    KeyOf <- KeyOfAddr
    Home <- HomeOfKey
    MaxPeers = 3
    MaxAllocs = 3
SPECIFICATION Spec
INVARIANTS
    OwnedOnce
    EveryPeerIsTried
    DecodedFrameIsAlive
    
