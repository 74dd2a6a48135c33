SPECIFICATION Spec
CONSTANTS
    RTL_RX_RING_SIZE = 32
    RTL_TX_DESCRIPTOR_COUNT = 2
    Lengths = {4, 5}
INVARIANTS
    DmaIsInStep
    ArmedMeansWoken
