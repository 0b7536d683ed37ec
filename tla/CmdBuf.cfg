SPECIFICATION FairSpec
CONSTANTS
    count = 4
    Data = {zero, d1}
    Zero = zero
    MaxBatch = 2
    MaxWritten = 6
INVARIANTS TypeOK FifoDelivery NoOverwrite RingInv
PROPERTIES RefinesFifo ProduceReturns EventuallyReceived
CHECK_DEADLOCK FALSE
