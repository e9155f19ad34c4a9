SPECIFICATION Spec
CONSTANTS
    clean = clean
    crossing = crossing
    Buffers = {clean, crossing}
    Flaws <- MCFlaws
    TxPool = 1
    RxPool = 1
    Starts = 2
    MaxRefused = 1
    m1 = m1
    m2 = m2
    f1 = f1
    f2 = f2
    MapIds = {m1, m2}
    Frames = {f1, f2}
    None = None
SYMMETRY Alike
INVARIANTS ResourceInv DeviceSeesFrame
PROPERTIES ReceivedOnUnmap
