SPECIFICATION Spec
CONSTANTS
    register = register
    wire = wire
    signal = signal
    wide = wide
    array = array
    Objects = {register, wire, signal, wide, array}
    Size <- MCSize
    VHDL = {signal}
    Vectors = {register, wire, signal, wide}
    Wires = {wire}
    Forceable = {register, wire, signal}
    WordBits = 2
    UVM_HDL_MAX_WIDTH = 4
    SliceByName = {"vcs", "vcsmx"}
    Builds = {"verilator", "questa", "xcelium", "vcs", "vcsmx"}
    Paths <- MCPaths
    Values <- MCValues
    Unwritten <- MCUnwritten
    Drives <- MCDrives
INVARIANTS
    ReadExact
    MemorySafe
    HandlesReleased
    ForceHolds
PROPERTIES
    WriteExact
    FrameKept
CHECK_DEADLOCK FALSE
