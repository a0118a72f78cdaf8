SPECIFICATION PlayitSpec
CONSTANTS
    MaxTunnels = 2
    MaxReboots = 1
PROPERTY SaveKeepsTheSocket
