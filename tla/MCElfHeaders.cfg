CONSTANTS
 SectorSize = 8
 SectorsPerCluster = 2
 ClusterBeginLba = 10
 Cluster = {3, 4, 5}
 EOC = 9
 Files <- Linked
 Lengths = {}
 Offsets = {}
 Mod = 256
 EhdrSize = 3
 PhdrSize = 2
 Garbage <- Noise
 StackAlign = 4
SPECIFICATION ElfSpec
INVARIANTS CurrentSegCounts
CHECK_DEADLOCK FALSE
