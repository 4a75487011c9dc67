CONSTANTS
 SectorSize = 4
 SectorsPerCluster = 2
 ClusterBeginLba = 10
 Cluster = {3, 4, 5}
 EOC = 9
 Files <- OpenFiles
 Lengths = {0, 1, 4, 11}
 Offsets <- SeekOffsets
 Mod = 256
SPECIFICATION FileSpec
INVARIANTS RightCluster
CHECK_DEADLOCK FALSE
