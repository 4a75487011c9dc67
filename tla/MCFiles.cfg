CONSTANTS
 SectorSize = 8
 SectorsPerCluster = 2
 ClusterBeginLba = 10
 Cluster = {2, 3, 4, 5, 6, 7}
 EOC = 9
 Paths <- PathsTried
 Disks <- Layouts
 Root = 2
 Procs = {0, 1}
 Home <- HomeOf
 NameLen = 2
 ExtLen = 1
 Files <- AllFiles
 Lengths = {0, 4, 20}
 Offsets <- SeekOffsets
 Mod = 256
 EhdrSize = 3
 PhdrSize = 2
 Garbage <- Noise
 StackAlign = 4
SPECIFICATION FilesSpec
INVARIANTS OpenFindsEntry ParentIsDirectory NotFoundIsTrue ReadExact  SeekLands FailedSeekKeepsPlace SegmentsExact HeadersInOrder PcbRegionsLive
PROPERTIES OpenCompletes CallsComplete LoadEnds
CHECK_DEADLOCK FALSE
