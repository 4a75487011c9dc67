CONSTANTS
 SectorSize = 4
 SectorsPerCluster = 2
 ClusterBeginLba = 10
 Cluster = {2, 3, 4, 5, 6, 7}
 EOC = 9
 Paths <- PathsTried
 Disks <- Layouts
 Root = 2
 Procs = {0, 1}
 Home <- HomeOf
 NameLen = 2
 ExtLen = 1
SPECIFICATION OpenSpec
INVARIANTS OpensNamedFile
CHECK_DEADLOCK FALSE
