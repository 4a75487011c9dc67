-------------------------------- MODULE Fat --------------------------------
(* The FAT32 volume as kernel/fs sees it: sectors in clusters, clusters in   *)
(* chains.  A byte of the card is named by its position on the card.         *)
EXTENDS Integers, Sequences

CONSTANTS SectorSize,          \* bytes per sector (512)
          SectorsPerCluster,   \* fs_running_info.SECTORS_PER_CLUSTER
          ClusterBeginLba,     \* fs_running_info.CLUSTER_BEGIN_LBA
          Cluster,             \* the cluster numbers in use
          EOC                  \* an entry that ends a chain (>= 0x0FFFFFF8)

ASSUME FatAssumption ==
  /\ SectorSize \in Nat \ {0} /\ SectorsPerCluster \in Nat \ {0}
  /\ ClusterBeginLba \in Nat /\ Cluster \subseteq Nat \ {0, 1}
  /\ EOC \in Nat /\ \A c \in Cluster : c < EOC

ClusterSize == SectorSize * SectorsPerCluster

VARIABLES fat,      \* cluster -> next cluster of the chain, EOC or 0
          helpers   \* "contract" or "asWritten", see GetNextCluster

(* cluster_to_lba.                                                          *)
ClusterToLba(c) == ClusterBeginLba + (c - 2) * SectorsPerCluster

(* get_next_cluster, with fat_calcualte_lba in front of it, as their        *)
(* callers use them: the FAT entry of c.  As they are written the first     *)
(* starts a transfer behind the scheduler's back and the second reloads its *)
(* return address from the word that holds c, so it never returns ("lost"). *)
ReturnsFromFat == helpers = "contract"
GetNextCluster(c) == fat[c]
EndOfChain(next) == next >= EOC \/ next = 0

FatInit == helpers \in {"contract", "asWritten"}
=============================================================================
