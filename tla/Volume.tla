------------------------------- MODULE Volume -------------------------------
(***************************************************************************)
(* Reading files of a FAT16 volume (FatFile) for any FAT, any files and    *)
(* any sizes of sector, cluster and cache.  A read starts and ends in one  *)
(* cluster: one that crosses the end of a cluster is not read right.       *)
(***************************************************************************)
EXTENDS Integers

CONSTANTS Fat, FatFiles, EntriesPer, SecSize, Spc, CacheSlots, MaxRead, MaxOff

VARIABLES fcache, lru, call, failed

FatFs == INSTANCE FatFile WITH Files <- FatFiles, Crossing <- {FALSE}

\* Clusters are numbered from 2, below the marks for bad clusters and the end.
ASSUME VolumeAssumption ==
  /\ EntriesPer \in Nat \ {0} /\ SecSize \in Nat \ {0}
  /\ Spc \in Nat \ {0} /\ CacheSlots \in Nat \ {0}
  /\ MaxRead \in Nat /\ MaxOff \in Nat
  /\ DOMAIN Fat \subseteq 2 .. FatFs!FAT_BAD - 1
  /\ \A c \in DOMAIN Fat : Fat[c] \in Nat
  /\ FatFiles \subseteq [cluster : Nat, size : Nat]

\* What fat16_read_file() returns is the file, for reads that start and end in
\* one cluster; an error only after the disk failed or on a chain that ends
\* early.  A valid slot of the FAT cache holds the sector it is looked up by,
\* after evictions and failed reads too, and no sector has two slots.
ReadsFile == FatFs!ReadsFile /\ FatFs!CacheTrue

=============================================================================
