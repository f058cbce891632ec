----------------------------- MODULE MCWorkload -----------------------------
(***************************************************************************)
(* Pages of eight bytes.  Some sections fill their pages, some leave a     *)
(* rest at the end of every page, some end in the middle of one; vectors   *)
(* and lists of neighbours take more than one page.                        *)
(***************************************************************************)
EXTENDS Workload

MCSizeOf ==
  [s \in Names |-> CASE s \in {"codebook", "mean", "query", "longbook"} -> 1
                     [] s = "L1" -> 2
                     [] OTHER -> 3]

MCCountOf ==
  [s \in Names |-> CASE s \in {"codebook", "longbook"} -> 16
                     [] s = "mean" -> 3
                     [] s = "query" -> 12
                     [] OTHER -> 5]

MCPageStart ==
  [codebook |-> 30, mean |-> 28, fullvec |-> 27, neighbor |-> 24, L1 |-> 21,
   query |-> 19, longbook |-> 17, groundtruth |-> 15]

\* The layout assumed is that of config.h's data set.
SIFT ==
  INSTANCE Workload WITH
    PAGE_SIZE <- 2048, PAGES_PER_BLOCK <- 64, BLOCKS_PER_PLANE <- 1024,
    FLASH_DATA_START_PAGE <- 65534, ClearedBlocks <- 450,
    SizeOf <- [codebook |-> 2, mean |-> 2, fullvec |-> 136, neighbor |-> 136,
               L1 |-> 64, query |-> 2, longbook |-> 2, groundtruth |-> 40],
    CountOf <- [codebook |-> 16384, mean |-> 64, fullvec |-> 200000,
                neighbor |-> 200000, L1 |-> 200000, query |-> 640000,
                longbook |-> 16384, groundtruth |-> 10000],
    PageStart <- [codebook |-> 65534, mean |-> 65518, fullvec |-> 65517,
                  neighbor |-> 52183, L1 |-> 38849, query |-> 32599,
                  longbook |-> 31974, groundtruth |-> 31958]
ASSUME SiftLayout == SIFT!Layout
=============================================================================
