------------------------------- MODULE MCICache -------------------------------
(***************************************************************************)
(* The associativities and policies cl_platform_defs.h offers, with lines  *)
(* of two words.  Tags read before they are written are 0, as in fresh     *)
(* memory; the fully associative cache with random replacement needs tags  *)
(* no address has (README, 4).                                             *)
(***************************************************************************)
EXTENDS ICache

Cfg(a, n, r, t) == [assoc |-> a, records |-> n, repl |-> r, tag |-> t]
MCConfigs == {Cfg(0, 2, LRU, 0), Cfg(1, 3, LRU, 0), Cfg(1, 3, FIFO, 0),
              Cfg(2, 4, LRU, 0), Cfg(2, 4, FIFO, 0), Cfg(2, 4, RANDOM, 0),
              Cfg(1, 3, RANDOM, 9)}
MCFetches == {[line |-> l, off |-> (l \div 2) % 2] : l \in {0, 1, 2, 4}}
=============================================================================
