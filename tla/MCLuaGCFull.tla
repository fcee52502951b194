----------------------------- MODULE MCLuaGCFull ----------------------------
(* Full collections: of heaps that the program built before, with nothing   *)
(* else running (`alone'), and in the middle of everything else, where no   *)
(* table becomes weak.                                                       *)
EXTENDS MCLuaGC

VARIABLE alone
allvars == <<vars, alone>>

FullInit ==
    \/ alone = TRUE /\ (HeapInit \/ ChainInit)
    \/ alone = FALSE /\ Init
FullNext ==
    /\ UNCHANGED alone
    /\ IF alone THEN full # "no" /\ (Collector \/ FinalizerReturns)
       ELSE Next /\ UNCHANGED mode
FullFairness == WF_allvars(full # "no" /\ Collector /\ UNCHANGED alone)
                /\ WF_allvars(FinalizerReturns /\ UNCHANGED alone)
FullSpec == FullInit /\ [][FullNext]_allvars /\ FullFairness

=============================================================================
