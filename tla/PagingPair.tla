------------------------------- MODULE PagingPair -------------------------------
(* Two runs of run_paging on one reference string, the second with one frame more,*)
(* to compare the two (the runs share nothing but their input).                   *)
EXTENDS Paging

VARIABLES more_frames, more_loaded_at, more_last_used_at, more_step, more_faults

more_vars == <<more_frames, more_loaded_at, more_last_used_at, more_step, more_faults>>

Large == INSTANCE Paging
         WITH MaxFrames <- MaxFrames + 1, frame_count <- frame_count + 1,
              frames <- more_frames, loaded_at <- more_loaded_at,
              last_used_at <- more_last_used_at, step <- more_step, faults <- more_faults

PairInit == Init /\ Large!Init

PairNext == \/ \E page \in Pages : Reference(page) /\ Large!Reference(page)
            \/ End /\ UNCHANGED more_vars

PairSpec == PairInit /\ [][PairNext]_<<vars, more_vars>>
--------------------------------------------------------------------------------
(* LRU never gains a fault from an additional frame: what fits in n frames is in    *)
(* the n + 1 frames too (run_paging with --algorithm lru; FIFO has no such bound). *)
Inclusion ==
    algorithm = "lru" =>
        /\ {frames[f] : f \in Loaded} \subseteq {more_frames[f] : f \in Large!Loaded}
        /\ more_faults <= faults
================================================================================
