---------------------------- MODULE UplinkFrames ----------------------------
(***************************************************************************)
(* The frame buffers of the camera's uplink (mds_img_manager.c): a queue   *)
(* of free ones, a queue of encoded ones that wait to be sent, and the     *)
(* counter by which the drop policy tells how many are free.  A queue      *)
(* operation is one step and the update of the counter that belongs to it  *)
(* the next one of the same thread.                                        *)
(***************************************************************************)
EXTENDS Naturals, Sequences, FiniteSets, SequencesExt

CONSTANTS
    Frames,    \* the MAX_QUE_LEN buffers
    NoFrame    \* a NULL frame pointer

ASSUME FramesAssumption == IsFiniteSet(Frames) /\ NoFrame \notin Frames

VARIABLES
    input,    \* input_enable; output_enable is set with it and never cleared
    free,     \* free_queue
    ready,    \* ready_queue
    count     \* h264_available_buffer_count

frameVars == <<input, free, ready, count>>

Size == Cardinality(Frames)

FramesTypeOK ==
    /\ input \in BOOLEAN
    /\ free \in Seq(Frames) /\ Len(free) <= Size
    /\ ready \in Seq(Frames) /\ Len(ready) <= Size
    /\ count \in 0 .. Size

\* bk_encoded_data_manager_init of the first camera has made the queues and
\* filled the free one.
FramesInit ==
    /\ input = TRUE
    /\ free = SetToSeq(Frames) /\ ready = <<>> /\ count = Size

\* Later calls only set the flags.
ManagerInit == input' = TRUE /\ UNCHANGED <<free, ready, count>>

\* bk_encoded_data_manager_deinit(1), the only call there is: as the output
\* stays enabled, the queues are left as they are, frames not sent included.
ManagerDeinit == input' = FALSE /\ UNCHANGED <<free, ready, count>>

\* bk_encoded_data_request and the decrement that follows.
PopFree == /\ free # <<>>
           /\ free' = Tail(free)
           /\ UNCHANGED <<input, ready, count>>

CountDown == /\ count' = IF count > 0 THEN count - 1 ELSE 0
             /\ UNCHANGED <<input, free, ready>>

\* bk_encoded_data_free_request and its twin bk_encoded_complete_data_free_
\* request, and the increment that follows; mutants: the frame is forgotten,
\* the counter is not updated.
PushFreeNothing(f) == UNCHANGED frameVars
PushFree(f) == /\ free' = Append(free, f)
               /\ UNCHANGED <<input, ready, count>>

CountUpNothing == UNCHANGED frameVars
CountUp == /\ count' = IF count < Size THEN count + 1 ELSE count
           /\ UNCHANGED <<input, free, ready>>

\* bk_encoded_data_complete_request of a frame that is kept, and
\* bk_encoded_complete_data_request.  With Size places neither queue fills up.
PushReady(f) == ready' = Append(ready, f) /\ UNCHANGED <<input, free, count>>

PopReady == /\ ready # <<>>
            /\ ready' = Tail(ready)
            /\ UNCHANGED <<input, free, count>>

=============================================================================
