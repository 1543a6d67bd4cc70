----------------------------- MODULE MCStreaming -----------------------------
(***************************************************************************)
(* Model checking of what takes in a stream: the ingest queue of lines     *)
(* (application/pipeline.py) and the live detector of entries              *)
(* (application/live.py).  Nothing in the program connects the two yet,    *)
(* and they do not share state: a behaviour exercises one of them, and the *)
(* other stays where it starts.                                            *)
(***************************************************************************)
EXTENDS SheddingQueue, LiveDetector

VARIABLE part  \* the part exercised: queue or detector

streamVars == <<part, vars, detectorVars>>

\* Beside the detector the queue is any one that there is.
MCInit ==
    /\ part \in {"queue", "detector"} /\ Init /\ DetectorInit
    /\ part = "detector" => <<policy, patient>> = CHOOSE c \in Policies \X Manners : TRUE

MCNext ==
    \/ part = "queue" /\ Next /\ UNCHANGED <<part, detectorVars>>
    \/ part = "detector" /\ DetectorNext /\ UNCHANGED <<part, vars>>

\* FairSpec of the queue, in the behaviours that exercise it.
MCSpec ==
    /\ MCInit /\ [][MCNext]_streamVars
    /\ \A t \in Threads :
          /\ WF_streamVars(part = "queue" /\ Resumes(t) /\ UNCHANGED <<part, detectorVars>>)
          /\ WF_streamVars(part = "queue" /\ Expire(t) /\ UNCHANGED <<part, detectorVars>>)
    /\ \A c \in Consumers :
          WF_streamVars(/\ part = "queue" /\ UNCHANGED <<part, detectorVars>>
                        /\ \E withTimeout \in GetTimeouts : Get(c, withTimeout))
==============================================================================
