-------------------------- MODULE MCSessionControl --------------------------
(* Values for the constants of SessionControl, one set of them per run. *)
EXTENDS SessionControl, TLC

CONSTANTS s1, s2, s3, u1, r1, r2, none, unlimited

\* One user owns everything: sessions of different users share nothing but capacity.
OneOwner == [s \in Sessions |-> u1]
OneGpu == [s \in Sessions |-> 1]
NoGpu == [s \in Sessions |-> 0]
TwoGpus == [s \in Sessions |-> 2]
WithSsh == [s \in Sessions |-> TRUE]

Unlimited == [u \in Users |-> unlimited]
\* Room for one session of two GPUs, with a rest that is no room for another.
QuotaOfThree == [u \in Users |-> 3]

\* One way to end for each verdict; a forgotten job is a failure too.
OneOfEach == {<<"JobCompleted", "zero">>, <<"JobFailed", "other">>, <<"JobCancelled", "signal">>}
CompletedOrKilled == {<<"JobCompleted", "zero">>, <<"JobFailed", "signal">>}
Normal == {<<"JobCompleted", "zero">>}

\* The operator writes the names of the session states.
Words4Crd ==
    [js \in JobStates |->
       CASE js \in {"JobPending", "JobSuspended"} -> "pending"
         [] js = "JobRunning" -> "running"
         [] js = "JobCompleting" -> "stopping"
         [] js = "JobCompleted" -> "completed"
         [] js = "JobCancelled" -> "cancelled"
         [] OTHER -> "failed"]

Active == ActiveStates
AnyState == SessionStates
SessionSymmetry == Permutations(Sessions)
ReplicaSymmetry == Permutations(Replicas)
=============================================================================
