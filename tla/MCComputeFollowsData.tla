------------------------ MODULE MCComputeFollowsData ------------------------
\* Two devices; q1 and q2 are the cached queues, q3 a queue the user made.
EXTENDS ComputeFollowsData, TLC

CONSTANTS cpu, gpu, q1, q2, q3

TwoDevices == {cpu, gpu}
ThreeQueues == {q1, q2, q3}
DeviceOfThree == q1 :> cpu @@ q2 :> gpu @@ q3 :> cpu
CachedOfTwo == cpu :> q1 @@ gpu :> q2
SharedAndDevice == {2, 3}
NoDevice == {}
SomeArgs ==
  LET on(queue, usm) == [queue |-> queue, usm |-> usm]
  IN  {<<on(q1, 3), on(q1, 2)>>, <<on(q1, 3), on(q3, 3)>>, <<on(q1, 2), on(q2, 2)>>}
=============================================================================
