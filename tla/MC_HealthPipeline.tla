------------------------- MODULE MC_HealthPipeline -------------------------
(* Health evaluation on small instances: the readings of a window. *)
EXTENDS HealthPipeline, TLC

Page(points) == <<points>>
Traffic(ok, errors) == Page(<<Point("2xx", ok), Point("5xx", errors)>>)
Latency(us) == Page(<<Point("latency", us)>>)
Read(requests, latency) == [requests |-> requests, latency |-> latency]

\* Good repeats a point on a second page.
Good == Read(Traffic(198, 2) \o Page(<<Point("2xx", 198)>>), Latency(499001))
Bad == Read(Traffic(190, 10), Latency(300000))
Missing == Read(<<>>, <<>>)

RaceReadings == {Good, Bad, Missing}

CallerSymmetry == Permutations(Caller)
=============================================================================
