---------------------- MODULE MCRedisStreamsTransport ----------------------
(***************************************************************************)
(* Small instances of the transport; consumers are interchangeable.        *)
(***************************************************************************)
EXTENDS RedisStreamsTransport, TLC

Symmetry == Permutations(Consumers) \cup Permutations(Messages)
=============================================================================
