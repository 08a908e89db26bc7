-------------------------- MODULE MCGracefulServer -------------------------
(* The addresses for GracefulServer, a sequence a configuration file cannot *)
(* write.                                                                  *)
EXTENDS GracefulServer

MCAddrs == <<"a1", "a2">>

=============================================================================
