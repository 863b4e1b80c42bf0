----------------------------- MODULE MCJrpcConn -----------------------------
(* The calls are model values given in the configurations.                  *)
EXTENDS JrpcConn

=============================================================================
