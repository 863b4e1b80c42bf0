---------------------------- MODULE MCJrpcServe ----------------------------
(* The ids and the notice are model values given in serve.cfg.              *)
EXTENDS JrpcServe

=============================================================================
