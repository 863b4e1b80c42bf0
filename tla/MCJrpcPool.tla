----------------------------- MODULE MCJrpcPool -----------------------------
(* The names of the addresses are model values given in pool.cfg.           *)
EXTENDS JrpcPool

=============================================================================
