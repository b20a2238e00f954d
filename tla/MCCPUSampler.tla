---------------------------- MODULE MCCPUSampler ----------------------------
(* Values of the constants of CPUSampler for TLC. *)
EXTENDS CPUSampler, TLC

\* CPU 0 has idled more and CPU 1 has worked more.
TwoCpus == (0 :> [used |-> 0, idle |-> 3]) @@ (1 :> [used |-> 2, idle |-> 0])

Ask(aware, version, quota, masked) ==
  [aware |-> aware, version |-> version, quota |-> quota, masked |-> masked]

Asked == {Ask(FALSE, "v2", FALSE, TRUE), Ask(FALSE, "v2", FALSE, FALSE),
          Ask(TRUE, "v1", FALSE, FALSE), Ask(TRUE, "v2", TRUE, FALSE),
          Ask(TRUE, "v1", TRUE, FALSE)}

Plain == {Ask(FALSE, "v2", FALSE, FALSE)}
=============================================================================
