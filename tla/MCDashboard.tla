---------------------------- MODULE MCDashboard -----------------------------
(* Values of the constants of Dashboard for TLC: one reader of each kind. *)
EXTENDS Dashboard

\* GetCPU waits once, is shared and fills a panel.  sampleContainers waits three
\* times.  GetCPU with ContainerAware has no panel of its own.
Readers    == {"CPU", "Containers", "cgCPU"}
ReaderNaps == [CPU |-> 1, Containers |-> 3, cgCPU |-> 1]
TwoShared  == {"CPU", "cgCPU"}
OneLimiter == {"cgCPU"}
PanelOrder == [CPU |-> 1, cgCPU |-> 2, Containers |-> 3]
=============================================================================
