------------------------- MODULE MCKernelSupervisor -------------------------
(* Small instances of KernelSupervisor for TLC.                            *)
EXTENDS KernelSupervisor

\* One supervisor object that is started and stopped; lca-ops commands that each run
\* in a CLI process of their own: start, stop, start and start, restart, stop.
ProperUse == { <<"start", "stop">>,
               <<"cli_start", "reopen", "stop", "sweep", "reopen", "cli_start">>,
               <<"cli_start", "reopen", "stop", "start", "reopen", "stop", "sweep">> }

=============================================================================
