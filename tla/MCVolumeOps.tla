---------------------------- MODULE MCVolumeOps ----------------------------
(* Model values and bounds for checking VolumeOps with TLC.                *)
EXTENDS VolumeOps

CONSTANTS t1, t2, m, x

MCThreads == {t1, t2}
MCBricks == {m, x}

\* the reconfiguring opcodes: add, remove, scale and the balance that
\* resumes them
MCReconf == {"ADD", "REMOVE", "SCALE", "BALANCE"}

\* the other opcodes, directory and file ones
MCOther == {"PRINT_VOLUME", "PRINT_BRICK", "RESIZE", "ADD_PROXY", "BALANCE",
            "MIGRATE", "SET_IMMOBILE", "CLR_IMMOBILE"}

\* the calls of the reconfiguring operations that can fail without
\* breaking the flag protocol
MCFaults == {"plug", "commit"}

\* adding and removing a brick, with the balance that resumes them
MCAddRemove == {"ADD", "REMOVE", "BALANCE"}

\* a failing capture of the meta super-block during reconfiguration
MCCaptureFaults == {"plug", "capture"}

\* the failures at the entry of reiser4_ioctl_volume
MCEntryFaults == {"eperm", "memdup"}

MCPrint == {"PRINT_VOLUME"}

\* a directory and a file opcode, each issued on either kind of file
MCMisdirected == {"PRINT_VOLUME", "MIGRATE"}

\* the failures of the other operations
MCOtherFaults == {"activate", "plug", "capture", "nospc", "sync"}

=============================================================================
