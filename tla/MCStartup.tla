----------------------------- MODULE MCStartup -----------------------------
(* Values for the constants of Startup.                                    *)
EXTENDS Startup

Apart == [d \in Daemons |-> d]          \* a path of its own
=============================================================================
