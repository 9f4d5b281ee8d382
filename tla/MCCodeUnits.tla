---------------------------- MODULE MCCodeUnits ----------------------------
(***************************************************************************)
(* Every configuration of the backend that makes a difference: a report or *)
(* a setup command is nothing without tests, or without a container.       *)
(***************************************************************************)
EXTENDS CodeUnits

MCConfigs ==
    {c \in [command : {"none", "local", "docker"}, listed : BOOLEAN, pinned : BOOLEAN,
            report : BOOLEAN, setup : BOOLEAN] :
        /\ c.pinned => c.listed
        /\ c.report => c.command # "none"
        /\ c.setup => c.command = "docker"}

\* Tests on the host, or in a container without a manifest.
MCHost == {c \in MCConfigs : c.command = "local"}
MCBox == {c \in MCConfigs : c.command = "docker" /\ ~c.pinned}

=============================================================================
