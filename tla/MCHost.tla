-------------------------------- MODULE MCHost --------------------------------
(* Host with the operations of a behaviour kept apart: saving jobs with    *)
(* reports between them, and managing the service.                         *)
EXTENDS Host

MCLoads == {{"submit", "doctor"}, {"submit", "list"}, {"dry_run", "list", "doctor"},
            {"install", "uninstall"}, {"install", "durable"}}

InstallLoad == {{"install"}}

===============================================================================
