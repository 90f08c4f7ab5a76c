------------------------- MODULE MCConfigLifecycle -------------------------
(* Configurations for ConfigLifecycle: the seeded default, the empty file it *)
(* is written into (the built-in defaults, without the admin plane) and the  *)
(* same defaults written out, one with a body_file, one whose rules do not   *)
(* compile and one that does not parse, as the beginning of the default may. *)
(* Enabling the admin plane is a startup setting.                            *)
EXTENDS ConfigInvariant

MCContents == {"default", "empty", "plain", "body", "badrules", "invalid"}
\* enough for the liveness properties
LiveContents == {"default", "empty", "plain", "body"}

\* the beginnings of the default: nothing, all, one that ends inside a value and
\* one that ends before the admin plane is switched on
MCPartial == {"default", "empty", "plain", "invalid"}
LivePartial == {"default", "empty", "plain"}

MCStartup ==
    [c \in MCContents |-> IF c \in {"empty", "plain"} THEN "plain" ELSE "default"]

MCRendered == [c \in MCContents \ {"invalid"} |-> IF c = "empty" THEN "plain" ELSE c]

=============================================================================
