---------------------------- MODULE MCLifecycle ----------------------------
(* Small instances: two public listeners that one component serves, and one *)
(* listener of each other component.                                        *)
EXTENDS Lifecycle

MCWidth == [c \in Servers |-> IF c = "http" THEN 2 ELSE 1]

Plane(servers, admin) == [servers |-> servers, admin |-> admin]

\* The public servers beside the admin listener, and beside the management
\* listener when the admin plane is off.
StopConfigurations ==
    {Plane({"http", "admin"}, TRUE), Plane({"http", "management"}, FALSE)}

\* One public listener, with and without the sampler and the saver; the admin
\* listener itself, which neither counts nor saves, is left out.
SaveConfigurations == {Plane({"https"}, TRUE), Plane({"https"}, FALSE)}

=============================================================================
