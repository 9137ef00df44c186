------------------------ MODULE MCContainerManager ------------------------
(* One client for model checking ContainerManager: it has four tasks and two *)
(* dials under way.                                                          *)
EXTENDS ContainerManager

CONSTANTS c1

OneClient == {c1}
=============================================================================
