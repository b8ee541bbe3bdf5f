--------------------------- MODULE MCPluginConsole ---------------------------
(* Instances of PluginConsole for TLC. *)
EXTENDS PluginConsole

=============================================================================
