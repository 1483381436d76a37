-------------------------------- MODULE MCPipe --------------------------------
(* Instances of Pipe for TLC.                                              *)
EXTENDS Pipe, TLC

\* A pipe between two processes that a third keeps both ends of.
CONSTANTS reader, writer, parent

Shared == reader :> {"r"} @@ writer :> {"w"} @@ parent :> {"r", "w"}

=============================================================================
