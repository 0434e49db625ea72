------------------------- MODULE MCDiagnosticsOffset -------------------------
(* DiagnosticsOffset with lines of wide characters, for TLC. *)
EXTENDS DiagnosticsOffset

ThreeBytes == {3}
LongLines == {10}

=============================================================================
