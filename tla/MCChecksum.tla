----------------------------- MODULE MCChecksum -----------------------------
(***************************************************************************)
(* Files for TLC: every sequence of up to Length bytes.                    *)
(***************************************************************************)
EXTENDS Checksum

CONSTANT Length

MCBytes == {"x", "y", "CR", "LF", "BOM"}

MCFiles == UNION {[1..n -> MCBytes] : n \in 0..Length}

=============================================================================
