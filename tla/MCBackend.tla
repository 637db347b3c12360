----------------------------- MODULE MCBackend -----------------------------
(* Two commands, a blob that fits and one that does not; config.shenv      *)
(* names the file or one of two pairs of shell commands.                   *)
EXTENDS Backend

CONSTANTS c1, big

MCInitFile   == {NoBlob, big}
MCInitConfig == {"file", c1}
============================================================================
