--------------------------- MODULE MCArtifactStores ---------------------------
(***************************************************************************)
(* Two calls of one run, whose artifacts report.json and report.txt have   *)
(* the same slot, and one call of another run; one body; metadata that     *)
(* redaction makes equal, and metadata whose manifest is too large.        *)
(***************************************************************************)
EXTENDS ArtifactStores, TLC

CONSTANTS c1, c2, c3, r1, r2, json, text, bad, plain, secret, huge, deep

MCRunOf == c1 :> r1 @@ c2 :> r1 @@ c3 :> r2
MCSlotOf == [n \in Name |-> "report"]
MCCanonical == plain :> plain @@ secret :> plain @@ huge :> huge @@ deep :> deep
=============================================================================
