------------------------ MODULE MCFsCheckpointStore -------------------------
(***************************************************************************)
(* Instances of FsCheckpointStore for TLC.  The requests are chosen so     *)
(* that every verdict of save occurs: two requests fight for one identity  *)
(* with different content, a second root competes with the first, and a    *)
(* chain of three can grow.                                                *)
(***************************************************************************)
EXTENDS FsCheckpointStore

CONSTANTS a, b, c, x, y, p1, p2, n1, n2, n3

Rq(i, parent, content) == [id |-> i, parent |-> parent, body |-> content]

MCProc == {p1, p2}
MCInode == {n1, n2, n3}

\* Two contents for a, a root b that competes with a, and c after b.
MCRequest == {Rq(a, None, x), Rq(a, None, y), Rq(b, None, y), Rq(b, a, x), Rq(c, b, y)}

\* Only the second content of a makes a record that is too long.
LargeA == {Rq(a, None, y)}
=============================================================================
