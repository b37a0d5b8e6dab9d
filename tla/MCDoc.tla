------------------------------- MODULE MCDoc -------------------------------
(* The instances of DocServer that TLC checks.                             *)
EXTENDS DocProperties

CONSTANTS c1, c2, c3

\* Two users, each on one connection; the second may edit, or either edit or
\* only view.
TwoUsers == (c1 :> 1) @@ (c2 :> 2)
TwoEditors == {(1 :> "owner") @@ (2 :> "editor")}
EditorOrViewer == {(1 :> "owner") @@ (2 :> r) : r \in {"editor", "viewer"}}

\* A third connection, of a third editor.
ThreeUsers == TwoUsers @@ (c3 :> 3)
ThreeEditors == {(1 :> "owner") @@ (2 :> "editor") @@ (3 :> "editor")}

TwoChars == <<1, 2>>
=============================================================================
