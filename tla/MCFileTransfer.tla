--------------------------- MODULE MCFileTransfer ---------------------------
(* Instances of FileTransfer for TLC. *)
EXTENDS FileTransfer

(* A file with a line end in it, one with a comma in its name, an empty    *)
(* one, one with a name of one character; a name that does not exist.      *)
TestContent ==
    (<<101, 102>> :> <<201, CR, LF>>) @@ (<<101, COMMA>> :> <<202>>)
    @@ (<<102, 102>> :> << >>) @@ (<<101>> :> <<203>>)

TestNames == DOMAIN TestContent \cup {<<103, 103>>, << >>}
=============================================================================
