----------------------------- MODULE MCGateway ------------------------------
(* Gateway for TLC: one token for each of two filesystems, and a request of   *)
(* each kind the checks of ServeHTTP tell apart.                              *)
EXTENDS Gateway, TLC

CONSTANTS t1, t2

V2(segs) == [root |-> "v2", segs |-> segs]
Asked(method, path) == [method |-> method, path |-> path]

ListFilesystems == Asked("GET", V2(<<"filesystems">>))
CreateFileset == Asked("POST", V2(<<"filesystems", "fs0", "filesets">>))
Mount == Asked("PUT", V2(<<"filesystems", "fs0", "mount">>))
Traversal == Asked("DELETE", V2(<<"filesystems", "fs0", "directory", "..", "..", "fs1", "directory", "d">>))
OldVersion == Asked("GET", [root |-> "scalemgmt", segs |-> <<"v1", "filesystems">>])
Elsewhere == Asked("GET", [root |-> "other", segs |-> <<"favicon.ico">>])

MCRequest == {ListFilesystems, CreateFileset, Mount, Traversal, OldVersion, Elsewhere}
MCToken == {t1, t2}
MCAllowedFS == (t1 :> {"fs0"}) @@ (t2 :> {"fs1"})
MCGuiTarget ==
  [x \in MCRequest |-> CASE x \in {CreateFileset, Mount} -> "fs0"
                         [] x = Traversal -> "fs1"
                         [] OTHER -> ""]

=============================================================================
