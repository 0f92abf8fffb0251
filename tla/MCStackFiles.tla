------------------------------ MODULE MCStackFiles ------------------------------
(***************************************************************************)
(* Constants for StackFiles: a directory with a file and a compose file    *)
(* with two services, one of which depends on the other.                   *)
(***************************************************************************)
EXTENDS StackFiles

a == <<"d", "a">>
b == <<"n", "b">>
below == <<"d", "a", "y">>   \* its parent is a file
compose == <<"compose.yml">>

MCFiles ==
    a :> Content("old", <<>>) @@
    compose :> Content("old", "web" :> {"db"} @@ "db" :> {})

Op(kind, path, to, set) ==
    [kind |-> kind, path |-> path, to |-> to, set |-> set, changes |-> NoChanges]
Edit(changes) == [Op("edit", <<>>, <<>>, {}) EXCEPT !.changes = changes]

FileOperations ==
    { Op("write", a, <<>>, {"mode"}), Op("upload", a, <<>>, {"owner"}),
      Op("write", b, <<>>, {}), Op("upload", compose, <<>>, {"mode"}),
      Op("mkdir", <<"n">>, <<>>, {"owner"}),
      Op("delete", <<"d">>, <<>>, {}), Op("delete", a, <<>>, {}),
      Op("delete", below, <<>>, {}), Op("mkdir", below, <<>>, {}),
      Op("rename", <<"d">>, <<"e">>, {}), Op("rename", a, b, {}),
      Op("copy", <<"d">>, <<"e">>, {}), Op("copy", <<"d">>, <<"d", "x">>, {}),
      Op("copy", a, b, {}),
      Op("chmod", <<"d">>, <<>>, {}), Op("chown", a, <<>>, {}),
      Op("read", a, <<>>, {}), Op("read", <<"d">>, <<>>, {}), Op("download", b, <<>>, {}) }

\* A rename that is depended on, a chain, one of what the other edit has made,
\* and a service deleted and added again.
Edits ==
    { Edit([NoChanges EXCEPT !.rename = "db" :> "sql"]),
      Edit([NoChanges EXCEPT !.rename = "db" :> "web" @@ "web" :> "app"]),
      Edit([NoChanges EXCEPT !.rename = "sql" :> "db", !.add = {"web"}, !.delete = {"web"}]),
      Edit([NoChanges EXCEPT !.dependsOn = "web" :> {}, !.delete = {"db"}]) }

MCOperations == FileOperations \cup Edits
Symmetry == Permutations(Requests)
================================================================================
