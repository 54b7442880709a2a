--------------------------- MODULE MCCliSession ---------------------------
(***************************************************************************)
(* A tree of two transports, a namespace with two families of one name,    *)
(* each with an operation, one of them with an attribute, and a directory  *)
(* with a file; paths to each, to a namesake, to nothing.                  *)
(***************************************************************************)
EXTENDS CliSession

MCNode == {"root", "netlink", "sys", "genl", "one", "two", "get", "set", "attr", "dir", "file"}

MCKids == [n \in MCNode |-> CASE n = "root" -> <<"netlink", "sys">>
                             [] n = "netlink" -> <<"genl">>
                             [] n = "genl" -> <<"one", "two">>
                             [] n = "one" -> <<"get">>
                             [] n = "two" -> <<"set">>
                             [] n = "get" -> <<"attr">>
                             [] n = "sys" -> <<"dir">>
                             [] n = "dir" -> <<"file">>
                             [] OTHER -> << >>]

MCNameOf == [n \in MCNode |-> IF n \in {"one", "two"} THEN "family"
                             ELSE IF n = "dir" THEN "sys" ELSE n]

MCOperations == {"get", "set"}

MCInvocable == {"get", "set", "file"}

MCPaths == {<< >>, <<"netlink">>, <<"netlink", "genl">>, <<"netlink", "genl", "family">>,
            <<"netlink", "genl", "family", "get">>, <<"netlink", "genl", "family", "set">>,
            <<"sys", "sys", "file">>, <<"sys", "nothing", "file">>}
=============================================================================
