---------------------------- MODULE MCFileSystem ----------------------------
(* FileSystem on small instances: few addresses for nodes, short paths.    *)
EXTENDS FileSystem

\* All addresses but the root's are interchangeable.
Addresses == Permutations(NodeId \ {Root})

AnyText == STRING

Lines(calls, absolute, parts) ==
    {[call |-> call, absolute |-> absolute, parts |-> parts] : call \in calls}

Session ==
    Lines({"cat_open", "touch", "rm", "echo_create", "edit_stat"}, TRUE, <<"README">>)
    \cup Lines({"cd_stat", "mkdir", "rmdir"}, FALSE, <<"a">>)
    \cup Lines({"cd_stat"}, FALSE, <<"..">>)
    \cup Lines({"rmdir"}, TRUE, <<"mnt">>)
    \cup Lines({"cat_open"}, TRUE, <<"mnt", "fat32", "f">>)
    \cup Lines({"cat_open"}, FALSE, <<".", "a">>)

DotSession == Lines({"touch", "cd_stat", "cat_open"}, FALSE, <<".", "a">>)
              \cup Lines({"cat_open", "rm", "edit_stat"}, TRUE, <<"README">>)
=============================================================================
