-------------------------------- MODULE MCFs --------------------------------
(***************************************************************************)
(* Instances of AwsS3Fs for TLC.  If 1 stands for "a" and 2 for "b", then  *)
(* <<1, 2>> is the path "/a/b" and the key "a/b", and <<1, 2, 0>> the key  *)
(* "a/b/".                                                                 *)
(***************************************************************************)
EXTENDS AwsS3FsInv

Empty == {{}}

\* The names "a" and "a.b", in the order "", "/", "a", "a.b", "a.b/", "a/".
DottedNames == {1, 2}
DottedExtensions == {<<1, 2>>}
DottedAlone == 0 :> 1 @@ 1 :> 3 @@ 2 :> 4
DottedSlashed == 0 :> 2 @@ 1 :> 6 @@ 2 :> 5

\* The names "a", "b" and "c".
PlainNames == {1, 2, 3}
NoExtensions == {}
PlainAlone == [n \in 0 .. 3 |-> 2 * n]
PlainSlashed == [n \in 0 .. 3 |-> 2 * n + 1]

\* Everything on a directory three levels deep and on a sibling of it.
DeepPaths == {<<0>>, <<1>>, <<1, 1>>, <<1, 1, 2>>, <<1, 2>>, <<2>>}
DeepJobs ==
    {"stat", "exists", "list_dir", "create_dir", "remove_file", "remove_dir", "remove_dir_all", "write"}
        \X DeepPaths

\* No key, an entry of a directory that has no marker, or keys of another
\* client: "a.b" besides "a", and "/", whose path is that of the root.
SharedBuckets == {{}, {<<1, 1>>}, {<<2>>, <<0, 0>>}}

\* Tasks that make and remove the directory "/a", or all there is, and put
\* and look for a file at its path and an entry into it.
SharedJobs ==
    ({"exists", "create_dir", "remove_dir_all", "write"} \X {<<1>>})
        \cup {<<"remove_dir_all", <<0>>>>, <<"write", <<1, 1>>>>}
TaskSymmetry == Permutations(Tasks)

\* A directory and what may be below it, with or without their markers.
KeysBelow == {<<1, 0>>, <<1, 1>>, <<1, 2>>, <<1, 3, 0>>, <<1, 3, 1>>, <<1, 3, 2>>}
BucketsBelow == SUBSET KeysBelow

\* One operation on the directory "/a".
RemoveAll == {<<"remove_dir_all", <<1>>>>}
CreateDir == {<<"create_dir", <<1>>>>}

\* What the theorems about such instances start from is the case in them.
ASSUME InstanceAssumption ==
    /\ Buckets = {{}} => MadeOfPaths /\ (Tidy => TidyOwner)
    /\ PageSize = 100 => OnePage
=============================================================================
